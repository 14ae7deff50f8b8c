--------------------------------- MODULE LRU ---------------------------------
(***************************************************************************)
(* The byte-bounded LRU cache of a group: lru.Cache (geecache/lru/lru.go)  *)
(* behind the mutex of geecache's cache (geecache/cache.go).  Every        *)
(* operation runs under that mutex, so the cache is a sequential machine;  *)
(* Add's eviction loop is one step per iteration, the mutex held.          *)
(*                                                                         *)
(* A value is its Len(); two Adds of one key with equal lengths cannot be  *)
(* told apart here, and need not be.                                       *)
(***************************************************************************)
EXTENDS Integers, Sequences, SequencesExt

CONSTANTS
    CacheKeys, \* the keys
    KeyLen,    \* KeyLen[k]: len(key)
    Sizes,     \* the lengths of values
    MaxBytes   \* cacheBytes; 0 means no limit

ASSUME LRUAssumption ==
    /\ KeyLen \in [CacheKeys -> Nat]
    /\ Sizes \subseteq Nat
    /\ MaxBytes \in Nat

VARIABLES
    made,     \* c.lru # nil: lru.New has run
    ll,       \* the list, front first: [key, value]
    catche,   \* the keys of the map
    nbytes,   \* the bytes in use, as the code counts them
    evicting, \* Add is in its eviction loop
    since,    \* history: since[k]: the keys used since k was used
    latest    \* history: latest[k]: the value last added under k, -1 if none

lruVars == <<made, ll, catche, nbytes, evicting, since, latest>>

Entries == [key : CacheKeys, value : Sizes]
Entry(k, v) == [key |-> k, value |-> v]
Size(e) == KeyLen[e.key] + e.value
Bytes(q) ==
    LET sum[i \in 0..Len(q)] == IF i = 0 THEN 0 ELSE sum[i - 1] + Size(q[i])
    IN  sum[Len(q)]

LRUInit ==
    /\ made = FALSE
    /\ ll = <<>>
    /\ catche = {}
    /\ nbytes = 0
    /\ evicting = FALSE
    /\ since = [k \in CacheKeys |-> {}]
    /\ latest = [k \in CacheKeys |-> -1]

\* c.catche[k]: where the element of k is in the list.
Element(k) == CHOOSE i \in DOMAIN ll : ll[i].key = k

\* The element of k is at the front, as the entry e.
MoveToFront(k, e) == ll' = <<e>> \o RemoveAt(ll, Element(k))

Use(k) == since' = [j \in CacheKeys |-> IF j = k THEN {}
                                        ELSE since[j] \cup {k}]

\* Faulty variant: get does not move the element.
getInPlace(k) ==
    /\ ~evicting /\ made
    /\ k \in catche
    /\ Use(k)
    /\ UNCHANGED <<made, ll, catche, nbytes, evicting, latest>>

\* cache.get on a hit: the element moves to the front.
get(k) ==
    /\ ~evicting /\ made
    /\ k \in catche
    /\ MoveToFront(k, ll[Element(k)])
    /\ Use(k)
    /\ UNCHANGED <<made, catche, nbytes, evicting, latest>>

\* Faulty variant: the key is counted again when its value is replaced.
ReplaceRecounts(k, v) ==
    /\ ~evicting /\ k \in catche
    /\ nbytes' = nbytes + KeyLen[k] + v - ll[Element(k)].value
    /\ MoveToFront(k, Entry(k, v))
    /\ evicting' = TRUE
    /\ latest' = [latest EXCEPT ![k] = v]
    /\ Use(k)
    /\ UNCHANGED <<made, catche>>

\* cache.add of a key in the cache: the value is replaced at the front.
Replace(k, v) ==
    /\ ~evicting /\ k \in catche
    /\ nbytes' = nbytes + v - ll[Element(k)].value
    /\ MoveToFront(k, Entry(k, v))
    /\ evicting' = TRUE
    /\ latest' = [latest EXCEPT ![k] = v]
    /\ Use(k)
    /\ UNCHANGED <<made, catche>>

\* cache.add of a new key, the lru made on first use.
Insert(k, v) ==
    /\ ~evicting /\ k \notin catche
    /\ made' = TRUE
    /\ ll' = <<Entry(k, v)>> \o ll
    /\ catche' = catche \cup {k}
    /\ nbytes' = nbytes + KeyLen[k] + v
    /\ evicting' = TRUE
    /\ latest' = [latest EXCEPT ![k] = v]
    /\ Use(k)

OverLimit == MaxBytes # 0 /\ MaxBytes < nbytes

\* c.ll.Back() as a sequence, empty if the list is, and the rest.
Back == IF ll = <<>> THEN <<>> ELSE <<Last(ll)>>
AllButBack == Front(ll)

\* Faulty variant: the size of the removed entry is not given back.
RemoveOldestRecount ==
    /\ evicting /\ OverLimit
    /\ ll' = AllButBack
    /\ catche' = catche \ {e.key : e \in ToSet(Back)}
    /\ UNCHANGED <<made, nbytes, evicting, since, latest>>

\* One iteration of Add's loop: RemoveOldest takes the back of the list.  On
\* an empty list it does nothing and the loop goes on.
RemoveOldest ==
    /\ evicting /\ OverLimit
    /\ ll' = AllButBack
    /\ catche' = catche \ {e.key : e \in ToSet(Back)}
    /\ nbytes' = nbytes - Bytes(Back)
    /\ UNCHANGED <<made, evicting, since, latest>>

\* The loop is over and Add returns.
AddReturns ==
    /\ evicting /\ ~OverLimit
    /\ evicting' = FALSE
    /\ UNCHANGED <<made, ll, catche, nbytes, since, latest>>

LRUNext ==
    \/ \E k \in CacheKeys : get(k)
    \/ \E k \in CacheKeys, v \in Sizes : Replace(k, v) \/ Insert(k, v)
    \/ RemoveOldest
    \/ AddReturns

LRUSpec == LRUInit /\ [][LRUNext]_lruVars

\* The goroutine inside Add runs on.
LRUFairSpec == LRUSpec /\ WF_lruVars(RemoveOldest \/ AddReturns)
-----------------------------------------------------------------------------
(* Properties                                                              *)

\* Types of the variables.
LRUTypeOK ==
    /\ made \in BOOLEAN /\ evicting \in BOOLEAN
    /\ ll \in Seq(Entries)
    /\ catche \subseteq CacheKeys
    /\ nbytes \in Int
    /\ since \in [CacheKeys -> SUBSET CacheKeys]
    /\ latest \in [CacheKeys -> Sizes \cup {-1}]

\* The counter is the size of the contents, through every insertion,
\* replacement and eviction: it neither drifts nor goes negative.
BytesCounted == nbytes = Bytes(ll)

\* The map has the keys of the list, each in one element, and before that
\* element are exactly the cached keys used after it: the list is the order
\* of use, its back the least recently used.  It holds the values last added.
ListIsRecency ==
    /\ catche = {ll[i].key : i \in DOMAIN ll}
    /\ \A i \in DOMAIN ll :
          /\ {ll[j].key : j \in 1..(i - 1)} = since[ll[i].key] \cap catche
          /\ ll[i].value = latest[ll[i].key]

\* The eviction loop ends: Add never spins on an empty list.
AddEnds == evicting ~> ~evicting
=============================================================================
