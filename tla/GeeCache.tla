------------------------------ MODULE GeeCache ------------------------------
(***************************************************************************)
(* The cache group on several nodes: Group.Get and load                    *)
(* (src/geecache/geecatche.go), HTTPPool and httpGetter (http.go), each    *)
(* node with its own ring (ConsistentHash), its singleflight group (the    *)
(* actions of Flight, with a node and a key as key) and its cache.         *)
(*                                                                         *)
(* A thread <<u, d>> is the goroutine of user u's call of Get for d = 0,   *)
(* and for d > 0 the handler that the d-th hop of that call has started on *)
(* another node.  The getter's value for a key is written as the key.      *)
(* Keys travel through url.QueryEscape, and are taken from the path of the *)
(* URL, where "+" is no space: Wire[k] is what arrives for k.              *)
(***************************************************************************)
EXTENDS ConsistentHash

CONSTANTS
    Nodes, Users, Keys,
    Home,      \* Home[u]: the node that user u asks
    DB,        \* the keys the getter finds
    Wire,      \* Wire[k]: the key that ServeHTTP sees for k
    Hashes,    \* the hash functions to consider, as in ConsistentHash
    RingSize,  \* hashes are below it (2^32 for crc32)
    PeerLists, \* the arguments of HTTPPool.Set, in any order of a map
    MaxHops,   \* bound: hops of one call
    MaxFailures,  \* bound: failing connections
    None, Err

ASSUME GeeCacheAssumption ==
    /\ DB \subseteq Keys /\ Home \in [Users -> Nodes]
    /\ Wire \in [Keys -> Keys] /\ \A k \in Keys : Wire[Wire[k]] = Wire[k]
    /\ \A h \in Hashes :
        /\ h.node \in [(0..Replicas - 1) \X Nodes -> 0..RingSize - 1]
        /\ h.key \in [Keys -> 0..RingSize - 1]
    /\ Replicas \in Nat \ {0} /\ RingSize \in Nat \ {0}
    /\ PeerLists \subseteq Seq(Nodes) \ {<<>>}
    /\ MaxHops \in Nat /\ MaxFailures \in Nat
    /\ None \notin Nodes \cup Keys /\ Err \notin Keys \cup {None}
    /\ None \notin Users \X (0..MaxHops)

Threads == Users \X (0..MaxHops)
Values == Keys \cup {Err}

VARIABLES
    hash,     \* the hash function of all rings
    pool,     \* pool[n]: p.peers of the node's pool; None until registered
    getters,  \* getters[n]: the peers that p.httpGetters has an entry for
    cache,    \* cache[n][k]: mainCache
    pc, node, key,   \* a thread, the node it is on, the key of its Get
    peer,     \* peer[t]: the node its request goes to
    answer,   \* answer[t]: what Get returned
    leader, current, landed, result,  \* the groups g.loader, see Flight
    split,    \* history: two nodes have named different owners for a key
    failed    \* history: how many requests to a peer have failed

poolVars == <<hash, pool, getters, split>>
loaderVars == <<leader, current, landed, result>>
threadVars == <<pc, node, key, peer, answer>>
vars == <<poolVars, loaderVars, threadVars, cache, failed>>

Loader == INSTANCE Flight WITH Callers <- Threads, Keys <- Nodes \X Keys,
                               Results <- Values

PCs == {"idle", "load", "wait", "dial", "fetch", "local", "land",
        "returned"}

\* The owner of k in the ring r of some node; None: the node loads itself.
Owner(r, k) == IF r = None THEN None ELSE MapGet(hash, r, k, None)

\* Two nodes differ about an owner, or one does not know of any yet.
Split(pools) ==
    \E n1, n2 \in Nodes, k \in Keys :
        Owner(pools[n1], k) = None \/ Owner(pools[n1], k) # Owner(pools[n2], k)

Ring(peers) == Add(hash, New, peers)

Init ==
    /\ hash \in Hashes
    /\ \E lists \in [Nodes -> PeerLists \cup {<<>>}] :
        /\ pool = [n \in Nodes |->
                       IF lists[n] = <<>> THEN None ELSE Ring(lists[n])]
        /\ getters = [n \in Nodes |-> ToSet(lists[n])]
    /\ cache = [n \in Nodes |-> [k \in Keys |-> None]]
    /\ pc = [t \in Threads |-> "idle"]
    /\ node = [t \in Threads |-> None]
    /\ key = [t \in Threads |-> None]
    /\ peer = [t \in Threads |-> None]
    /\ answer = [t \in Threads |-> None]
    /\ Loader!Init
    /\ split = Split(pool) /\ failed = 0

\* HTTPPool.Set(peers...) makes a new ring, and new getters.  The first one
\* comes with RegisterPeers, before the node serves requests.  (One that
\* changes nothing is a stuttering step.)
Set(n, peers) ==
    /\ pool' = [pool EXCEPT ![n] = Ring(peers)]
    /\ pool' # pool
    /\ getters' = [getters EXCEPT ![n] = ToSet(peers)]
    /\ split' = (split \/ Split(pool'))
    /\ UNCHANGED <<hash, cache, failed, threadVars, loaderVars>>

\* Group.Get(k) on node n in thread t, with the program counters of the
\* other threads as in pcs: the cache has the key, or load is next.
GroupGet(t, n, k, pcs) ==
    /\ pc[t] = "idle"
    /\ pc' = [pcs EXCEPT ![t] = IF cache[n][k] = None THEN "load"
                                ELSE "returned"]
    /\ answer' = [answer EXCEPT ![t] = cache[n][k]]
    /\ node' = [node EXCEPT ![t] = n]
    /\ key' = [key EXCEPT ![t] = k]
    /\ UNCHANGED <<poolVars, loaderVars, cache, failed>>

\* A user calls Get on its node.
Get(u, k) == GroupGet(<<u, 0>>, Home[u], k, pc) /\ UNCHANGED peer

Step(t, from, to) == pc[t] = from /\ pc' = [pc EXCEPT ![t] = to]

\* Faulty variant: a node that owns the key asks itself over HTTP.
PickPeerSelf(t) ==
    LET p == Owner(pool[node[t]], key[t]) IN
    /\ Step(t, "load", IF p = None THEN "local" ELSE "dial")
    /\ peer' = [peer EXCEPT ![t] = p]

\* The leader's function asks the pool, if there is one, for the owner of
\* the key: another node, or the leader's own getter is next.
PickPeer(t) ==
    LET p == Owner(pool[node[t]], key[t]) IN
    /\ Step(t, "load", IF p \in {None, node[t]} THEN "local" ELSE "dial")
    /\ peer' = [peer EXCEPT ![t] = p]

\* Faulty variant: load calls its function without the singleflight group.
DoAlone(t) ==
    /\ PickPeer(t)
    /\ leader' = [leader EXCEPT ![t] = t]
    /\ UNCHANGED <<poolVars, cache, failed, node, key, answer,
                   current, landed, result>>

\* load: g.loader.Do(key, ...), waiting for the flight of the key or leading
\* it.  PickPeer, which takes the lock of the pool, is the first thing the
\* leader does; nothing it reads is changed by Do.
Do(t) ==
    /\ LET k == <<node[t], key[t]>> IN
        \/ Step(t, "load", "wait") /\ Loader!Board(t, k) /\ UNCHANGED peer
        \/ PickPeer(t) /\ Loader!Lead(t, k)
    /\ UNCHANGED <<poolVars, cache, failed, node, key, answer>>

\* httpGetter.Get reaches the peer: ServeHTTP calls Get with the key it
\* finds in the path.
ServeHTTP(t) ==
    LET handler == <<t[1], t[2] + 1>> IN
    /\ pc[t] = "dial" /\ pool[peer[t]] # None /\ handler \in Threads
    /\ GroupGet(handler, peer[t], Wire[key[t]], [pc EXCEPT ![t] = "fetch"])
    /\ UNCHANGED peer

\* Faulty variant: what a peer has sent is put into the cache.
ReplyCached(t) ==
    LET r == answer[<<t[1], t[2] + 1>>] IN
    /\ pc[t] = "fetch" /\ r # None
    /\ IF r = Err
       THEN /\ Step(t, "fetch", "local")
            /\ UNCHANGED <<loaderVars, cache>>
       ELSE /\ Step(t, "fetch", "land")
            /\ Loader!Land(t, r)
            /\ cache' = [cache EXCEPT ![node[t]][key[t]] = r]
    /\ UNCHANGED <<poolVars, failed, node, key, peer, answer>>

\* The handler has returned: its value is the result of the flight, its
\* error (a status other than 200) sends the leader to its own getter.
Reply(t) ==
    LET r == answer[<<t[1], t[2] + 1>>] IN
    /\ pc[t] = "fetch" /\ r # None
    /\ \/ r = Err /\ Step(t, "fetch", "local") /\ UNCHANGED loaderVars
       \/ r # Err /\ Step(t, "fetch", "land") /\ Loader!Land(t, r)
    /\ UNCHANGED <<poolVars, cache, failed, node, key, peer, answer>>

\* Faulty variant: load returns the peer's error to its caller.
FetchErrorFinal(t, from) ==
    /\ pc[t] \in from
    /\ pc' = [pc EXCEPT ![t] = "land"]
    /\ Loader!Land(t, Err)
    /\ UNCHANGED <<poolVars, cache, node, key, peer, answer>>

\* httpGetter.Get returns an error: load goes on with the node's own getter.
FetchError(t, from) ==
    /\ pc[t] \in from
    /\ pc' = [pc EXCEPT ![t] = "local"]
    /\ UNCHANGED <<poolVars, loaderVars, cache, node, key, peer, answer>>

\* The connection fails, before the peer's handler starts or while it works;
\* the handler knows nothing of that.
FetchFails(t) ==
    /\ failed < MaxFailures
    /\ failed' = failed + 1
    /\ FetchError(t, {"dial", "fetch"})

\* The peer is not listening yet.
Refused(t) ==
    /\ FetchError(t, {"dial"}) /\ pool[peer[t]] = None
    /\ UNCHANGED failed

\* getLocally: the getter's value goes into the cache, where it may evict
\* others, or itself; a key the getter does not know is an error.
getLocally(t) ==
    LET n == node[t]
        k == key[t]
    IN
    /\ Step(t, "local", "land")
    /\ IF k \in DB
       THEN /\ Loader!Land(t, k)
            /\ \E evicted \in SUBSET
                    {j \in Keys : j = k \/ cache[n][j] # None} :
                cache' = [cache EXCEPT ![n] = [j \in Keys |->
                    IF j \in evicted THEN None
                    ELSE IF j = k THEN k ELSE cache[n][j]]]
       ELSE Loader!Land(t, Err) /\ UNCHANGED cache
    /\ UNCHANGED <<poolVars, failed, node, key, peer, answer>>

\* Do returns to the leader or to one who waited, and so does Get.
Leave(t) ==
    /\ pc[t] \in {"land", "wait"}
    /\ Loader!Leave(t)
    /\ pc' = [pc EXCEPT ![t] = "returned"]
    /\ answer' = [answer EXCEPT ![t] = landed[leader[t]]]
    /\ UNCHANGED <<poolVars, cache, failed, node, key, peer>>

Next ==
    \/ \E n \in Nodes, peers \in PeerLists : Set(n, peers)
    \/ \E u \in Users, k \in Keys : Get(u, k)
    \/ \E t \in Threads :
        \/ Do(t) \/ ServeHTTP(t) \/ Reply(t)
        \/ FetchFails(t) \/ Refused(t) \/ getLocally(t) \/ Leave(t)

Spec == Init /\ [][Next]_vars

\* Goroutines run, the getter returns, a peer that serves is reached, and a
\* connection to one that does not is refused.  A thread takes finitely many
\* steps: that some thread goes on as long as one can means that all do.
Fairness == WF_vars(\E t \in Threads :
    \/ Do(t) \/ ServeHTTP(t) \/ Reply(t) \/ Refused(t)
    \/ getLocally(t) \/ Leave(t))

FairSpec == Spec /\ Fairness
-----------------------------------------------------------------------------
(* Properties                                                              *)

\* Types of the variables.
TypeOK ==
    /\ hash \in Hashes /\ split \in BOOLEAN
    /\ pool = [n \in Nodes |-> pool[n]]
    /\ getters \in [Nodes -> SUBSET Nodes]
    /\ cache \in [Nodes -> [Keys -> Keys \cup {None}]]
    /\ pc \in [Threads -> PCs]
    /\ node \in [Threads -> Nodes \cup {None}]
    /\ key \in [Threads -> Keys \cup {None}]
    /\ peer \in [Threads -> Nodes \cup {None}]
    /\ answer \in [Threads -> Values \cup {None}]
    /\ leader \in [Threads -> Threads \cup {None}]
    /\ current \in [Nodes \X Keys -> Threads \cup {None}]
    /\ landed \in [Threads -> Values \cup {None}]
    /\ result \in [Threads -> Values \cup {None}]
    /\ failed \in 0..MaxFailures

\* How far the hash h is from that of the key, going round the ring.
Distance(h, k) == (h - hash.key[k] + RingSize) % RingSize

\* The owner a ring names is one of its nodes, and no virtual node is nearer
\* to the key than the owner's nearest: the sort, the search and the wrap at
\* the end find what a search through all virtual nodes would.  Nodes with
\* the same peers, in whatever order (main.go ranges over a map), therefore
\* agree about the owner, unless two virtual nodes collide.
OwnerIsNearest ==
    \A n \in Nodes, k \in Keys : pool[n] # None =>
        LET o == Owner(pool[n], k) IN
        /\ o \in getters[n]
        /\ \E i \in 0..Replicas - 1 :
            \A p \in getters[n], j \in 0..Replicas - 1 :
                Distance(hash.node[<<i, o>>], k) <=
                    Distance(hash.node[<<j, p>>], k)

\* No cache ever holds the value of another key, although a peer may answer
\* with one (when the key changes on the wire): only values of the node's
\* own getter are cached.
CacheIsRight == \A n \in Nodes, k \in Keys : cache[n][k] \in {k, None}

\* Get fails only for a key the getter does not know, whatever happens to
\* the peers; and its value is that of the key, or of what became of the key
\* on the wire.
GetIsRight ==
    \A u \in Users : LET t == <<u, 0>> IN
        pc[t] = "returned" =>
            \/ answer[t] = Err /\ key[t] \notin DB
            \/ answer[t] \in DB /\ answer[t] \in {key[t], Wire[key[t]]}

\* As long as the nodes agree about the owners and no request has failed, a
\* key is being loaded by one goroutine at a time on all nodes together: all
\* flights lead to the owner's.
LoadedOnce ==
    ~ split /\ failed = 0 =>
        \A t1, t2 \in Threads :
            /\ pc[t1] = "local" /\ pc[t2] = "local" /\ key[t1] = key[t2]
            /\ {key[t1], Wire[key[t1]]} \subseteq DB
            => t1 = t2

\* Get returns, unless the nodes have disagreed about an owner: then each of
\* two may wait, inside its flight for a key, for the other's.
GetEnds == \A u \in Users :
               pc[<<u, 0>>] = "load" ~> pc[<<u, 0>>] = "returned" \/ split
=============================================================================
