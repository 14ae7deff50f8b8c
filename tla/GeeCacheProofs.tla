--------------------------- MODULE GeeCacheProofs ---------------------------
(***************************************************************************)
(* Theorems about the cache group on several nodes: rings name the right   *)
(* owners, no cache holds a wrong value, Get returns the right one or the  *)
(* right error, and without disagreement and failures a key is loaded      *)
(* once.  They hold for any number of nodes, virtual nodes, users, keys,   *)
(* hops and failures.                                                      *)
(*                                                                         *)
(* Theorems about the LRU cache of a node: its byte counter is exact, its  *)
(* list is the order of use, and eviction takes the oldest and no more     *)
(* than it must.                                                           *)
(***************************************************************************)
EXTENDS GeeCache, LRU, FiniteSetTheorems, WellFoundedInduction, TLAPS

\* What Get may return for k: the getter's error, or a value the getter has
\* for k or for what k becomes on the wire.
Right(k, v) == \/ v = Err /\ k \notin DB
               \/ v \in DB /\ v \in {k, Wire[k]}

HandlerOf(t) == <<t[1], t[2] + 1>>

\* The two outcomes of Do.
Boards(t) == /\ Step(t, "load", "wait") /\ UNCHANGED peer
             /\ Loader!Board(t, <<node[t], key[t]>>)
Leads(t) == PickPeer(t) /\ Loader!Lead(t, <<node[t], key[t]>>)

\* Where a thread leads a flight.
Flying == {"dial", "fetch", "local", "land"}

\* What is in a cache came from the getter.
CacheInv ==
    /\ cache \in [Nodes -> [Keys -> Keys \cup {None}]]
    /\ \A n \in Nodes, k \in Keys :
          cache[n][k] # None => cache[n][k] = k /\ k \in DB

\* Where a thread is, what it knows of its call and of its handler.
ThreadInv ==
    \A t \in Threads :
        /\ pc[t] # "idle" => node[t] \in Nodes /\ key[t] \in Keys
        /\ pc[t] \in {"idle", "load"} => leader[t] = None
        /\ pc[t] \in {"dial", "fetch"} => peer[t] \in Nodes
        /\ pc[t] = "fetch" =>
              /\ HandlerOf(t) \in Threads /\ pc[HandlerOf(t)] # "idle"
              /\ key[HandlerOf(t)] = Wire[key[t]]
        /\ pc[t] = "returned" <=> answer[t] # None

\* A thread in flight leads the one flight of its node and key; those who
\* wait for it are there for the same key.
FlightInv ==
    /\ \A t \in Threads :
        /\ pc[t] \in Flying => /\ leader[t] = t
                               /\ current[<<node[t], key[t]>>] = t
        /\ pc[t] \in Flying \ {"land"} => landed[t] = None
        /\ leader[t] # None =>
              LET l == leader[t] IN
              leader[l] = l /\ node[l] = node[t] /\ key[l] = key[t]
    /\ \A n \in Nodes, k \in Keys : current[<<n, k>>] # None =>
          LET l == current[<<n, k>>] IN
          pc[l] \in Flying /\ node[l] = n /\ key[l] = k

\* Results and answers are right for the key of their thread.
ValueInv ==
    \A t \in Threads :
        /\ landed[t] # None => leader[t] = t /\ Right(key[t], landed[t])
        /\ answer[t] # None => Right(key[t], answer[t])

\* As long as the nodes agree and no request has failed, a thread loads a key
\* that every other node would send to the thread's node.
OwnInv ==
    /\ Split(pool) => split
    /\ ~ split /\ failed = 0 =>
          \A t \in Threads :
              pc[t] = "local" /\ {key[t], Wire[key[t]]} \subseteq DB =>
                  \A m \in Nodes \ {node[t]} :
                      Owner(pool[m], key[t]) = node[t]

\* What is left of the invariant besides types and caches.
CallInv == ThreadInv /\ FlightInv /\ ValueInv /\ OwnInv

\* The inductive invariant.
IInv == TypeOK /\ CacheInv /\ CallInv
-----------------------------------------------------------------------------
(* Constants and types                                                     *)

LEMMA Constants ==
    /\ None \notin Nodes /\ None \notin Keys /\ None \notin Threads
    /\ Err \notin Keys /\ Err # None /\ DB \subseteq Keys
    /\ Home \in [Users -> Nodes]
    /\ Wire \in [Keys -> Keys] /\ \A k \in Keys : Wire[Wire[k]] = Wire[k]
    /\ MaxFailures \in Nat /\ PeerLists \subseteq Seq(Nodes)
BY GeeCacheAssumption DEF Threads

-----------------------------------------------------------------------------
(* The ring                                                                *)

\* A set of numbers has a least one.
LEMMA NatMin ==
    ASSUME NEW T \in SUBSET Nat, T # {}
    PROVE  Min(T) \in T /\ \A y \in T : Min(T) <= y
PROOF
<1> DEFINE R == OpToRel(<, Nat)
<1>1. IsWellFoundedOn(R, Nat)
  BY NatLessThanWellFounded
<1>2. \A a, b \in Nat : <<a, b>> \in R <=> a < b
  BY DEF OpToRel
<1> HIDE DEF R
<1>3. PICK x \in T : \A y \in T : ~ (<<y, x>> \in R)
  BY <1>1, WFMin
<1>4. ASSUME NEW y \in T PROVE x <= y
  <2>1. x \in Nat /\ y \in Nat /\ ~ (y < x)
    BY <1>2, <1>3
  <2> QED
    BY <2>1
<1> QED
  BY <1>4 DEF Min

\* sort.Ints: the same numbers, in their order.
LEMMA SortIntsSorts ==
    ASSUME NEW s \in Seq(Nat)
    PROVE  LET t == SortInts(s)
           IN  /\ t \in [1..Len(s) -> ToSet(s)]
               /\ \A i, j \in 1..Len(s) : i <= j => t[i] <= t[j]
               /\ \A h \in ToSet(s) : \E i \in 1..Len(s) : t[i] = h
PROOF
<1> DEFINE t == SortInts(s)
           UpTo(h) == {j \in DOMAIN s : s[j] <= h}
           Count(h) == Cardinality(UpTo(h))
           C(i) == {h \in ToSet(s) : Count(h) >= i}
<1>1. /\ Len(s) \in Nat /\ DOMAIN s = 1..Len(s)
      /\ \A j \in 1..Len(s) : s[j] \in Nat
      /\ ToSet(s) \subseteq Nat
  BY DEF ToSet
<1>2. IsFiniteSet(1..Len(s)) /\ Cardinality(1..Len(s)) = Len(s)
  <2>1. /\ IsFiniteSet(1..Len(s))
        /\ Cardinality(1..Len(s)) = IF 1 > Len(s) THEN 0 ELSE Len(s) - 1 + 1
    BY <1>1, FS_Interval
  <2> QED
    BY <1>1, <2>1
<1>3. ASSUME NEW h
      PROVE  IsFiniteSet(UpTo(h)) /\ Count(h) \in Nat /\ Count(h) <= Len(s)
  <2>1. UpTo(h) \subseteq 1..Len(s)
    BY <1>1
  <2> QED
    BY <1>2, <2>1, FS_Subset, FS_CardinalityType
<1>4. ASSUME NEW h \in Nat, NEW j \in 1..Len(s), h < s[j]
      PROVE  Count(h) < Count(s[j])
  <2>1. s[j] \in Nat
    BY <1>1
  <2>2. UpTo(h) \subseteq UpTo(s[j])
    BY <1>1, <1>4, <2>1
  <2>3. j \in UpTo(s[j]) /\ j \notin UpTo(h)
    BY <1>1, <1>4, <2>1
  <2>4. IsFiniteSet(UpTo(s[j])) /\ Count(s[j]) \in Nat /\ Count(h) \in Nat
    BY <1>3
  <2>5. Count(h) <= Count(s[j]) /\ (Count(h) = Count(s[j]) => UpTo(h) = UpTo(s[j]))
    BY <2>2, <2>4, FS_Subset
  <2>6. Count(h) # Count(s[j])
    BY <2>3, <2>5
  <2> QED
    BY <2>4, <2>5, <2>6
<1>5. \A i \in 1..Len(s) : t[i] = Min(C(i))
  BY <1>1 DEF SortInts
<1> HIDE DEF t, Count, UpTo
<1>6. ASSUME NEW i \in 1..Len(s) PROVE C(i) # {}
  <2> DEFINE D == {Len(s) - Count(h) : h \in ToSet(s)}
  <2>1. D \in SUBSET Nat
    BY <1>1, <1>3
  <2>2. s[i] \in ToSet(s)
    BY <1>1 DEF ToSet
  <2>3. D # {}
    BY <2>2
  <2>4. PICK d \in D : \A y \in D : d <= y
    BY <2>1, <2>3, NatMin
  <2>5. PICK h \in ToSet(s) : d = Len(s) - Count(h)
    BY <2>4
  <2>6. ASSUME NEW j \in 1..Len(s) PROVE s[j] <= h
    <3> SUFFICES ASSUME h < s[j] PROVE FALSE
      BY <1>1
    <3>1. Count(h) < Count(s[j])
      BY <1>1, <1>4
    <3>2. Len(s) - Count(s[j]) \in D
      BY <1>1 DEF ToSet
    <3>3. Len(s) - Count(h) <= Len(s) - Count(s[j])
      BY <2>4, <2>5, <3>2
    <3>4. Count(h) \in Nat /\ Count(s[j]) \in Nat
      BY <1>3
    <3> QED
      BY <1>1, <3>1, <3>3, <3>4
  <2>7. UpTo(h) = 1..Len(s)
    BY <1>1, <2>6 DEF UpTo
  <2>8. Count(h) = Len(s)
    BY <1>2, <2>7 DEF Count
  <2> QED
    BY <1>1, <2>8
<1>7. ASSUME NEW i \in 1..Len(s)
      PROVE  t[i] \in C(i) /\ \A h \in C(i) : t[i] <= h
  <2>1. C(i) \in SUBSET Nat /\ C(i) # {}
    BY <1>1, <1>6
  <2>2. Min(C(i)) \in C(i) /\ \A h \in C(i) : Min(C(i)) <= h
    BY <2>1, NatMin
  <2> QED
    BY <1>5, <2>2
<1>8. t \in [1..Len(s) -> ToSet(s)]
  <2>1. t = [i \in 1..Len(s) |-> t[i]]
    BY <1>1 DEF t, SortInts
  <2> QED
    BY <1>7, <2>1
<1>9. ASSUME NEW i \in 1..Len(s), NEW j \in 1..Len(s), i <= j PROVE t[i] <= t[j]
  <2>1. t[j] \in ToSet(s) /\ Count(t[j]) >= j
    BY <1>7
  <2>2. Count(t[j]) >= i
    BY <1>3, <1>9, <2>1
  <2>3. t[j] \in C(i)
    BY <2>1, <2>2
  <2> QED
    BY <1>7, <2>3
<1>10. ASSUME NEW h \in ToSet(s) PROVE \E i \in 1..Len(s) : t[i] = h
  <2>1. PICK j \in 1..Len(s) : s[j] = h
    BY <1>1 DEF ToSet
  <2>2. j \in UpTo(h) /\ h \in Nat
    BY <1>1, <2>1 DEF UpTo
  <2>3. Count(h) # 0
    BY <1>3, <2>2, FS_EmptySet DEF Count
  <2>4. Count(h) \in 1..Len(s)
    BY <1>1, <1>3, <2>3
  <2>5. h \in C(Count(h))
    BY <1>3
  <2>6. t[Count(h)] <= h /\ t[Count(h)] \in Nat /\ Count(t[Count(h)]) >= Count(h)
    BY <1>1, <1>7, <2>4, <2>5
  <2>7. ~ (t[Count(h)] < h)
    <3> SUFFICES ASSUME t[Count(h)] < h PROVE FALSE
      OBVIOUS
    <3>1. Count(t[Count(h)]) < Count(h)
      BY <1>4, <2>1, <2>6
    <3>2. Count(t[Count(h)]) \in Nat /\ Count(h) \in Nat
      BY <1>3
    <3> QED
      BY <2>6, <3>1, <3>2
  <2>8. t[Count(h)] = h
    BY <2>2, <2>6, <2>7
  <2> QED
    BY <2>4, <2>8
<1> QED
  BY <1>8, <1>9, <1>10 DEF t

\* A bounded set of numbers has a greatest one.
LEMMA NatMax ==
    ASSUME NEW n \in Nat, NEW T \in SUBSET (1..n), T # {}
    PROVE  Max(T) \in T
PROOF
<1> DEFINE D == {n - x : x \in T}
<1>1. \A x \in T : x \in 1..n /\ n - x \in Nat
  OBVIOUS
<1>a. D \in SUBSET Nat /\ D # {}
  BY <1>1
<1>2. PICK d \in D : \A y \in D : d <= y
  BY <1>a, NatMin
<1>3. PICK x \in T : d = n - x
  BY <1>2
<1>4. ASSUME NEW y \in T PROVE x >= y
  <2>1. n - x <= n - y
    BY <1>2, <1>3
  <2> QED
    BY <1>1, <2>1
<1> QED
  BY <1>4 DEF Max

\* The rounds of two nested loops.
LEMMA DivBound ==
    ASSUME NEW r \in Nat \ {0}, NEW l \in Nat, NEW x \in 0..(l * r - 1)
    PROVE  x \div r \in 0..(l - 1)
OBVIOUS

LEMMA DivMod ==
    ASSUME NEW r \in Nat \ {0}, NEW q \in Nat, NEW i \in 0..(r - 1)
    PROVE  (q * r + i) \div r = q /\ (q * r + i) % r = i
OBVIOUS

\* Add on a new ring: the hashes of all virtual nodes of the peers and no
\* others, in their order, each mapped to a peer that has it.
LEMMA AddMakesRing ==
    ASSUME NEW hf \in Hashes, NEW peers \in PeerLists
    PROVE  LET m == Add(hf, New, peers)
               n == Len(peers) * Replicas
           IN  /\ n \in Nat \ {0} /\ m.keys \in [1..n -> 0..(RingSize - 1)]
               /\ \A x, y \in 1..n : x <= y => m.keys[x] <= m.keys[y]
               /\ \A p \in ToSet(peers), i \in 0..(Replicas - 1) :
                     \E x \in 1..n : m.keys[x] = hf.node[<<i, p>>]
               /\ \A x \in 1..n :
                     /\ m.hasMap[m.keys[x]] \in ToSet(peers)
                     /\ \E i \in 0..(Replicas - 1) :
                           m.keys[x] = hf.node[<<i, m.hasMap[m.keys[x]]>>]
PROOF
<1> DEFINE m == Add(hf, New, peers)
           l == Len(peers)
           n == l * Replicas
           Peer(x) == peers[((x - 1) \div Replicas) + 1]
           added == [x \in 1..n |-> hf.node[<<(x - 1) % Replicas, Peer(x)>>]]
<1>1. /\ Replicas \in Nat \ {0} /\ RingSize \in Nat \ {0}
      /\ peers \in Seq(Nodes) /\ peers # <<>>
      /\ hf.node \in [(0..(Replicas - 1)) \X Nodes -> 0..(RingSize - 1)]
  BY GeeCacheAssumption
<1>2. l \in Nat \ {0} /\ DOMAIN peers = 1..l
      /\ \A j \in 1..l : peers[j] \in Nodes /\ peers[j] \in ToSet(peers)
  BY <1>1 DEF ToSet
<1>3. n \in Nat \ {0}
  BY <1>1, <1>2
<1> HIDE DEF l
<1>4. ASSUME NEW x \in 1..n
      PROVE  /\ (x - 1) % Replicas \in 0..(Replicas - 1)
             /\ Peer(x) \in Nodes /\ Peer(x) \in ToSet(peers)
             /\ added[x] = hf.node[<<(x - 1) % Replicas, Peer(x)>>]
             /\ added[x] \in 0..(RingSize - 1)
  <2>1. (x - 1) % Replicas \in 0..(Replicas - 1)
    BY <1>1, <1>3
  <2>2. x - 1 \in 0..(l * Replicas - 1)
    BY <1>3
  <2>3. (x - 1) \div Replicas \in 0..(l - 1)
    BY <1>1, <1>2, <2>2, DivBound
  <2>4. ((x - 1) \div Replicas) + 1 \in 1..l
    BY <1>2, <2>3
  <2>5. Peer(x) \in Nodes /\ Peer(x) \in ToSet(peers)
    BY <1>2, <2>4
  <2> HIDE DEF Peer
  <2>6. <<(x - 1) % Replicas, Peer(x)>> \in (0..(Replicas - 1)) \X Nodes
    BY <2>1, <2>5
  <2>7. hf.node[<<(x - 1) % Replicas, Peer(x)>>] \in 0..(RingSize - 1)
    BY <1>1, <2>6
  <2> QED
    BY <2>1, <2>5, <2>7
<1>5. ASSUME NEW p \in ToSet(peers), NEW i \in 0..(Replicas - 1)
      PROVE  \E x \in 1..n : added[x] = hf.node[<<i, p>>]
  <2>1. PICK j \in 1..l : peers[j] = p
    BY <1>2 DEF ToSet
  <2> DEFINE x == (j - 1) * Replicas + i + 1
  <2>2. (j - 1) * Replicas \in Nat /\ (j - 1) * Replicas + Replicas <= l * Replicas
    <3>1. j - 1 \in Nat /\ l - j \in Nat
      BY <1>2
    <3>2. (l - j) * Replicas \in Nat
      BY <1>1, <3>1
    <3>3. (j - 1) * Replicas + Replicas + (l - j) * Replicas = l * Replicas
      BY <1>1, <1>2
    <3>4. (j - 1) * Replicas \in Nat
      BY <1>1, <3>1
    <3> QED
      BY <1>1, <1>3, <3>2, <3>3, <3>4
  <2>3. x \in 1..n
    <3>1. PICK a, b : a = (j - 1) * Replicas /\ b = l * Replicas
      OBVIOUS
    <3>2. a \in Nat /\ b \in Nat /\ a + Replicas <= b
      BY <1>3, <2>2, <3>1
    <3>3. a + i + 1 \in 1..b
      BY <1>1, <3>2
    <3> QED
      BY <3>1, <3>3
  <2>4. x - 1 = (j - 1) * Replicas + i
    BY <1>1, <2>2
  <2>5. (x - 1) \div Replicas = j - 1 /\ (x - 1) % Replicas = i
    <3>1. j - 1 \in Nat
      BY <1>2
    <3>2. /\ ((j - 1) * Replicas + i) \div Replicas = j - 1
          /\ ((j - 1) * Replicas + i) % Replicas = i
      BY <1>1, <3>1, DivMod
    <3> QED
      BY <2>4, <3>2
  <2>6. Peer(x) = p
    BY <1>2, <2>1, <2>5
  <2>7. added[x] = hf.node[<<(x - 1) % Replicas, Peer(x)>>]
    BY <1>4, <2>3
  <2> QED
    BY <2>3, <2>5, <2>6, <2>7
<1>6. added \in Seq(Nat) /\ Len(added) = n /\ DOMAIN added = 1..n
  <2>1. ASSUME NEW x \in 1..n PROVE added[x] \in Nat
    <3>1. added[x] \in 0..(RingSize - 1)
      BY <1>4
    <3> HIDE DEF added
    <3> QED
      BY <1>1, <3>1
  <2> HIDE DEF Peer, n
  <2>2. added \in [1..n -> Nat]
    BY <2>1
  <2> HIDE DEF added
  <2> QED
    BY <1>3, <2>2
<1>7. m.keys = SortInts(added)
  <2>1. New.keys \o added = added
    BY <1>6 DEF New
  <2> QED
    BY <2>1 DEF Add, l
<1>8. ASSUME NEW h \in ToSet(added)
      PROVE  m.hasMap[h] = Peer(Max({x \in 1..n : added[x] = h}))
  <2>1. New.keys \o added = added
    BY <1>6 DEF New
  <2> QED
    BY <2>1 DEF Add, l
<1> HIDE DEF m, added, Peer, n
<1>9. /\ m.keys \in [1..n -> ToSet(added)]
      /\ \A x, y \in 1..n : x <= y => m.keys[x] <= m.keys[y]
      /\ \A h \in ToSet(added) : \E x \in 1..n : m.keys[x] = h
  BY <1>6, <1>7, SortIntsSorts
<1>10. m.keys \in [1..n -> 0..(RingSize - 1)]
  <2>1. ToSet(added) \subseteq 0..(RingSize - 1)
    BY <1>4, <1>6 DEF ToSet
  <2> QED
    BY <1>9, <2>1
<1>11. ASSUME NEW p \in ToSet(peers), NEW i \in 0..(Replicas - 1)
       PROVE  \E x \in 1..n : m.keys[x] = hf.node[<<i, p>>]
  <2>1. hf.node[<<i, p>>] \in ToSet(added)
    BY <1>5, <1>6 DEF ToSet
  <2> QED
    BY <1>9, <2>1
<1>12. ASSUME NEW x \in 1..n
       PROVE  /\ m.hasMap[m.keys[x]] \in ToSet(peers)
              /\ \E i \in 0..(Replicas - 1) :
                    m.keys[x] = hf.node[<<i, m.hasMap[m.keys[x]]>>]
  <2> DEFINE h == m.keys[x]
             X == {y \in 1..n : added[y] = h}
  <2>1. h \in ToSet(added)
    BY <1>9
  <2>2. X # {} /\ X \in SUBSET (1..n)
    BY <1>6, <2>1 DEF ToSet
  <2>3. Max(X) \in X
    BY <1>3, <2>2, NatMax
  <2>4. m.hasMap[h] = Peer(Max(X))
    BY <1>8, <2>1
  <2>5. PICK y \in 1..n : y = Max(X) /\ added[y] = h
    BY <2>3
  <2> HIDE DEF h, X
  <2>6. /\ (y - 1) % Replicas \in 0..(Replicas - 1) /\ Peer(y) \in ToSet(peers)
        /\ h = hf.node[<<(y - 1) % Replicas, Peer(y)>>]
    BY <1>4, <2>5
  <2>7. m.hasMap[h] = Peer(y)
    BY <2>4, <2>5
  <2>8. /\ m.hasMap[h] \in ToSet(peers)
        /\ \E i \in 0..(Replicas - 1) : h = hf.node[<<i, m.hasMap[h]>>]
    BY <2>6, <2>7
  <2> QED
    BY <2>8 DEF h
<1> QED
  BY <1>3, <1>9, <1>10, <1>11, <1>12 DEF m, n, l

LEMMA RingDistance ==
    ASSUME NEW r \in Nat \ {0}, NEW h \in 0..(r - 1), NEW k \in 0..(r - 1)
    PROVE  (h - k + r) % r = IF h < k THEN h - k + r ELSE h - k
OBVIOUS

\* Map.Get names a peer, and no virtual node is nearer than the peer's nearest.
LEMMA NearestOwner ==
    ASSUME NEW hf \in Hashes, NEW peers \in PeerLists, NEW k \in Keys
    PROVE  LET o == MapGet(hf, Add(hf, New, peers), k, None)
               Dist(h) == (h - hf.key[k] + RingSize) % RingSize
           IN  /\ o \in ToSet(peers)
               /\ \E i \in 0..(Replicas - 1) :
                     \A p \in ToSet(peers), j \in 0..(Replicas - 1) :
                         Dist(hf.node[<<i, o>>]) <= Dist(hf.node[<<j, p>>])
PROOF
<1> DEFINE m == Add(hf, New, peers)
           q == m.keys
           n == Len(peers) * Replicas
           z == hf.key[k]
           I == {x \in 1..n : q[x] >= z}
           idx == IF I # {} THEN Min(I) ELSE 1
           o == MapGet(hf, m, k, None)
           Dist(h) == (h - z + RingSize) % RingSize
<1>1. /\ n \in Nat \ {0} /\ q \in [1..n -> 0..(RingSize - 1)]
      /\ \A x, y \in 1..n : x <= y => q[x] <= q[y]
  BY AddMakesRing
<1>2. \A p \in ToSet(peers), i \in 0..(Replicas - 1) :
          \E x \in 1..n : q[x] = hf.node[<<i, p>>]
  BY AddMakesRing
<1>3. \A x \in 1..n :
          /\ m.hasMap[q[x]] \in ToSet(peers)
          /\ \E i \in 0..(Replicas - 1) :
                q[x] = hf.node[<<i, m.hasMap[q[x]]>>]
  BY AddMakesRing
<1>4. RingSize \in Nat \ {0} /\ z \in 0..(RingSize - 1)
  BY GeeCacheAssumption
<1> HIDE DEF m, n, z
<1>5. q # <<>> /\ Len(q) = n
  BY <1>1
<1>6. I \in SUBSET Nat /\ idx \in 1..n /\ (I # {} => idx \in I /\ \A x \in I : idx <= x)
  <2>1. CASE I = {}
    BY <1>1, <2>1
  <2>2. CASE I # {}
    <3>1. I \in SUBSET Nat
      BY <1>1
    <3>2. Min(I) \in I /\ \A x \in I : Min(I) <= x
      BY <2>2, <3>1, NatMin
    <3> QED
      BY <2>2, <3>1, <3>2
  <2> QED
    BY <2>1, <2>2
<1>7. o = m.hasMap[q[idx]]
  <2>1. SelectInSeq(q, LAMBDA h : h >= z) = IF I # {} THEN Min(I) ELSE 0
    BY <1>5 DEF SelectInSeq
  <2>2. o = m.hasMap[q[IF SelectInSeq(q, LAMBDA h : h >= z) = 0 THEN 1
                       ELSE SelectInSeq(q, LAMBDA h : h >= z)]]
    BY <1>5 DEF MapGet, z
  <2>3. I # {} => Min(I) # 0
    BY <1>6
  <2> QED
    BY <2>1, <2>2, <2>3
<1> HIDE DEF o, idx
<1>8. PICK i \in 0..(Replicas - 1) : q[idx] = hf.node[<<i, o>>]
  BY <1>3, <1>6, <1>7
<1>9. ASSUME NEW x \in 1..n PROVE Dist(q[idx]) <= Dist(q[x])
  <2>1. q[x] \in 0..(RingSize - 1) /\ q[idx] \in 0..(RingSize - 1)
    BY <1>1, <1>6
  <2>2. /\ Dist(q[x]) = IF q[x] < z THEN q[x] - z + RingSize ELSE q[x] - z
        /\ Dist(q[idx]) = IF q[idx] < z THEN q[idx] - z + RingSize
                          ELSE q[idx] - z
    BY <1>4, <2>1, RingDistance
  <2> HIDE DEF Dist
  <2>3. CASE I = {}
    <3>1. q[x] < z /\ q[idx] < z
      BY <1>4, <1>6, <2>1, <2>3
    <3>2. idx = 1
      BY <2>3 DEF idx
    <3>3. q[idx] <= q[x]
      BY <1>1, <3>2
    <3> QED
      BY <1>4, <2>1, <2>2, <3>1, <3>3
  <2>4. CASE I # {}
    <3>1. q[idx] >= z
      BY <1>6, <2>4
    <3>2. q[x] >= z => q[idx] <= q[x]
      BY <1>1, <1>6, <2>4
    <3> QED
      BY <1>4, <2>1, <2>2, <3>1, <3>2
  <2> QED
    BY <2>3, <2>4
<1>10. ASSUME NEW p \in ToSet(peers), NEW j \in 0..(Replicas - 1)
       PROVE  Dist(hf.node[<<i, o>>]) <= Dist(hf.node[<<j, p>>])
  <2>1. PICK x \in 1..n : q[x] = hf.node[<<j, p>>]
    BY <1>2
  <2> HIDE DEF Dist
  <2> QED
    BY <1>8, <1>9, <2>1
<1>11. o \in ToSet(peers)
  BY <1>3, <1>6, <1>7
<1> QED
  BY <1>10, <1>11 DEF o, m, z

\* Every ring is one that Set has made of the peers it has getters for.
RingInv ==
    /\ hash \in Hashes /\ pool = [n \in Nodes |-> pool[n]]
    /\ getters \in [Nodes -> SUBSET Nodes]
    /\ \A n \in Nodes : pool[n] # None =>
          \E peers \in PeerLists :
              pool[n] = Ring(peers) /\ getters[n] = ToSet(peers)

\* The owner of a key is a node, or there is none.
LEMMA OwnerNode ==
    ASSUME TypeOK, OwnerIsNearest, NEW n \in Nodes, NEW k \in Keys
    PROVE  Owner(pool[n], k) \in Nodes \cup {None}
BY DEF TypeOK, OwnerIsNearest, Owner

\* A user's thread.
LEMMA UserThread == ASSUME NEW u \in Users PROVE <<u, 0>> \in Threads
BY GeeCacheAssumption DEF Threads

LEMMA PeersOf ==
    ASSUME NEW peers \in PeerLists \cup {<<>>}
    PROVE  ToSet(peers) \subseteq Nodes
PROOF
<1>1. CASE peers \in PeerLists
  <2>1. peers \in Seq(Nodes)
    BY <1>1, Constants
  <2> QED
    BY <2>1 DEF ToSet
<1>2. CASE peers = <<>>
  BY <1>2 DEF ToSet
<1> QED
  BY <1>1, <1>2

LEMMA TypeInit == Init => TypeOK
PROOF
<1> SUFFICES ASSUME Init PROVE TypeOK
  OBVIOUS
<1> USE Constants
<1>1. PICK lists \in [Nodes -> PeerLists \cup {<<>>}] :
          /\ pool = [n \in Nodes |->
                         IF lists[n] = <<>> THEN None ELSE Ring(lists[n])]
          /\ getters = [n \in Nodes |-> ToSet(lists[n])]
  BY DEF Init
<1>2. pool = [n \in Nodes |-> pool[n]] /\ getters \in [Nodes -> SUBSET Nodes]
  BY <1>1, PeersOf
<1>3. cache \in [Nodes -> [Keys -> Keys \cup {None}]]
  BY DEF Init
<1>4. /\ pc \in [Threads -> PCs]
      /\ node \in [Threads -> Nodes \cup {None}]
      /\ key \in [Threads -> Keys \cup {None}]
      /\ peer \in [Threads -> Nodes \cup {None}]
      /\ answer \in [Threads -> Values \cup {None}]
  BY DEF Init, PCs
<1>5. /\ leader \in [Threads -> Threads \cup {None}]
      /\ current \in [Nodes \X Keys -> Threads \cup {None}]
      /\ landed \in [Threads -> Values \cup {None}]
      /\ result \in [Threads -> Values \cup {None}]
  BY DEF Init, Loader!Init
<1>6. hash \in Hashes /\ split \in BOOLEAN /\ failed \in 0..MaxFailures
  BY DEF Init, Split
<1> QED
  BY <1>2, <1>3, <1>4, <1>5, <1>6 DEF TypeOK

\* Get, by a user or by a handler, keeps the types.
LEMMA TypeGet ==
    ASSUME TypeOK, NEW t \in Threads, NEW n \in Nodes, NEW k \in Keys,
           NEW pcs \in [Threads -> PCs], GroupGet(t, n, k, pcs), peer' = peer
    PROVE  TypeOK'
PROOF
<1>1. cache[n][k] \in Values \cup {None}
  BY DEF TypeOK, Values
<1>2. /\ pc' \in [Threads -> PCs]
      /\ answer' \in [Threads -> Values \cup {None}]
      /\ node' \in [Threads -> Nodes \cup {None}]
      /\ key' \in [Threads -> Keys \cup {None}]
  BY <1>1 DEF GroupGet, TypeOK, PCs
<1> QED
  BY <1>2 DEF GroupGet, TypeOK, poolVars, loaderVars

\* The getter's value enters a cache.
LEMMA CacheGet ==
    ASSUME CacheInv, NEW t \in Threads, getLocally(t)
    PROVE  CacheInv'
PROOF
<1> DEFINE n == node[t]
           k == key[t]
<1>1. CASE k \in DB
  <2>1. PICK evicted \in SUBSET {j \in Keys : j = k \/ cache[n][j] # None} :
            cache' = [cache EXCEPT ![n] = [j \in Keys |->
                         IF j \in evicted THEN None
                         ELSE IF j = k THEN k ELSE cache[n][j]]]
    BY <1>1 DEF getLocally
  <2>2. k \in Keys
    BY <1>1, Constants
  <2> HIDE DEF n, k
  <2>3. cache' \in [Nodes -> [Keys -> Keys \cup {None}]]
    <3> DEFINE line == [j \in Keys |-> IF j \in evicted THEN None
                                       ELSE IF j = k THEN k ELSE cache[n][j]]
    <3>1. cache \in [Nodes -> [Keys -> Keys \cup {None}]]
      BY DEF CacheInv
    <3>2. cache' = [cache EXCEPT ![n] = line]
      BY <2>1
    <3>3. n \in Nodes => line \in [Keys -> Keys \cup {None}]
      BY <2>2, <3>1
    <3> HIDE DEF line
    <3> QED
      BY <3>1, <3>2, <3>3
  <2>4. ASSUME NEW l \in Nodes, NEW j \in Keys, cache'[l][j] # None
        PROVE  cache'[l][j] = j /\ j \in DB
    <3>1. CASE l = n
      <4>1. cache'[l] = [i \in Keys |-> IF i \in evicted THEN None
                                        ELSE IF i = k THEN k ELSE cache[n][i]]
        BY <2>1, <3>1 DEF CacheInv
      <4>2. \/ cache'[l][j] = k /\ j = k
            \/ cache'[l][j] = cache[l][j]
        BY <2>4, <3>1, <4>1
      <4> QED
        BY <1>1, <2>4, <4>2 DEF CacheInv
    <3>2. CASE l # n
      <4>1. cache'[l] = cache[l]
        BY <2>1, <3>2 DEF CacheInv
      <4> QED
        BY <2>4, <4>1 DEF CacheInv
    <3> QED
      BY <3>1, <3>2
  <2> QED
    BY <2>3, <2>4 DEF CacheInv
<1>2. CASE k \notin DB
  BY <1>2 DEF getLocally, CacheInv
<1> QED
  BY <1>1, <1>2

LEMMA TypeThread ==
    ASSUME TypeOK, ThreadInv, CacheInv, OwnerIsNearest, NEW t \in Threads,
           \/ Do(t) \/ ServeHTTP(t) \/ Reply(t)
           \/ FetchFails(t) \/ Refused(t) \/ getLocally(t) \/ Leave(t)
    PROVE  TypeOK'
PROOF
<1> USE Constants DEF Step, poolVars, loaderVars
<1>1. CASE Do(t)
  <2>1. pc[t] = "load" /\ node[t] \in Nodes /\ key[t] \in Keys
    BY <1>1 DEF Do, PickPeer, ThreadInv
  <2>2. Owner(pool[node[t]], key[t]) \in Nodes \cup {None}
    BY <2>1, OwnerNode
  <2>3. current[<<node[t], key[t]>>] \in Threads \cup {None}
    BY <2>1 DEF TypeOK
  <2>4. /\ UNCHANGED <<poolVars, cache, failed, node, key, answer>>
        /\ UNCHANGED <<landed, result>>
    BY <1>1 DEF Do, Loader!Board, Loader!Lead
  <2>5. CASE Boards(t)
    BY <2>3, <2>4, <2>5 DEF Boards, Loader!Board, TypeOK, PCs
  <2>6. CASE Leads(t)
    <3>1. /\ pc' \in [Threads -> PCs]
          /\ peer' \in [Threads -> Nodes \cup {None}]
      BY <2>2, <2>6 DEF Leads, PickPeer, TypeOK, PCs
    <3>2. /\ leader' = [leader EXCEPT ![t] = t]
          /\ current' = [current EXCEPT ![<<node[t], key[t]>>] = t]
      BY <2>6 DEF Leads, Loader!Lead
    <3> QED
      BY <2>4, <3>1, <3>2 DEF TypeOK
  <2> QED
    BY <1>1, <2>5, <2>6 DEF Do, Boards, Leads
<1>2. CASE ServeHTTP(t)
  <2>1. pc[t] = "dial" /\ peer[t] \in Nodes /\ key[t] \in Keys
    BY <1>2 DEF ServeHTTP, ThreadInv
  <2>2. /\ HandlerOf(t) \in Threads /\ Wire[key[t]] \in Keys
        /\ [pc EXCEPT ![t] = "fetch"] \in [Threads -> PCs]
        /\ GroupGet(HandlerOf(t), peer[t], Wire[key[t]],
                    [pc EXCEPT ![t] = "fetch"])
        /\ peer' = peer
    BY <1>2, <2>1 DEF ServeHTTP, HandlerOf, TypeOK, PCs
  <2> QED
    BY <2>1, <2>2, TypeGet
<1>3. CASE Reply(t)
  <2>1. HandlerOf(t) \in Threads
    BY <1>3 DEF Reply, ThreadInv
  <2>2. answer[HandlerOf(t)] \in Values \cup {None}
    BY <2>1 DEF TypeOK
  <2>3. /\ landed' \in [Threads -> Values \cup {None}]
        /\ pc' \in [Threads -> PCs]
    BY <1>3, <2>2 DEF Reply, HandlerOf, Loader!Land, TypeOK, PCs
  <2>4. UNCHANGED <<poolVars, cache, failed, node, key, peer, answer,
                    leader, current, result>>
    BY <1>3 DEF Reply, Loader!Land
  <2> QED
    BY <2>3, <2>4 DEF TypeOK
<1>4. CASE FetchFails(t) \/ Refused(t)
  <2>1. failed' \in 0..MaxFailures
    BY <1>4 DEF FetchFails, Refused, TypeOK
  <2>2. /\ pc' = [pc EXCEPT ![t] = "local"]
        /\ UNCHANGED <<poolVars, loaderVars, cache, node, key, peer, answer>>
    BY <1>4 DEF FetchFails, Refused, FetchError
  <2> QED
    BY <2>1, <2>2 DEF TypeOK, PCs
<1>5. CASE getLocally(t)
  <2>1. cache' \in [Nodes -> [Keys -> Keys \cup {None}]]
    BY <1>5, CacheGet DEF CacheInv
  <2>2. /\ landed' \in [Threads -> Values \cup {None}]
        /\ pc' \in [Threads -> PCs]
    <3>1. PICK r \in Values : landed' = [landed EXCEPT ![t] = r]
      BY <1>5 DEF getLocally, Loader!Land, Values
    <3>2. pc' = [pc EXCEPT ![t] = "land"]
      BY <1>5 DEF getLocally
    <3> QED
      BY <3>1, <3>2 DEF TypeOK, PCs
  <2>3. UNCHANGED <<poolVars, failed, node, key, peer, answer,
                    leader, current, result>>
    BY <1>5 DEF getLocally, Loader!Land
  <2> QED
    BY <2>1, <2>2, <2>3 DEF TypeOK
<1>6. CASE Leave(t)
  <2>1. leader[t] \in Threads /\ landed[leader[t]] \in Values \cup {None}
    BY <1>6 DEF Leave, Loader!Leave, TypeOK
  <2>2. /\ result' \in [Threads -> Values \cup {None}]
        /\ answer' \in [Threads -> Values \cup {None}]
        /\ pc' \in [Threads -> PCs]
    BY <1>6, <2>1 DEF Leave, Loader!Leave, TypeOK, PCs
  <2>3. current' \in [Nodes \X Keys -> Threads \cup {None}]
    BY <1>6 DEF Leave, Loader!Leave, TypeOK
  <2>4. UNCHANGED <<poolVars, cache, failed, node, key, peer, leader, landed>>
    BY <1>6 DEF Leave, Loader!Leave
  <2> QED
    BY <2>2, <2>3, <2>4 DEF TypeOK
<1> QED
  BY <1>1, <1>2, <1>3, <1>4, <1>5, <1>6

LEMMA TypeNext ==
    TypeOK /\ ThreadInv /\ CacheInv /\ OwnerIsNearest /\ [Next]_vars => TypeOK'
PROOF
<1> SUFFICES ASSUME TypeOK, ThreadInv, CacheInv, OwnerIsNearest, [Next]_vars
             PROVE  TypeOK'
  OBVIOUS
<1>1. ASSUME NEW n \in Nodes, NEW peers \in PeerLists, Set(n, peers)
      PROVE  TypeOK'
  <2>1. getters' \in [Nodes -> SUBSET Nodes]
    BY <1>1, PeersOf DEF Set, TypeOK
  <2>2. pool' = [m \in Nodes |-> pool'[m]]
    BY <1>1 DEF Set, TypeOK
  <2>3. split' \in BOOLEAN
    BY <1>1 DEF Set
  <2>4. UNCHANGED <<hash, cache, failed, threadVars, loaderVars>>
    BY <1>1 DEF Set
  <2> QED
    BY <2>1, <2>2, <2>3, <2>4 DEF TypeOK, threadVars, loaderVars
<1>2. ASSUME NEW u \in Users, NEW k \in Keys, Get(u, k)
      PROVE  TypeOK'
  BY <1>2, UserThread, TypeGet, Constants DEF Get, TypeOK
<1>3. CASE UNCHANGED vars
  BY <1>3 DEF vars, poolVars, loaderVars, threadVars, TypeOK
<1> QED
  BY <1>1, <1>2, <1>3, TypeThread DEF Next
-----------------------------------------------------------------------------
(* The caches                                                              *)

LEMMA CacheNext == CacheInv /\ [Next]_vars => CacheInv'
PROOF
<1> SUFFICES ASSUME CacheInv, [Next]_vars PROVE CacheInv'
  OBVIOUS
<1>1. CASE cache' = cache
  BY <1>1 DEF CacheInv
<1>2. CASE \E t \in Threads : getLocally(t)
  BY <1>2, CacheGet
<1>3. cache' = cache \/ \E t \in Threads : getLocally(t)
  BY DEF Next, vars, Set, Get, GroupGet, Do, ServeHTTP, Reply, FetchFails,
         FetchError, Refused, Leave
<1> QED
  BY <1>1, <1>2, <1>3
-----------------------------------------------------------------------------
(* The calls.  The steps that change nothing but the thread's own state    *)
(* come first; Owners is what they need to know of the rings.              *)

\* The owners do not change with the rings.
LEMMA Owners ==
    ASSUME UNCHANGED poolVars
    PROVE  /\ \A m, k : Owner(pool[m], k)' = Owner(pool[m], k)
           /\ Split(pool)' = Split(pool)
           /\ split' = split
BY DEF poolVars, Owner, Split

\* No thread starts to load: what is known of the owners stays.
LEMMA OwnSame ==
    ASSUME OwnInv, UNCHANGED poolVars, failed' = failed,
           \A t \in Threads : pc'[t] = "local" =>
               pc[t] = "local" /\ node'[t] = node[t] /\ key'[t] = key[t]
    PROVE  OwnInv'
BY Owners DEF OwnInv, poolVars, Owner, Split

\* Who is on a flight knows its leader.
LEMMA LeaderOf ==
    ASSUME TypeOK, FlightInv, NEW s \in Threads, leader[s] # None
    PROVE  /\ leader[s] \in Threads /\ leader[leader[s]] = leader[s]
           /\ node[leader[s]] = node[s] /\ key[leader[s]] = key[s]
PROOF
<1>1. leader[s] \in Threads
  BY DEF TypeOK
<1>2. leader[leader[s]] = leader[s]
  BY DEF FlightInv
<1>3. node[leader[s]] = node[s] /\ key[leader[s]] = key[s]
  BY DEF FlightInv
<1> QED
  BY <1>1, <1>2, <1>3

\* Group.Get finds the key in the cache, or goes on to load it.  In pcs the
\* thread that the handler works for has gone on to wait for the handler.
LEMMA GetKeeps ==
    ASSUME IInv, NEW t \in Threads, NEW n \in Nodes, NEW k \in Keys,
           NEW pcs \in [Threads -> PCs], GroupGet(t, n, k, pcs), peer' = peer,
           \A s \in Threads \ {t} :
               \/ pcs[s] = pc[s]
               \/ /\ pc[s] = "dial" /\ pcs[s] = "fetch"
                  /\ HandlerOf(s) = t /\ Wire[key[s]] = k
    PROVE  CallInv'
PROOF
<1> USE Constants DEF IInv, CallInv
<1>1. /\ pc[t] = "idle" /\ leader[t] = None /\ answer[t] = None
      /\ pc' = [pcs EXCEPT ![t] = IF cache[n][k] = None THEN "load"
                                  ELSE "returned"]
      /\ answer' = [answer EXCEPT ![t] = cache[n][k]]
      /\ node' = [node EXCEPT ![t] = n] /\ key' = [key EXCEPT ![t] = k]
      /\ UNCHANGED <<poolVars, loaderVars, cache, failed>>
  BY DEF GroupGet, ThreadInv
<1>2. /\ pc'[t] \in {"load", "returned"} /\ node'[t] = n /\ key'[t] = k
      /\ pc'[t] = "returned" <=> cache[n][k] # None
      /\ answer'[t] = cache[n][k]
      /\ \A s \in Threads \ {t} :
            /\ node'[s] = node[s] /\ key'[s] = key[s]
            /\ answer'[s] = answer[s] /\ pc'[s] = pcs[s]
      /\ UNCHANGED <<poolVars, leader, current, landed, failed>>
  BY <1>1 DEF TypeOK, loaderVars
<1>3. ThreadInv'
  BY <1>1, <1>2 DEF ThreadInv
<1>4. FlightInv'
  <2>1. \A s \in Threads : pc'[s] \in Flying <=> pc[s] \in Flying
    BY <1>1, <1>2 DEF Flying
  <2>2. \A s \in Threads : pc'[s] = "land" <=> pc[s] = "land"
    BY <1>1, <1>2
  <2>3. ASSUME NEW s \in Threads, leader[s] # None
        PROVE  leader[s] \in Threads \ {t} /\ s # t
    BY <1>1, <2>3, LeaderOf
  <2>4. \A m \in Nodes, j \in Keys : current[<<m, j>>] # None =>
            current[<<m, j>>] \in Threads \ {t}
    BY <1>1 DEF FlightInv, TypeOK, Flying
  <2>5. t \notin {s \in Threads : pc[s] \in Flying}
    BY <1>1 DEF Flying
  <2>6. \A s \in Threads :
            /\ pc'[s] \in Flying => /\ leader'[s] = s
                                    /\ current'[<<node'[s], key'[s]>>] = s
            /\ pc'[s] \in Flying \ {"land"} => landed'[s] = None
    BY <1>2, <2>1, <2>2, <2>5 DEF FlightInv
  <2>7. ASSUME NEW s \in Threads, leader'[s] # None
        PROVE  /\ leader'[leader'[s]] = leader'[s]
               /\ node'[leader'[s]] = node'[s] /\ key'[leader'[s]] = key'[s]
    <3>1. leader[s] # None /\ leader[s] \in Threads \ {t} /\ s # t
      BY <1>2, <2>3, <2>7
    <3> QED
      BY <1>2, <3>1, LeaderOf
  <2>8. \A m \in Nodes, j \in Keys : current'[<<m, j>>] # None =>
            LET l == current'[<<m, j>>] IN
            pc'[l] \in Flying /\ node'[l] = m /\ key'[l] = j
    BY <1>2, <2>1, <2>4 DEF FlightInv
  <2> QED
    BY <2>6, <2>7, <2>8 DEF FlightInv
<1>5. ValueInv'
  <2>1. cache[n][k] # None => cache[n][k] = k /\ k \in DB
    BY DEF CacheInv
  <2> QED
    BY <1>1, <1>2, <2>1 DEF ValueInv, Right
<1>6. OwnInv'
  BY <1>1, <1>2, OwnSame
<1> QED
  BY <1>3, <1>4, <1>5, <1>6

\* Get by a user, and by the handler of a request.
LEMMA UserGetKeeps ==
    ASSUME IInv, NEW u \in Users, NEW k \in Keys, Get(u, k)
    PROVE  CallInv'
BY UserThread, Constants, GetKeeps DEF Get, IInv, TypeOK

LEMMA ServeKeeps ==
    ASSUME IInv, NEW t \in Threads, ServeHTTP(t)
    PROVE  CallInv'
PROOF
<1> DEFINE pcs == [pc EXCEPT ![t] = "fetch"]
<1>1. pc[t] = "dial" /\ peer[t] \in Nodes /\ key[t] \in Keys
  BY DEF ServeHTTP, IInv, CallInv, ThreadInv
<1>2. /\ HandlerOf(t) \in Threads /\ Wire[key[t]] \in Keys /\ peer' = peer
      /\ GroupGet(HandlerOf(t), peer[t], Wire[key[t]], pcs)
  BY <1>1, Constants DEF ServeHTTP, HandlerOf
<1>3. /\ pcs \in [Threads -> PCs]
      /\ \A s \in Threads \ {HandlerOf(t)} :
             \/ pcs[s] = pc[s]
             \/ /\ pc[s] = "dial" /\ pcs[s] = "fetch"
                /\ HandlerOf(s) = HandlerOf(t) /\ Wire[key[s]] = Wire[key[t]]
  BY <1>1 DEF IInv, TypeOK, PCs
<1> HIDE DEF pcs
<1> QED
  BY <1>1, <1>2, <1>3, GetKeeps

\* Do boards the flight of the key.
LEMMA BoardKeeps ==
    ASSUME IInv, NEW t \in Threads, Do(t), Boards(t)
    PROVE  CallInv'
PROOF
<1> USE Constants DEF IInv, CallInv
<1> DEFINE l == current[<<node[t], key[t]>>]
<1>1. /\ pc[t] = "load" /\ pc' = [pc EXCEPT ![t] = "wait"]
      /\ leader[t] = None /\ l # None /\ leader' = [leader EXCEPT ![t] = l]
      /\ UNCHANGED <<poolVars, current, landed, failed>>
      /\ UNCHANGED <<node, key, peer, answer>>
  BY DEF Do, Boards, Step, Loader!Board
<1>2. node[t] \in Nodes /\ key[t] \in Keys
  BY <1>1 DEF ThreadInv
<1>3. /\ l \in Threads /\ pc[l] \in Flying /\ leader[l] = l
      /\ node[l] = node[t] /\ key[l] = key[t] /\ l # t
  <2>1. l \in Threads
    BY <1>1, <1>2 DEF TypeOK
  <2>2. pc[l] \in Flying /\ node[l] = node[t] /\ key[l] = key[t]
    BY <1>1, <1>2 DEF FlightInv
  <2> HIDE DEF l
  <2> QED
    BY <1>1, <2>1, <2>2 DEF FlightInv, Flying
<1> HIDE DEF l
<1>4. /\ pc'[t] = "wait" /\ leader'[t] = l
      /\ \A s \in Threads \ {t} : pc'[s] = pc[s] /\ leader'[s] = leader[s]
  BY <1>1 DEF TypeOK
<1>5. ThreadInv'
  BY <1>1, <1>4 DEF ThreadInv
<1>6. FlightInv'
  <2>1. \A s \in Threads :
            /\ pc'[s] \in Flying => /\ leader'[s] = s
                                    /\ current'[<<node'[s], key'[s]>>] = s
            /\ pc'[s] \in Flying \ {"land"} => landed'[s] = None
    BY <1>1, <1>4 DEF FlightInv, Flying
  <2>2. ASSUME NEW s \in Threads, leader'[s] # None
        PROVE  /\ leader'[leader'[s]] = leader'[s]
               /\ node'[leader'[s]] = node'[s] /\ key'[leader'[s]] = key'[s]
    <3>1. CASE s = t
      BY <1>1, <1>3, <1>4, <3>1
    <3>2. CASE s # t
      <4>1. leader[s] # None
        BY <1>4, <2>2, <3>2
      <4>2. leader[s] # t
        BY <1>1, <4>1, LeaderOf
      <4> QED
        BY <1>1, <1>4, <3>2, <4>1, <4>2, LeaderOf
    <3> QED
      BY <3>1, <3>2
  <2>3. \A m \in Nodes, j \in Keys : current'[<<m, j>>] # None =>
            LET i == current'[<<m, j>>] IN
            pc'[i] \in Flying /\ node'[i] = m /\ key'[i] = j
    <3>1. \A m \in Nodes, j \in Keys : current[<<m, j>>] \in Threads \cup {None}
      BY DEF TypeOK
    <3> QED
      BY <1>1, <1>4, <3>1 DEF FlightInv, Flying
  <2> QED
    BY <2>1, <2>2, <2>3 DEF FlightInv
<1>7. ValueInv'
  BY <1>1, <1>4 DEF ValueInv
<1>8. OwnInv'
  BY <1>1, <1>4, OwnSame
<1> QED
  BY <1>5, <1>6, <1>7, <1>8

\* Do starts a flight for the key and picks the peer.
LEMMA LeadKeeps ==
    ASSUME IInv, OwnerIsNearest, NEW t \in Threads, Do(t), Leads(t)
    PROVE  CallInv'
PROOF
<1> USE Constants DEF IInv, CallInv
<1> DEFINE p == Owner(pool[node[t]], key[t])
           k == <<node[t], key[t]>>
<1>1. /\ pc[t] = "load"
      /\ pc' = [pc EXCEPT ![t] = IF p \in {None, node[t]} THEN "local"
                                 ELSE "dial"]
      /\ peer' = [peer EXCEPT ![t] = p]
      /\ leader[t] = None /\ current[k] = None
      /\ leader' = [leader EXCEPT ![t] = t]
      /\ current' = [current EXCEPT ![k] = t]
      /\ UNCHANGED <<poolVars, landed, failed>>
      /\ UNCHANGED <<node, key, answer>>
  BY DEF Do, Leads, PickPeer, Step, Loader!Lead
<1>2. /\ node[t] \in Nodes /\ key[t] \in Keys /\ k \in Nodes \X Keys
      /\ p \in Nodes \cup {None}
  BY <1>1, OwnerNode DEF ThreadInv
<1>3. landed[t] = None
  BY <1>1 DEF ValueInv
<1>4. \A m \in Nodes, j \in Keys :
          current[<<m, j>>] # None => current[<<m, j>>] \in Threads \ {t}
  BY <1>1 DEF FlightInv, TypeOK, Flying
<1>5. \A s \in Threads : leader[s] # None =>
          s # t /\ leader[s] \in Threads /\ leader[s] # t
  <2> SUFFICES ASSUME NEW s \in Threads, leader[s] # None
               PROVE  s # t /\ leader[s] \in Threads /\ leader[s] # t
    OBVIOUS
  <2> QED
    BY <1>1, LeaderOf
<1>6. /\ pc'[t] \in {"local", "dial"} /\ leader'[t] = t /\ peer'[t] = p
      /\ pc'[t] = "local" <=> p \in {None, node[t]}
      /\ \A s \in Threads \ {t} :
            pc'[s] = pc[s] /\ leader'[s] = leader[s] /\ peer'[s] = peer[s]
      /\ current'[k] = t
      /\ \A j \in Nodes \X Keys : j # k => current'[j] = current[j]
  <2> HIDE DEF p, k
  <2> QED
    BY <1>1, <1>2 DEF TypeOK
<1>7. ThreadInv'
  <2> HIDE DEF p, k
  <2> QED
    BY <1>1, <1>2, <1>6 DEF ThreadInv
<1>8. FlightInv'
  <2> HIDE DEF p
  <2>1. ASSUME NEW s \in Threads
        PROVE  /\ pc'[s] \in Flying => /\ leader'[s] = s
                                       /\ current'[<<node'[s], key'[s]>>] = s
               /\ pc'[s] \in Flying \ {"land"} => landed'[s] = None
    <3>1. CASE s = t
      BY <1>1, <1>3, <1>6, <3>1
    <3>2. CASE s # t
      <4>1. pc[s] \in Flying => <<node[s], key[s]>> \in Nodes \X Keys
        BY DEF ThreadInv, Flying
      <4>2. pc[s] \in Flying => <<node[s], key[s]>> # k
        BY <1>1, <3>2 DEF FlightInv
      <4> QED
        BY <1>1, <1>6, <3>2, <4>1, <4>2 DEF FlightInv
    <3> QED
      BY <3>1, <3>2
  <2>2. ASSUME NEW s \in Threads, leader'[s] # None
        PROVE  /\ leader'[leader'[s]] = leader'[s]
               /\ node'[leader'[s]] = node'[s] /\ key'[leader'[s]] = key'[s]
    <3>1. CASE s = t
      BY <1>1, <1>6, <3>1
    <3>2. CASE s # t
      BY <1>1, <1>5, <1>6, <2>2, <3>2, LeaderOf
    <3> QED
      BY <3>1, <3>2
  <2>3. ASSUME NEW m \in Nodes, NEW j \in Keys, current'[<<m, j>>] # None
        PROVE  LET i == current'[<<m, j>>] IN
               pc'[i] \in Flying /\ node'[i] = m /\ key'[i] = j
    <3>1. CASE <<m, j>> = k
      BY <1>1, <1>6, <3>1 DEF Flying
    <3>2. CASE <<m, j>> # k
      <4>1. current'[<<m, j>>] = current[<<m, j>>]
        BY <1>6, <3>2
      <4> QED
        BY <1>1, <1>4, <1>6, <2>3, <4>1 DEF FlightInv
    <3> QED
      BY <3>1, <3>2
  <2> QED
    BY <2>1, <2>2, <2>3 DEF FlightInv
<1>9. ValueInv'
  <2> HIDE DEF p, k
  <2> QED
    BY <1>1, <1>3, <1>6 DEF ValueInv
<1>10. OwnInv'
  <2>1. ASSUME ~ split, pc'[t] = "local", NEW m \in Nodes
        PROVE  Owner(pool[m], key[t]) = node[t]
    BY <1>2, <1>6, <2>1 DEF OwnInv, Split
  <2>2. \A m, j : Owner(pool[m], j)' = Owner(pool[m], j)
    BY <1>1, Owners
  <2> HIDE DEF p, k
  <2> QED
    BY <1>1, <1>6, <2>1, <2>2, Owners DEF OwnInv, poolVars, Owner, Split
<1> QED
  BY <1>7, <1>8, <1>9, <1>10

\* The leader's function returns v.
LEMMA LandKeeps ==
    ASSUME IInv, NEW t \in Threads, NEW v \in Values,
           pc[t] \in {"fetch", "local"}, pc' = [pc EXCEPT ![t] = "land"],
           Loader!Land(t, v), Right(key[t], v),
           UNCHANGED <<poolVars, failed, node, key, peer, answer>>
    PROVE  CallInv'
PROOF
<1> USE Constants DEF IInv, CallInv
<1>1. /\ pc'[t] = "land" /\ landed'[t] = v /\ v # None /\ leader[t] = t
      /\ \A s \in Threads \ {t} : pc'[s] = pc[s] /\ landed'[s] = landed[s]
      /\ UNCHANGED <<leader, current>>
  BY DEF Loader!Land, TypeOK, Values
<1>2. ThreadInv'
  BY <1>1 DEF ThreadInv
<1>3. FlightInv'
  <2>1. \A s \in Threads : pc'[s] \in Flying <=> pc[s] \in Flying
    BY <1>1 DEF Flying
  <2>2. \A m \in Nodes, j \in Keys : current[<<m, j>>] \in Threads \cup {None}
    BY DEF TypeOK
  <2>3. \A s \in Threads :
            pc'[s] \in Flying \ {"land"} => landed'[s] = None
    BY <1>1, <2>1 DEF FlightInv
  <2> QED
    BY <1>1, <2>1, <2>2, <2>3 DEF FlightInv
<1>4. ValueInv'
  BY <1>1 DEF ValueInv, Right
<1>5. OwnInv'
  BY <1>1, OwnSame
<1> QED
  BY <1>2, <1>3, <1>4, <1>5

\* The leader turns to its own getter after it asked a peer: the nodes have
\* disagreed, a connection has failed, or the peer does not know the key.
LEMMA LocalKeeps ==
    ASSUME IInv, NEW t \in Threads, pc[t] \in {"dial", "fetch"},
           pc' = [pc EXCEPT ![t] = "local"],
           \/ split \/ failed' # 0
           \/ Wire[key[t]] \notin DB,
           failed' = failed \/ failed' # 0,
           UNCHANGED <<poolVars, loaderVars, node, key, peer, answer>>
    PROVE  CallInv'
PROOF
<1> USE Constants DEF IInv, CallInv
<1>1. /\ pc'[t] = "local"
      /\ \A s \in Threads \ {t} : pc'[s] = pc[s]
      /\ UNCHANGED <<leader, current, landed>>
  BY DEF TypeOK, loaderVars
<1>2. ThreadInv'
  BY <1>1 DEF ThreadInv
<1>3. FlightInv'
  <2>1. \A s \in Threads : pc'[s] \in Flying <=> pc[s] \in Flying
    BY <1>1 DEF Flying
  <2>2. \A m \in Nodes, j \in Keys : current[<<m, j>>] \in Threads \cup {None}
    BY DEF TypeOK
  <2>3. \A s \in Threads :
            pc'[s] \in Flying \ {"land"} => pc[s] \in Flying \ {"land"}
    BY <1>1 DEF Flying
  <2> QED
    BY <1>1, <2>1, <2>2, <2>3 DEF FlightInv
<1>4. ValueInv'
  BY <1>1 DEF ValueInv
<1>5. OwnInv'
  BY <1>1, Owners DEF OwnInv, poolVars, Owner, Split
<1> QED
  BY <1>2, <1>3, <1>4, <1>5

LEMMA ReplyKeeps ==
    ASSUME IInv, NEW t \in Threads, Reply(t)
    PROVE  CallInv'
PROOF
<1> USE Constants DEF IInv, CallInv
<1> DEFINE r == answer[HandlerOf(t)]
<1>1. /\ pc[t] = "fetch" /\ r # None
      /\ UNCHANGED <<poolVars, failed, node, key, peer, answer>>
  BY DEF Reply, HandlerOf
<1>2. /\ HandlerOf(t) \in Threads /\ key[HandlerOf(t)] = Wire[key[t]]
      /\ key[t] \in Keys
  BY <1>1 DEF ThreadInv
<1>3. r \in Values /\ Right(Wire[key[t]], r)
  BY <1>1, <1>2 DEF ValueInv, TypeOK
<1>4. CASE r = Err
  <2>1. pc' = [pc EXCEPT ![t] = "local"] /\ UNCHANGED loaderVars
    BY <1>4 DEF Reply, HandlerOf, Step
  <2>2. Wire[key[t]] \notin DB
    BY <1>3, <1>4 DEF Right
  <2> QED
    BY <1>1, <2>1, <2>2, LocalKeeps
<1>5. CASE r # Err
  <2>1. pc' = [pc EXCEPT ![t] = "land"] /\ Loader!Land(t, r)
    BY <1>5 DEF Reply, HandlerOf, Step
  <2>2. Right(key[t], r)
    BY <1>2, <1>3, <1>5 DEF Right
  <2> QED
    BY <1>1, <1>3, <2>1, <2>2, LandKeeps
<1> QED
  BY <1>4, <1>5

LEMMA FailKeeps ==
    ASSUME IInv, NEW t \in Threads, FetchFails(t) \/ Refused(t)
    PROVE  CallInv'
PROOF
<1> USE Constants DEF IInv, CallInv
<1>1. /\ pc[t] \in {"dial", "fetch"} /\ pc' = [pc EXCEPT ![t] = "local"]
      /\ UNCHANGED <<poolVars, loaderVars, node, key, peer, answer>>
  BY DEF FetchFails, Refused, FetchError
<1>2. CASE FetchFails(t)
  <2>1. failed' # 0
    BY <1>2 DEF FetchFails, TypeOK
  <2> QED
    BY <1>1, <2>1, LocalKeeps
<1>3. CASE Refused(t)
  <2>1. /\ pool[peer[t]] = None /\ failed' = failed
        /\ peer[t] \in Nodes /\ key[t] \in Keys
    BY <1>3 DEF Refused, FetchError, ThreadInv
  <2>2. split
    BY <2>1 DEF OwnInv, Split, Owner
  <2> QED
    BY <1>1, <2>1, <2>2, LocalKeeps
<1> QED
  BY <1>2, <1>3

LEMMA LocallyKeeps ==
    ASSUME IInv, NEW t \in Threads, getLocally(t)
    PROVE  CallInv'
PROOF
<1>1. /\ pc[t] = "local" /\ pc' = [pc EXCEPT ![t] = "land"]
      /\ UNCHANGED <<poolVars, failed, node, key, peer, answer>>
  BY DEF getLocally, Step
<1>2. CASE key[t] \in DB
  BY <1>1, <1>2, LandKeeps, Constants DEF getLocally, Right, Values
<1>3. CASE key[t] \notin DB
  BY <1>1, <1>3, LandKeeps, Constants DEF getLocally, Right, Values
<1> QED
  BY <1>2, <1>3

LEMMA LeaveKeeps ==
    ASSUME IInv, NEW t \in Threads, Leave(t)
    PROVE  CallInv'
PROOF
<1> USE Constants DEF IInv, CallInv
<1> DEFINE v == landed[leader[t]]
<1>1. /\ pc[t] \in {"land", "wait"} /\ leader[t] # None /\ v # None
      /\ current' = [k \in Nodes \X Keys |->
                        IF current[k] = t THEN None ELSE current[k]]
      /\ pc' = [pc EXCEPT ![t] = "returned"]
      /\ answer' = [answer EXCEPT ![t] = v]
      /\ UNCHANGED <<poolVars, failed, node, key, peer, leader, landed>>
  BY DEF Leave, Loader!Leave
<1>2. Right(key[t], v)
  BY <1>1, LeaderOf DEF ValueInv
<1> HIDE DEF v
<1>3. /\ pc'[t] = "returned" /\ answer'[t] = v
      /\ \A s \in Threads \ {t} : pc'[s] = pc[s] /\ answer'[s] = answer[s]
  BY <1>1 DEF TypeOK
<1>4. ThreadInv'
  BY <1>1, <1>3 DEF ThreadInv
<1>5. FlightInv'
  <2>1. ASSUME NEW s \in Threads
        PROVE  /\ pc'[s] \in Flying => /\ leader'[s] = s
                                       /\ current'[<<node'[s], key'[s]>>] = s
               /\ pc'[s] \in Flying \ {"land"} => landed'[s] = None
    <3>1. CASE s = t
      BY <1>3, <3>1 DEF Flying
    <3>2. CASE s # t
      <4>1. pc[s] \in Flying => <<node[s], key[s]>> \in Nodes \X Keys
        BY DEF ThreadInv, Flying
      <4> QED
        BY <1>1, <1>3, <3>2, <4>1 DEF FlightInv
    <3> QED
      BY <3>1, <3>2
  <2>2. ASSUME NEW m \in Nodes, NEW j \in Keys, current'[<<m, j>>] # None
        PROVE  LET i == current'[<<m, j>>] IN
               pc'[i] \in Flying /\ node'[i] = m /\ key'[i] = j
    <3>1. <<m, j>> \in Nodes \X Keys
      OBVIOUS
    <3>2. /\ current'[<<m, j>>] = current[<<m, j>>]
          /\ current[<<m, j>>] \in Threads \ {t}
      BY <1>1, <2>2, <3>1 DEF TypeOK
    <3> QED
      BY <1>1, <1>3, <2>2, <3>2 DEF FlightInv
  <2>3. \A s \in Threads : leader'[s] # None =>
            /\ leader'[leader'[s]] = leader'[s]
            /\ node'[leader'[s]] = node'[s] /\ key'[leader'[s]] = key'[s]
    BY <1>1, LeaderOf
  <2> QED
    BY <2>1, <2>2, <2>3 DEF FlightInv
<1>6. ValueInv'
  BY <1>1, <1>2, <1>3 DEF ValueInv, Right
<1>7. OwnInv'
  BY <1>1, <1>3, OwnSame
<1> QED
  BY <1>4, <1>5, <1>6, <1>7

\* A node gets a new ring.
LEMMA SetKeeps ==
    ASSUME IInv, NEW n \in Nodes, NEW peers \in PeerLists, Set(n, peers)
    PROVE  CallInv'
PROOF
<1> USE DEF IInv, CallInv
<1>1. /\ UNCHANGED <<hash, failed, pc, node, key, peer, answer>>
      /\ UNCHANGED <<leader, current, landed>>
  BY DEF Set, threadVars, loaderVars
<1>2. ThreadInv' /\ FlightInv' /\ ValueInv'
  BY <1>1 DEF ThreadInv, FlightInv, ValueInv
<1>3. /\ \A m \in Nodes \ {n} : pool'[m] = pool[m]
      /\ split' = (split \/ Split(pool'))
  BY DEF Set, TypeOK
<1>4. /\ Split(pool)' = Split(pool')
      /\ \A m, k : Owner(pool[m], k)' = Owner(pool'[m], k)
  BY <1>1 DEF Split, Owner
<1>5. ASSUME ~ split', failed = 0, NEW t \in Threads,
             pc[t] = "local", {key[t], Wire[key[t]]} \subseteq DB,
             NEW m \in Nodes \ {node[t]}
      PROVE  Owner(pool'[m], key[t]) = node[t]
  <2>1. ~ split /\ ~ Split(pool') /\ ~ Split(pool)
    BY <1>3, <1>5 DEF OwnInv
  <2>2. node[t] \in Nodes /\ key[t] \in Keys
    BY <1>5 DEF ThreadInv
  <2>3. Owner(pool[m], key[t]) = node[t]
    BY <1>5, <2>1 DEF OwnInv
  <2>4. CASE m # n
    BY <1>3, <2>3, <2>4
  <2>5. CASE m = n
    <3>1. Owner(pool[node[t]], key[t]) = node[t]
      BY <2>1, <2>2, <2>3 DEF Split
    <3>2. pool'[node[t]] = pool[node[t]]
      BY <1>3, <2>2, <2>5
    <3>3. Owner(pool'[node[t]], key[t]) = Owner(pool'[m], key[t])
      BY <2>1, <2>2 DEF Split
    <3> QED
      BY <3>1, <3>2, <3>3
  <2> QED
    BY <2>4, <2>5
<1>6. OwnInv'
  BY <1>1, <1>3, <1>4, <1>5 DEF OwnInv, Owner, Split
<1> QED
  BY <1>2, <1>6

LEMMA CallNext == IInv /\ OwnerIsNearest /\ [Next]_vars => CallInv'
PROOF
<1> SUFFICES ASSUME IInv, OwnerIsNearest, [Next]_vars PROVE CallInv'
  OBVIOUS
<1>1. ASSUME NEW t \in Threads, Do(t) PROVE CallInv'
  BY <1>1, BoardKeeps, LeadKeeps DEF Do, Boards, Leads
<1>2. ASSUME NEW t \in Threads,
             \/ ServeHTTP(t) \/ Reply(t) \/ FetchFails(t) \/ Refused(t)
             \/ getLocally(t) \/ Leave(t)
      PROVE  CallInv'
  BY <1>2, ServeKeeps, ReplyKeeps, FailKeeps, LocallyKeeps, LeaveKeeps
<1>3. CASE UNCHANGED vars
  BY <1>3 DEF vars, poolVars, loaderVars, threadVars, IInv, CallInv,
              ThreadInv, FlightInv, ValueInv, OwnInv, Owner, Split
<1> QED
  BY <1>1, <1>2, <1>3, UserGetKeeps, SetKeeps DEF Next
-----------------------------------------------------------------------------
(* The theorems                                                            *)

LEMMA CacheInit == Init => CacheInv
BY DEF Init, CacheInv

LEMMA CallInit == Init => CallInv
PROOF
<1> SUFFICES ASSUME Init PROVE CallInv
  OBVIOUS
<1> USE Constants
<1>1. /\ \A t \in Threads :
            /\ pc[t] = "idle" /\ answer[t] = None /\ leader[t] = None
            /\ landed[t] = None
      /\ \A n \in Nodes, k \in Keys : current[<<n, k>>] = None
      /\ split = Split(pool)
  BY DEF Init, Loader!Init
<1> QED
  BY <1>1 DEF CallInv, ThreadInv, FlightInv, ValueInv, OwnInv, Flying

LEMMA RingInit == Init => RingInv
PROOF
<1> SUFFICES ASSUME Init PROVE RingInv
  OBVIOUS
<1>1. PICK lists \in [Nodes -> PeerLists \cup {<<>>}] :
          /\ pool = [n \in Nodes |->
                         IF lists[n] = <<>> THEN None ELSE Ring(lists[n])]
          /\ getters = [n \in Nodes |-> ToSet(lists[n])]
  BY DEF Init
<1>2. pool = [n \in Nodes |-> pool[n]] /\ hash \in Hashes
  BY <1>1 DEF Init
<1>3. getters \in [Nodes -> SUBSET Nodes]
  BY TypeInit DEF TypeOK
<1>4. ASSUME NEW n \in Nodes, pool[n] # None
      PROVE  \E peers \in PeerLists :
                 pool[n] = Ring(peers) /\ getters[n] = ToSet(peers)
  <2>1. lists[n] \in PeerLists /\ lists[n] # <<>>
    BY <1>1, <1>4
  <2> QED
    BY <1>1, <2>1
<1> QED
  BY <1>2, <1>3, <1>4 DEF RingInv

LEMMA RingNext == RingInv /\ [Next]_vars => RingInv'
PROOF
<1> SUFFICES ASSUME RingInv, [Next]_vars PROVE RingInv'
  OBVIOUS
<1>1. ASSUME UNCHANGED <<hash, pool, getters>> PROVE RingInv'
  BY <1>1 DEF RingInv, Ring
<1>2. ASSUME NEW n \in Nodes, NEW peers \in PeerLists, Set(n, peers)
      PROVE  RingInv'
  <2>1. /\ pool' = [pool EXCEPT ![n] = Ring(peers)]
        /\ getters' = [getters EXCEPT ![n] = ToSet(peers)]
        /\ UNCHANGED hash
    BY <1>2 DEF Set
  <2>2. \A l \in PeerLists : Ring(l)' = Ring(l)
    BY <2>1 DEF Ring
  <2>3. /\ pool' = [m \in Nodes |-> pool'[m]]
        /\ \A m \in Nodes : pool'[m] = IF m = n THEN Ring(peers) ELSE pool[m]
    BY <2>1 DEF RingInv
  <2>4. /\ getters' \in [Nodes -> SUBSET Nodes]
        /\ \A m \in Nodes : getters'[m] = IF m = n THEN ToSet(peers)
                                          ELSE getters[m]
    BY <2>1, PeersOf DEF RingInv
  <2>5. ASSUME NEW m \in Nodes, pool'[m] # None
        PROVE  \E l \in PeerLists :
                   pool'[m] = Ring(l)' /\ getters'[m] = ToSet(l)
    BY <2>2, <2>3, <2>4, <2>5 DEF RingInv
  <2> QED
    BY <2>1, <2>3, <2>4, <2>5 DEF RingInv
<1>3. ASSUME NEW u \in Users, NEW k \in Keys, Get(u, k) PROVE RingInv'
  BY <1>1, <1>3 DEF Get, GroupGet, poolVars
<1>4. ASSUME NEW t \in Threads,
             \/ Do(t) \/ ServeHTTP(t) \/ Reply(t) \/ FetchFails(t)
             \/ Refused(t) \/ getLocally(t) \/ Leave(t)
      PROVE  RingInv'
  BY <1>1, <1>4 DEF Do, ServeHTTP, GroupGet, Reply, FetchFails, Refused,
     FetchError, getLocally, Leave, poolVars
<1> QED
  BY <1>1, <1>2, <1>3, <1>4 DEF Next, vars, poolVars

\* Map.Add and Map.Get (consistenthash.go:31-56): the owner that a ring names
\* is the peer with the virtual node at or next after the key, for any hash
\* function, any peers in any order and collisions of all kinds.
THEOREM OwnersAreNearest == Spec => []OwnerIsNearest
PROOF
<1>1. RingInv => OwnerIsNearest
  <2> SUFFICES ASSUME RingInv, NEW n \in Nodes, NEW k \in Keys, pool[n] # None
               PROVE  LET o == Owner(pool[n], k) IN
                      /\ o \in getters[n]
                      /\ \E i \in 0..Replicas - 1 :
                          \A p \in getters[n], j \in 0..Replicas - 1 :
                              Distance(hash.node[<<i, o>>], k) <=
                                  Distance(hash.node[<<j, p>>], k)
    BY DEF OwnerIsNearest
  <2>1. PICK peers \in PeerLists :
            pool[n] = Add(hash, New, peers) /\ getters[n] = ToSet(peers)
    BY DEF RingInv, Ring
  <2>2. Owner(pool[n], k) = MapGet(hash, Add(hash, New, peers), k, None)
    BY <2>1 DEF Owner
  <2>3. hash \in Hashes
    BY DEF RingInv
  <2> QED
    BY <2>1, <2>2, <2>3, NearestOwner DEF Distance
<1> QED
  BY <1>1, RingInit, RingNext, PTL DEF Spec

\* The inductive invariant holds in every reachable state.
THEOREM Inductive == Spec => []IInv
PROOF
<1>1. Init => IInv
  BY TypeInit, CacheInit, CallInit DEF IInv
<1>2. IInv /\ OwnerIsNearest /\ [Next]_vars => IInv'
  BY TypeNext, CacheNext, CallNext DEF IInv, CallInv
<1> QED
  BY <1>1, <1>2, OwnersAreNearest, PTL DEF Spec

\* A cache holds nothing but what its node's own getter has returned for the
\* key, whatever the rings, the wire and the peers do: getLocally is the only
\* one to call populateCache (geecatche.go).
THEOREM OnlyOwnValuesCached == Spec => []CacheIsRight
PROOF
<1>1. CacheInv => CacheIsRight
  BY DEF CacheInv, CacheIsRight
<1> QED
  BY <1>1, CacheInit, CacheNext, PTL DEF Spec

\* Get returns an error only if the getter has none for the key, and else the
\* value of the key or of what the wire made of it, although connections fail,
\* peers are replaced and handlers answer late (Group.load, httpGetter.Get).
THEOREM GetsAreRight == Spec => []GetIsRight
PROOF
<1>1. IInv => GetIsRight
  BY UserThread DEF IInv, CallInv, ThreadInv, ValueInv, Right, GetIsRight
<1> QED
  BY <1>1, Inductive, PTL

\* While the nodes agree and nothing fails, two goroutines, on whatever nodes,
\* are never both in the getter for one key: both would be on its owner, where
\* singleflight lets one in (Group.load).
THEOREM OneLoadPerKey == Spec => []LoadedOnce
PROOF
<1>1. IInv => LoadedOnce
  <2> SUFFICES ASSUME IInv, ~ split, failed = 0,
                      NEW t1 \in Threads, NEW t2 \in Threads,
                      pc[t1] = "local", pc[t2] = "local", key[t1] = key[t2],
                      {key[t1], Wire[key[t1]]} \subseteq DB
               PROVE  t1 = t2
    BY DEF LoadedOnce
  <2> USE Constants DEF IInv, CallInv
  <2>1. /\ node[t1] \in Nodes /\ node[t2] \in Nodes /\ key[t1] \in Keys
        /\ current[<<node[t1], key[t1]>>] = t1
        /\ current[<<node[t2], key[t2]>>] = t2
    BY DEF ThreadInv, FlightInv, Flying
  <2>2. node[t1] = node[t2]
    <3> SUFFICES ASSUME node[t1] # node[t2] PROVE FALSE
      OBVIOUS
    <3>1. /\ Owner(pool[node[t2]], key[t1]) = node[t1]
          /\ Owner(pool[node[t1]], key[t1]) = node[t2]
      BY <2>1 DEF OwnInv
    <3> QED
      BY <2>1, <3>1 DEF OwnInv, Split
  <2> QED
    BY <2>1, <2>2
<1> QED
  BY <1>1, Inductive, PTL

\* load and its goroutines use g.loader only as Flight describes it, one
\* flight for a node and a key (geecatche.go:77-96): what SingleFlight is
\* shown to implement is what the group relies on, on every node.
THEOREM GroupUsesFlight == Spec => Loader!Spec
PROOF
<1>1. Init => Loader!Init
  BY DEF Init
<1>2. IInv /\ [Next]_vars => [Loader!Next]_(Loader!flightVars)
  <2> SUFFICES ASSUME IInv, [Next]_vars PROVE Loader!Next \/ UNCHANGED loaderVars
    BY DEF Loader!flightVars, loaderVars
  <2> USE DEF loaderVars
  <2>1. ASSUME NEW t \in Threads, Do(t) PROVE Loader!Next
    <3>1. <<node[t], key[t]>> \in Nodes \X Keys
      BY <2>1 DEF Do, Step, PickPeer, IInv, CallInv, ThreadInv
    <3>2. \/ Loader!Board(t, <<node[t], key[t]>>)
          \/ Loader!Lead(t, <<node[t], key[t]>>)
      BY <2>1 DEF Do
    <3> QED
      BY <3>1, <3>2 DEF Loader!Next
  <2>2. ASSUME NEW t \in Threads, Reply(t)
        PROVE  Loader!Next \/ UNCHANGED loaderVars
    <3> DEFINE r == answer[HandlerOf(t)]
    <3>1. r \in Values
      <4>1. HandlerOf(t) \in Threads /\ r # None
        BY <2>2 DEF Reply, HandlerOf, IInv, CallInv, ThreadInv
      <4> QED
        BY <4>1 DEF IInv, TypeOK
    <3>2. UNCHANGED loaderVars \/ Loader!Land(t, r)
      BY <2>2 DEF Reply, HandlerOf
    <3> QED
      BY <3>1, <3>2 DEF Loader!Next
  <2>3. ASSUME NEW t \in Threads, getLocally(t) PROVE Loader!Next
    <3>1. key[t] \in Values /\ Err \in Values
      BY <2>3 DEF getLocally, Step, IInv, CallInv, ThreadInv, Values
    <3>2. Loader!Land(t, key[t]) \/ Loader!Land(t, Err)
      BY <2>3 DEF getLocally
    <3> QED
      BY <3>1, <3>2 DEF Loader!Next
  <2>4. ASSUME NEW t \in Threads, Leave(t) PROVE Loader!Next
    BY <2>4 DEF Leave, Loader!Next
  <2>5. ASSUME NEW t \in Threads, ServeHTTP(t) \/ FetchFails(t) \/ Refused(t)
        PROVE  UNCHANGED loaderVars
    BY <2>5 DEF ServeHTTP, GroupGet, FetchFails, Refused, FetchError
  <2>6. ASSUME NEW u \in Users, NEW k \in Keys, Get(u, k)
        PROVE  UNCHANGED loaderVars
    BY <2>6 DEF Get, GroupGet
  <2>7. ASSUME NEW n \in Nodes, NEW peers \in PeerLists, Set(n, peers)
        PROVE  UNCHANGED loaderVars
    BY <2>7 DEF Set
  <2>8. UNCHANGED vars => UNCHANGED loaderVars
    BY DEF vars
  <2> QED
    BY <2>1, <2>2, <2>3, <2>4, <2>5, <2>6, <2>7, <2>8 DEF Next
<1> QED
  BY <1>1, <1>2, Inductive, PTL DEF Spec, Loader!Spec

-----------------------------------------------------------------------------
(* The LRU cache: the sizes of lists                                       *)

\* f[i] is the size of the first i entries of q, for i up to n.
Sums(q, n, f) ==
    /\ f \in [0..n -> Int] /\ f[0] = 0
    /\ \A i \in 1..n : f[i] = f[i - 1] + Size(q[i])

\* Sizes are not negative.
LEMMA SizeType == ASSUME NEW e \in Entries PROVE Size(e) \in Nat
PROOF
<1>1. e.key \in CacheKeys /\ e.value \in Sizes
  BY DEF Entries
<1>2. KeyLen[e.key] \in Nat /\ e.value \in Nat
  BY <1>1, LRUAssumption
<1> QED
  BY <1>2 DEF Size

\* There are sums for a list of any length: none is the shortest without.
LEMMA SumsExist ==
    ASSUME NEW q \in Seq(Entries)
    PROVE  \E f : Sums(q, Len(q), f)
PROOF
<1> DEFINE T == {n \in 0..Len(q) : ~ \E f : Sums(q, n, f)}
<1>1. Len(q) \in 0..Len(q) /\ Len(q) \in Nat
      /\ \A i \in 1..Len(q) : q[i] \in Entries
  OBVIOUS
<1> SUFFICES ASSUME T # {} PROVE FALSE
  BY <1>1, Zenon
<1> DEFINE m == Min(T)
<1>2. m \in T /\ \A n \in T : m <= n
  <2>1. T \in SUBSET Nat
    BY <1>1
  <2> HIDE DEF T
  <2> QED
    BY <2>1, NatMin
<1> HIDE DEF m
<1>3. Sums(q, 0, [i \in 0..0 |-> 0])
  BY DEF Sums
<1>4. m \in 1..Len(q)
  <2>1. m # 0
    BY <1>2, <1>3
  <2> QED
    BY <1>1, <1>2, <2>1
<1>5. m - 1 \in 0..Len(q) /\ m - 1 \notin T
  BY <1>1, <1>2, <1>4
<1>6. PICK f : Sums(q, m - 1, f)
  BY <1>5
<1> DEFINE g == [i \in 0..m |-> IF i = m THEN f[m - 1] + Size(q[m]) ELSE f[i]]
<1>7. Size(q[m]) \in Nat
  BY <1>1, <1>4, SizeType
<1>8. /\ f \in [0..(m - 1) -> Int] /\ f[0] = 0
      /\ \A i \in 1..(m - 1) : f[i] = f[i - 1] + Size(q[i])
  BY <1>6 DEF Sums
<1>9. g \in [0..m -> Int]
  BY <1>4, <1>7, <1>8
<1>10. g[0] = 0
  BY <1>4, <1>8
<1>11. ASSUME NEW i \in 1..m PROVE g[i] = g[i - 1] + Size(q[i])
  <2>1. i - 1 \in 0..m /\ i - 1 # m /\ i \in 0..m
    BY <1>4
  <2>2. g[i - 1] = f[i - 1]
    BY <2>1
  <2>3. CASE i = m
    BY <2>1, <2>2, <2>3
  <2>4. CASE i # m
    <3>1. i \in 1..(m - 1)
      BY <1>4, <2>4
    <3>2. g[i] = f[i]
      BY <2>1, <2>4
    <3> QED
      BY <1>8, <2>2, <3>1, <3>2
  <2> QED
    BY <2>3, <2>4
<1> HIDE DEF g
<1>12. Sums(q, m, g)
  BY <1>9, <1>10, <1>11 DEF Sums
<1> QED
  BY <1>2, <1>12

\* Whoever has the sums of a list knows its size.
LEMMA BytesAre ==
    ASSUME NEW q \in Seq(Entries), NEW f, Sums(q, Len(q), f)
    PROVE  Bytes(q) = f[Len(q)]
PROOF
<1> DEFINE IsSum(g) == g = [i \in 0..Len(q) |->
                               IF i = 0 THEN 0 ELSE g[i - 1] + Size(q[i])]
           s == CHOOSE g : IsSum(g)
<1>1. Len(q) \in Nat
  OBVIOUS
<1>2. f = [i \in 0..Len(q) |-> f[i]] /\ f[0] = 0
      /\ \A i \in 1..Len(q) : f[i] = f[i - 1] + Size(q[i])
  BY DEF Sums
<1>3. IsSum(f)
  <2>1. ASSUME NEW i \in 0..Len(q)
        PROVE  f[i] = IF i = 0 THEN 0 ELSE f[i - 1] + Size(q[i])
    <3>1. i # 0 => i \in 1..Len(q)
      BY <1>1
    <3> QED
      BY <1>2, <3>1, Zenon
  <2>2. [i \in 0..Len(q) |-> f[i]]
            = [i \in 0..Len(q) |-> IF i = 0 THEN 0 ELSE f[i - 1] + Size(q[i])]
    BY <2>1, Zenon
  <2> QED
    BY <1>2, <2>2, Zenon
<1>4. IsSum(s)
  BY <1>3, Zenon
<1>5. Bytes(q) = s[Len(q)]
  BY DEF Bytes
<1> HIDE DEF s
<1>6. \A i \in 0..Len(q) : s[i] = IF i = 0 THEN 0 ELSE s[i - 1] + Size(q[i])
  BY <1>4
<1> DEFINE T == {i \in 0..Len(q) : s[i] # f[i]}
<1>7. T = {}
  <2> SUFFICES ASSUME T # {} PROVE FALSE
    OBVIOUS
  <2> DEFINE m == Min(T)
  <2>0. T \in SUBSET Nat
    BY <1>1
  <2>1. m \in T /\ \A n \in T : m <= n
    <3> HIDE DEF T
    <3> QED
      BY <2>0, NatMin
  <2> HIDE DEF m
  <2>2. m \in 0..Len(q) /\ s[m] # f[m]
    BY <2>1
  <2>3. m # 0
    BY <1>1, <1>2, <1>6, <2>2
  <2>4. m - 1 \in 0..Len(q) /\ ~ (m <= m - 1)
    BY <1>1, <2>2, <2>3
  <2>5. s[m - 1] = f[m - 1]
    BY <2>1, <2>4
  <2>6. m \in 1..Len(q)
    BY <1>1, <2>2, <2>3
  <2>7. s[m] = s[m - 1] + Size(q[m])
    BY <1>6, <2>2, <2>3
  <2>8. f[m] = f[m - 1] + Size(q[m])
    BY <1>2, <2>6
  <2> QED
    BY <2>2, <2>5, <2>7, <2>8
<1> QED
  BY <1>1, <1>5, <1>7

\* The empty list has none.
LEMMA BytesEmpty == Bytes(<<>>) = 0
PROOF
<1>1. Sums(<<>>, Len(<<>>), [i \in 0..0 |-> 0])
  BY DEF Sums
<1>2. Bytes(<<>>) = [i \in 0..0 |-> 0][Len(<<>>)]
  BY <1>1, BytesAre
<1> QED
  BY <1>2

\* An entry at the front adds its size.
LEMMA BytesPush ==
    ASSUME NEW e \in Entries, NEW q \in Seq(Entries)
    PROVE  /\ <<e>> \o q \in Seq(Entries)
           /\ Bytes(q) \in Int /\ Bytes(<<e>> \o q) = Size(e) + Bytes(q)
PROOF
<1> DEFINE p == <<e>> \o q
<1>1. /\ p \in Seq(Entries) /\ Len(q) \in Nat /\ Len(p) = Len(q) + 1
      /\ p[1] = e /\ \A i \in 2..Len(p) : p[i] = q[i - 1]
  OBVIOUS
<1>2. PICK f : Sums(q, Len(q), f)
  BY SumsExist
<1>3. /\ f \in [0..Len(q) -> Int] /\ f[0] = 0
      /\ \A i \in 1..Len(q) : f[i] = f[i - 1] + Size(q[i])
  BY <1>2 DEF Sums
<1>4. Bytes(q) = f[Len(q)]
  BY <1>2, BytesAre
<1> HIDE DEF p
<1> DEFINE g == [i \in 0..Len(p) |-> IF i = 0 THEN 0 ELSE Size(e) + f[i - 1]]
<1>5. Size(e) \in Nat
  BY SizeType
<1>6. g \in [0..Len(p) -> Int]
  BY <1>1, <1>3, <1>5
<1>7. ASSUME NEW i \in 1..Len(p) PROVE g[i] = g[i - 1] + Size(p[i])
  <2>1. i \in 0..Len(p) /\ i - 1 \in 0..Len(q) /\ i - 1 \in 0..Len(p)
    BY <1>1
  <2>2. g[i] = Size(e) + f[i - 1]
    BY <2>1
  <2>3. CASE i = 1
    BY <1>1, <1>3, <1>5, <2>1, <2>2, <2>3
  <2>4. CASE i # 1
    <3>1. i \in 2..Len(p) /\ i - 1 \in 1..Len(q) /\ (i - 1) - 1 \in 0..Len(q)
      BY <1>1, <2>4
    <3>2. g[i - 1] = Size(e) + f[(i - 1) - 1]
      BY <2>1, <3>1
    <3>3. p[i] = q[i - 1] /\ q[i - 1] \in Entries
      BY <1>1, <3>1
    <3>4. f[i - 1] = f[(i - 1) - 1] + Size(p[i])
      BY <1>3, <3>1, <3>3
    <3>5. f[(i - 1) - 1] \in Int /\ Size(p[i]) \in Nat
      BY <1>3, <3>1, <3>3, SizeType
    <3> HIDE DEF g
    <3> QED
      BY <1>5, <2>2, <3>2, <3>4, <3>5
  <2> QED
    BY <2>3, <2>4
<1>8. g[0] = 0 /\ g[Len(p)] = Size(e) + f[Len(q)]
  BY <1>1
<1> HIDE DEF g
<1>9. Bytes(p) = g[Len(p)]
  BY <1>1, <1>6, <1>7, <1>8, BytesAre DEF Sums
<1> QED
  BY <1>1, <1>3, <1>4, <1>8, <1>9 DEF p

\* What is left of a list without its i-th entry.
LEMMA ConcatAt ==
    ASSUME NEW S, NEW a \in Seq(S), NEW b \in Seq(S)
    PROVE  /\ a \o b \in Seq(S) /\ Len(a \o b) = Len(a) + Len(b)
           /\ \A j \in 1..(Len(a) + Len(b)) :
                 (a \o b)[j] = IF j <= Len(a) THEN a[j] ELSE b[j - Len(a)]
OBVIOUS

LEMMA Removed ==
    ASSUME NEW q \in Seq(Entries), NEW i \in 1..Len(q)
    PROVE  LET r == RemoveAt(q, i)
           IN  /\ r \in Seq(Entries) /\ Len(r) = Len(q) - 1
               /\ \A j \in 1..Len(r) : r[j] = q[IF j < i THEN j ELSE j + 1]
PROOF
<1> DEFINE a == SubSeq(q, 1, i - 1)
           b == SubSeq(q, i + 1, Len(q))
<1>1. /\ a \in Seq(Entries) /\ Len(a) = i - 1
      /\ \A j \in 1..(i - 1) : a[j] = q[j]
  OBVIOUS
<1>2. /\ b \in Seq(Entries) /\ Len(b) = Len(q) - i
      /\ \A j \in 1..(Len(q) - i) : b[j] = q[j + i]
  OBVIOUS
<1>3. RemoveAt(q, i) = a \o b
  BY DEF RemoveAt
<1> HIDE DEF a, b
<1>4. /\ a \o b \in Seq(Entries) /\ Len(a \o b) = Len(q) - 1
      /\ \A j \in 1..(Len(q) - 1) :
            (a \o b)[j] = IF j < i THEN a[j] ELSE b[j - i + 1]
  <2>1. /\ a \o b \in Seq(Entries) /\ Len(a \o b) = Len(a) + Len(b)
        /\ \A j \in 1..(Len(a) + Len(b)) :
              (a \o b)[j] = IF j <= Len(a) THEN a[j] ELSE b[j - Len(a)]
    BY <1>1, <1>2, ConcatAt
  <2>2. Len(a) + Len(b) = Len(q) - 1
    BY <1>1, <1>2
  <2>3. ASSUME NEW j \in 1..(Len(q) - 1)
        PROVE  (a \o b)[j] = IF j < i THEN a[j] ELSE b[j - i + 1]
    <3>1. (j <= Len(a) <=> j < i) /\ j - Len(a) = j - i + 1
      BY <1>1
    <3>2. (a \o b)[j] = IF j <= Len(a) THEN a[j] ELSE b[j - Len(a)]
      BY <2>1, <2>2
    <3> QED
      BY <3>1, <3>2
  <2> QED
    BY <2>1, <2>2, <2>3
<1>5. ASSUME NEW j \in 1..(Len(q) - 1)
      PROVE  (a \o b)[j] = q[IF j < i THEN j ELSE j + 1]
  <2>1. CASE j < i
    BY <1>1, <1>4, <2>1
  <2>2. CASE ~ (j < i)
    <3>1. j - i + 1 \in 1..(Len(q) - i) /\ (j - i + 1) + i = j + 1
      BY <2>2
    <3> QED
      BY <1>2, <1>4, <2>2, <3>1
  <2> QED
    BY <2>1, <2>2
<1> QED
  BY <1>3, <1>4, <1>5

\* An entry that is removed takes its size away.
LEMMA BytesRemoved ==
    ASSUME NEW q \in Seq(Entries), NEW i \in 1..Len(q)
    PROVE  /\ Bytes(q) \in Int /\ Size(q[i]) \in Nat
           /\ Bytes(RemoveAt(q, i)) = Bytes(q) - Size(q[i])
PROOF
<1> DEFINE r == RemoveAt(q, i)
<1>1. /\ r \in Seq(Entries) /\ Len(r) = Len(q) - 1 /\ Len(q) \in Nat
      /\ \A j \in 1..Len(r) : r[j] = q[IF j < i THEN j ELSE j + 1]
  BY Removed
<1>2. PICK f : Sums(q, Len(q), f)
  BY SumsExist
<1>3. /\ f \in [0..Len(q) -> Int] /\ f[0] = 0
      /\ \A j \in 1..Len(q) : f[j] = f[j - 1] + Size(q[j])
  BY <1>2 DEF Sums
<1>4. Bytes(q) = f[Len(q)]
  BY <1>2, BytesAre
<1>5. \A j \in 1..Len(q) : Size(q[j]) \in Nat
  BY SizeType
<1> HIDE DEF r
<1> DEFINE g == [j \in 0..Len(r) |-> IF j < i THEN f[j]
                                             ELSE f[j + 1] - Size(q[i])]
<1>6. g \in [0..Len(r) -> Int]
  <2>1. ASSUME NEW j \in 0..Len(r)
        PROVE  (IF j < i THEN f[j] ELSE f[j + 1] - Size(q[i])) \in Int
    <3>1. j \in 0..Len(q) /\ j + 1 \in 0..Len(q)
      BY <1>1
    <3>2. f[j] \in Int /\ f[j + 1] \in Int
      BY <1>3, <3>1
    <3>3. Size(q[i]) \in Int
      BY <1>5
    <3> HIDE DEF Size
    <3> QED
      BY <3>2, <3>3
  <2> QED
    BY <2>1
<1>7. ASSUME NEW j \in 1..Len(r) PROVE g[j] = g[j - 1] + Size(r[j])
  <2>1. /\ j \in 1..Len(q) /\ j + 1 \in 1..Len(q) /\ j \in 0..Len(r)
        /\ j - 1 \in 0..Len(r) /\ (j + 1) - 1 = j /\ (j - 1) + 1 = j
        /\ j - 1 \in 0..Len(q)
    BY <1>1
  <2>2. /\ f[j] = f[j - 1] + Size(q[j]) /\ f[j + 1] = f[j] + Size(q[j + 1])
        /\ f[j - 1] \in Int /\ f[j] \in Int /\ f[j + 1] \in Int
        /\ Size(q[j]) \in Nat /\ Size(q[j + 1]) \in Nat /\ Size(q[i]) \in Nat
    <3>1. f[j] = f[j - 1] + Size(q[j])
      BY <1>3, <2>1
    <3>2. f[j + 1] = f[(j + 1) - 1] + Size(q[j + 1])
      BY <1>3, <2>1
    <3>3. j \in 0..Len(q) /\ j + 1 \in 0..Len(q)
      BY <2>1
    <3>4. f[j - 1] \in Int /\ f[j] \in Int /\ f[j + 1] \in Int
      BY <1>3, <2>1, <3>3
    <3> HIDE DEF g
    <3> QED
      BY <1>5, <2>1, <3>1, <3>2, <3>4
  <2>3. /\ g[j] = IF j < i THEN f[j] ELSE f[j + 1] - Size(q[i])
        /\ g[j - 1] = IF j - 1 < i THEN f[j - 1] ELSE f[j] - Size(q[i])
    BY <2>1
  <2> HIDE DEF g
  <2>4. CASE j < i
    <3>1. r[j] = q[j] /\ j - 1 < i
      BY <1>1, <2>4
    <3> QED
      BY <2>2, <2>3, <2>4, <3>1
  <2>5. CASE j = i
    <3>1. r[j] = q[j + 1] /\ j - 1 < i /\ ~ (j < i)
      BY <1>1, <2>5
    <3>2. g[j] = f[j + 1] - Size(q[j]) /\ g[j - 1] = f[j - 1]
      BY <2>3, <2>5, <3>1
    <3>3. f[j + 1] - Size(q[j]) = f[j - 1] + Size(q[j + 1])
      <4> DEFINE a == f[j - 1]
                 b == f[j]
                 c == f[j + 1]
                 d == Size(q[j])
                 e == Size(q[j + 1])
      <4>1. /\ a \in Int /\ b \in Int /\ c \in Int /\ d \in Nat /\ e \in Nat
            /\ b = a + d /\ c = b + e
        BY <2>2
      <4> HIDE DEF a, b, c, d, e
      <4>2. c - d = a + e
        BY <4>1
      <4> QED
        BY <4>2 DEF a, c, d, e
    <3> QED
      BY <3>1, <3>2, <3>3
  <2>6. CASE j > i
    <3>1. r[j] = q[j + 1] /\ ~ (j - 1 < i) /\ ~ (j < i)
      BY <1>1, <2>6
    <3> QED
      BY <2>2, <2>3, <3>1
  <2> QED
    BY <2>4, <2>5, <2>6
<1>8. g[0] = 0 /\ g[Len(r)] = f[Len(q)] - Size(q[i])
  <2>1. 0 \in 0..Len(r) /\ Len(r) \in 0..Len(r) /\ 0 < i
    BY <1>1
  <2>2. g[0] = 0
    BY <1>3, <2>1
  <2>3. CASE Len(r) < i
    <3>1. Len(q) = i /\ Len(r) = i - 1
      BY <1>1, <2>3
    <3>2. f[i] = f[i - 1] + Size(q[i]) /\ f[i - 1] \in Int
      <4>1. i - 1 \in 0..Len(q)
        BY <1>1
      <4> HIDE DEF g
      <4> QED
        BY <1>3, <4>1
    <3>3. g[Len(r)] = f[i - 1]
      BY <2>1, <2>3, <3>1
    <3> HIDE DEF g
    <3> QED
      BY <1>5, <2>2, <3>1, <3>2, <3>3
  <2>4. CASE ~ (Len(r) < i)
    <3>1. Len(r) + 1 = Len(q)
      BY <1>1
    <3>2. g[Len(r)] = f[Len(r) + 1] - Size(q[i])
      BY <2>1, <2>4
    <3> QED
      BY <2>2, <3>1, <3>2
  <2> QED
    BY <2>3, <2>4
<1> HIDE DEF g
<1>9. Bytes(r) = g[Len(r)]
  BY <1>1, <1>6, <1>7, <1>8, BytesAre DEF Sums
<1> QED
  BY <1>1, <1>3, <1>4, <1>5, <1>8, <1>9 DEF r

-----------------------------------------------------------------------------
(* The LRU cache: its list, its map and its counter                        *)

\* The list q and the map C belong together, in the order of use given by s,
\* with the values l.
Ordered(q, C, s, l) ==
    /\ \A i \in 1..Len(q) : q[i].key \in C /\ q[i].value = l[q[i].key]
    /\ \A c \in C : \E i \in 1..Len(q) : q[i].key = c
    /\ \A i, j \in 1..Len(q) : i < j =>
          q[i].key \in s[q[j].key] /\ q[j].key \notin s[q[i].key]

\* A key has not been used since it was used.
SinceInv == \A k \in CacheKeys : k \notin since[k]

\* Between operations the limit is kept.
LimitInv == ~evicting => ~OverLimit

\* The inductive invariant of the cache.
LRUInv == /\ LRUTypeOK /\ SinceInv /\ Ordered(ll, catche, since, latest)
          /\ BytesCounted /\ LimitInv

\* The parts of an entry.
LEMMA EntryType ==
    ASSUME NEW e \in Entries
    PROVE  /\ e.key \in CacheKeys /\ e.value \in Sizes /\ e.value \in Nat
           /\ KeyLen[e.key] \in Nat
PROOF
<1>1. e.key \in CacheKeys /\ e.value \in Sizes
  BY DEF Entries
<1> QED
  BY <1>1, LRUAssumption

\* Pairwise order gives the property: nothing is used since itself, so the
\* keys used after that of an element can only be before it.
LEMMA OrderedIsRecency ==
    ASSUME LRUTypeOK, SinceInv
    PROVE  Ordered(ll, catche, since, latest) => ListIsRecency
PROOF
<1> SUFFICES ASSUME Ordered(ll, catche, since, latest) PROVE ListIsRecency
  OBVIOUS
<1>1. /\ DOMAIN ll = 1..Len(ll) /\ Len(ll) \in Nat
      /\ \A i \in 1..Len(ll) : ll[i].key \in CacheKeys
  BY EntryType DEF LRUTypeOK
<1>2. catche = {ll[i].key : i \in DOMAIN ll}
  BY <1>1 DEF Ordered
<1>3. ASSUME NEW i \in DOMAIN ll
      PROVE  {ll[j].key : j \in 1..(i - 1)} = since[ll[i].key] \cap catche
  <2>1. ASSUME NEW j \in 1..(i - 1)
        PROVE  ll[j].key \in since[ll[i].key] \cap catche
    <3>1. j \in 1..Len(ll) /\ i \in 1..Len(ll) /\ j < i
      BY <1>1
    <3> QED
      BY <3>1 DEF Ordered
  <2>2. ASSUME NEW c \in since[ll[i].key] \cap catche
        PROVE  \E j \in 1..(i - 1) : ll[j].key = c
    <3>1. PICK j \in 1..Len(ll) : ll[j].key = c
      BY DEF Ordered
    <3>2. j # i
      BY <1>1, <3>1 DEF SinceInv
    <3>3. ~ (i < j)
      BY <1>1, <3>1 DEF Ordered
    <3>4. j \in 1..(i - 1)
      BY <1>1, <3>2, <3>3
    <3> QED
      BY <3>1, <3>4
  <2> QED
    BY <2>1, <2>2
<1>4. \A i \in DOMAIN ll : ll[i].value = latest[ll[i].key]
  BY <1>1 DEF Ordered
<1> QED
  BY <1>2, <1>3, <1>4 DEF ListIsRecency

\* Without one element, list and map still belong together.
LEMMA RemoveOrdered ==
    ASSUME NEW q \in Seq(Entries), NEW C, NEW s, NEW l, Ordered(q, C, s, l),
           \A k \in CacheKeys : k \notin s[k], NEW i \in 1..Len(q)
    PROVE  Ordered(RemoveAt(q, i), C \ {q[i].key}, s, l)
PROOF
<1> DEFINE r == RemoveAt(q, i)
           D == C \ {q[i].key}
           Old(j) == IF j < i THEN j ELSE j + 1
<1>1. /\ r \in Seq(Entries) /\ Len(r) = Len(q) - 1 /\ Len(q) \in Nat
      /\ \A j \in 1..Len(r) : r[j] = q[Old(j)]
  BY Removed
<1> HIDE DEF r
<1>2. \A j \in 1..Len(r) : Old(j) \in 1..Len(q) /\ Old(j) # i
  BY <1>1
<1>3. \A j, k \in 1..Len(r) : j < k => Old(j) < Old(k)
  BY <1>1
<1>4. ASSUME NEW j \in 1..Len(q), j # i PROVE q[j].key # q[i].key
  <2>1. q[j].key \in CacheKeys
    BY EntryType
  <2>2. CASE j < i
    BY <2>1, <2>2 DEF Ordered
  <2>3. CASE i < j
    BY <2>1, <2>3 DEF Ordered
  <2> QED
    BY <1>4, <2>2, <2>3
<1>5. ASSUME NEW c \in D PROVE \E j \in 1..Len(r) : r[j].key = c
  <2>1. PICK m \in 1..Len(q) : q[m].key = c
    BY DEF Ordered
  <2>2. m # i
    BY <2>1
  <2> DEFINE j == IF m < i THEN m ELSE m - 1
  <2>3. j \in 1..Len(r) /\ Old(j) = m
    BY <1>1, <2>2
  <2> HIDE DEF j, Old
  <2>4. r[j].key = c
    BY <1>1, <2>1, <2>3
  <2> QED
    BY <2>3, <2>4
<1> HIDE DEF Old
<1>6. ASSUME NEW j \in 1..Len(r)
      PROVE  r[j].key \in D /\ r[j].value = l[r[j].key]
  <2>1. Old(j) \in 1..Len(q) /\ Old(j) # i /\ r[j] = q[Old(j)]
    BY <1>1, <1>2
  <2> QED
    BY <1>4, <2>1 DEF Ordered
<1>7. ASSUME NEW j \in 1..Len(r), NEW k \in 1..Len(r), j < k
      PROVE  r[j].key \in s[r[k].key] /\ r[k].key \notin s[r[j].key]
  BY <1>1, <1>2, <1>3, <1>7 DEF Ordered
<1> HIDE DEF D
<1>8. Ordered(r, D, s, l)
  BY <1>5, <1>6, <1>7 DEF Ordered
<1> QED
  BY <1>8 DEF r, D

\* With a new element of the key that was used just now at the front, too.
LEMMA PushOrdered ==
    ASSUME NEW q \in Seq(Entries), NEW C \in SUBSET CacheKeys, NEW s, NEW l,
           Ordered(q, C, s, l), NEW e \in Entries, e.key \notin C,
           NEW t, t[e.key] = {},
           \A c \in C : t[c] = s[c] \cup {e.key},
           NEW m, m[e.key] = e.value, \A c \in C : m[c] = l[c]
    PROVE  Ordered(<<e>> \o q, C \cup {e.key}, t, m)
PROOF
<1> DEFINE p == <<e>> \o q
           D == C \cup {e.key}
<1>1. /\ Len(q) \in Nat /\ Len(p) = Len(q) + 1
      /\ p[1] = e /\ \A i \in 2..Len(p) : p[i] = q[i - 1]
  OBVIOUS
<1> HIDE DEF p
<1>2. e.key \in CacheKeys
  BY DEF Entries
<1>3. \A i \in 2..Len(p) : i - 1 \in 1..Len(q)
  BY <1>1
<1>4. ASSUME NEW i \in 2..Len(p)
      PROVE  p[i].key \in C /\ p[i].value = l[p[i].key] /\ p[i].key # e.key
             /\ t[p[i].key] = s[p[i].key] \cup {e.key}
  <2>1. p[i].key \in C /\ p[i].value = l[p[i].key]
    BY <1>1, <1>3 DEF Ordered
  <2> QED
    BY <2>1
<1>5. t[e.key] = {}
  OBVIOUS
<1>6. \A i \in 1..Len(p) : i = 1 \/ i \in 2..Len(p)
  BY <1>1
<1>7. ASSUME NEW i \in 1..Len(p)
      PROVE  p[i].key \in D /\ p[i].value = m[p[i].key]
  BY <1>1, <1>4, <1>6
<1>8. ASSUME NEW c \in D PROVE \E i \in 1..Len(p) : p[i].key = c
  <2>1. CASE c = e.key
    <3>1. 1 \in 1..Len(p) /\ p[1].key = c
      BY <1>1, <2>1
    <3> QED
      BY <3>1
  <2>2. CASE c \in C
    <3>1. PICK j \in 1..Len(q) : q[j].key = c
      BY <2>2 DEF Ordered
    <3>2. j + 1 \in 1..Len(p) /\ j + 1 \in 2..Len(p) /\ (j + 1) - 1 = j
      BY <1>1
    <3>3. p[j + 1].key = c
      BY <1>1, <3>1, <3>2
    <3> QED
      BY <3>2, <3>3
  <2> QED
    BY <2>1, <2>2
<1>9. ASSUME NEW i \in 1..Len(p), NEW j \in 1..Len(p), i < j
      PROVE  p[i].key \in t[p[j].key] /\ p[j].key \notin t[p[i].key]
  <2>1. j \in 2..Len(p)
    BY <1>9
  <2>2. CASE i = 1
    BY <1>1, <1>4, <1>5, <2>1, <2>2
  <2>3. CASE i \in 2..Len(p)
    <3>1. i - 1 \in 1..Len(q) /\ j - 1 \in 1..Len(q) /\ i - 1 < j - 1
      BY <1>1, <1>9, <2>1, <2>3
    <3>2. /\ p[i] = q[i - 1] /\ p[j] = q[j - 1]
      BY <1>1, <2>1, <2>3
    <3>3. p[i].key \in s[p[j].key] /\ p[j].key \notin s[p[i].key]
      BY <3>1, <3>2 DEF Ordered
    <3> QED
      BY <1>4, <2>1, <2>3, <3>3
  <2> QED
    BY <1>6, <2>2, <2>3
<1> HIDE DEF D
<1>10. Ordered(p, D, t, m)
  BY <1>7, <1>8, <1>9 DEF Ordered
<1> QED
  BY <1>10 DEF p, D

\* And so they do when an element moves to the front, its key used just now.
LEMMA MoveOrdered ==
    ASSUME NEW q \in Seq(Entries), NEW C \in SUBSET CacheKeys, NEW s, NEW l,
           Ordered(q, C, s, l), \A k \in CacheKeys : k \notin s[k],
           NEW i \in 1..Len(q), NEW e \in Entries, e.key = q[i].key,
           NEW t, t[e.key] = {},
           \A c \in C \ {e.key} : t[c] = s[c] \cup {e.key},
           NEW m, m[e.key] = e.value, \A c \in C \ {e.key} : m[c] = l[c]
    PROVE  Ordered(<<e>> \o RemoveAt(q, i), C, t, m)
PROOF
<1> DEFINE r == RemoveAt(q, i)
           D == C \ {e.key}
<1>1. r \in Seq(Entries)
  BY Removed
<1>2. Ordered(r, D, s, l)
  BY RemoveOrdered
<1>3. D \in SUBSET CacheKeys /\ e.key \notin D /\ D \cup {e.key} = C
  BY DEF Ordered
<1>4. /\ \A c \in D : t[c] = s[c] \cup {e.key}
      /\ \A c \in D : m[c] = l[c]
  OBVIOUS
<1> HIDE DEF r, D
<1>5. Ordered(<<e>> \o r, D \cup {e.key}, t, m)
  BY <1>1, <1>2, <1>3, <1>4, PushOrdered
<1> QED
  BY <1>3, <1>5 DEF r

\* The element that the map has for a key.
LEMMA ElementOf ==
    ASSUME LRUInv, NEW k \in catche
    PROVE  Element(k) \in 1..Len(ll) /\ ll[Element(k)].key = k
PROOF
<1>1. DOMAIN ll = 1..Len(ll)
  BY DEF LRUInv, LRUTypeOK
<1>2. \E i \in DOMAIN ll : ll[i].key = k
  BY <1>1 DEF LRUInv, Ordered
<1> QED
  BY <1>1, <1>2 DEF Element

\* get, and add of a key that is there.
LEMMA MoveKeeps ==
    ASSUME LRUInv, NEW k \in catche, NEW e \in Entries, e.key = k,
           MoveToFront(k, e), Use(k), catche' = catche,
           latest'[k] = e.value, \A c \in catche \ {k} : latest'[c] = latest[c]
    PROVE  /\ ll' \in Seq(Entries)
           /\ Ordered(ll, catche, since, latest)'
           /\ Bytes(ll') = Bytes(ll) - ll[Element(k)].value + e.value
PROOF
<1> DEFINE i == Element(k)
           r == RemoveAt(ll, i)
<1>1. ll \in Seq(Entries) /\ catche \subseteq CacheKeys
  BY DEF LRUInv, LRUTypeOK
<1>2. i \in 1..Len(ll) /\ ll[i].key = k
  BY ElementOf
<1>3. ll' = <<e>> \o r
  BY DEF MoveToFront
<1> HIDE DEF i
<1>4. /\ r \in Seq(Entries) /\ Bytes(r) = Bytes(ll) - Size(ll[i])
      /\ Bytes(ll) \in Int
  BY <1>1, <1>2, Removed, BytesRemoved
<1> HIDE DEF r
<1>6. ll' \in Seq(Entries) /\ Bytes(ll') = Size(e) + Bytes(r)
  BY <1>3, <1>4, BytesPush
<1>7. Ordered(ll', catche, since', latest')
  <2>1. /\ latest'[e.key] = e.value /\ e.key = ll[i].key
        /\ \A c \in catche \ {e.key} : latest'[c] = latest[c]
    BY <1>2
  <2>2. /\ since'[e.key] = {}
        /\ \A c \in catche \ {e.key} : since'[c] = since[c] \cup {e.key}
    BY <1>1 DEF Use
  <2>3. /\ Ordered(ll, catche, since, latest)
        /\ \A c \in CacheKeys : c \notin since[c]
    BY DEF LRUInv, SinceInv
  <2>4. Ordered(<<e>> \o RemoveAt(ll, i), catche, since', latest')
    BY <1>1, <1>2, <2>1, <2>2, <2>3, MoveOrdered
  <2> QED
    BY <1>3, <2>4 DEF r
<1>8. Bytes(ll') = Bytes(ll) - ll[i].value + e.value
  <2>1. ll[i] \in Entries
    BY <1>1, <1>2
  <2>2. /\ KeyLen[k] \in Int /\ e.value \in Int /\ ll[i].value \in Int
    BY <2>1, EntryType
  <2>3. Size(e) = KeyLen[k] + e.value /\ Size(ll[i]) = KeyLen[k] + ll[i].value
    BY <1>2 DEF Size
  <2> QED
    BY <1>4, <1>6, <2>2, <2>3
<1> QED
  BY <1>6, <1>7, <1>8 DEF i

\* The history of use.
LEMMA UseKeeps ==
    ASSUME LRUInv, NEW k \in CacheKeys, Use(k)
    PROVE  /\ since' \in [CacheKeys -> SUBSET CacheKeys]
           /\ SinceInv'
BY DEF LRUInv, LRUTypeOK, SinceInv, Use

LEMMA GetKeepsList ==
    ASSUME LRUInv, NEW k \in CacheKeys, get(k)
    PROVE  LRUInv'
PROOF
<1> DEFINE e == ll[Element(k)]
<1>1. k \in catche /\ Element(k) \in 1..Len(ll) /\ e.key = k
  BY ElementOf DEF get
<1>2. e \in Entries /\ e.value \in Nat /\ e.value = latest[k]
  <2>1. e \in Entries
    BY <1>1 DEF LRUInv, LRUTypeOK
  <2>2. e.value = latest[k]
    BY <1>1 DEF LRUInv, Ordered
  <2> HIDE DEF e
  <2> QED
    BY <2>1, <2>2, EntryType
<1>3. /\ MoveToFront(k, e) /\ Use(k)
      /\ UNCHANGED <<made, catche, nbytes, evicting, latest>>
  BY DEF get
<1>4. latest'[k] = e.value /\ \A c \in catche \ {k} : latest'[c] = latest[c]
  BY <1>2, <1>3
<1>5. /\ ll' \in Seq(Entries) /\ Ordered(ll, catche, since, latest)'
      /\ Bytes(ll') = Bytes(ll) - e.value + e.value
  BY <1>1, <1>2, <1>3, <1>4, MoveKeeps
<1> HIDE DEF e
<1>6. nbytes' = Bytes(ll')
  BY <1>2, <1>3, <1>5 DEF LRUInv, BytesCounted, LRUTypeOK
<1> QED
  BY <1>3, <1>5, <1>6, UseKeeps
     DEF LRUInv, LRUTypeOK, BytesCounted, LimitInv, OverLimit

LEMMA ReplaceKeeps ==
    ASSUME LRUInv, NEW k \in CacheKeys, NEW v \in Sizes, Replace(k, v)
    PROVE  LRUInv'
PROOF
<1> DEFINE e == Entry(k, v)
<1>1. k \in catche /\ Element(k) \in 1..Len(ll)
  BY ElementOf DEF Replace
<1>2. e \in Entries /\ e.key = k /\ e.value = v
  BY DEF Entry, Entries
<1>3. /\ MoveToFront(k, e) /\ Use(k) /\ evicting' = TRUE
      /\ nbytes' = nbytes + v - ll[Element(k)].value
      /\ latest' = [latest EXCEPT ![k] = v]
      /\ UNCHANGED <<made, catche>>
  BY DEF Replace
<1> HIDE DEF e
<1>4. /\ ll' \in Seq(Entries) /\ Ordered(ll, catche, since, latest)'
      /\ Bytes(ll') = Bytes(ll) - ll[Element(k)].value + v
  <2>1. latest'[k] = v /\ \A c \in catche \ {k} : latest'[c] = latest[c]
    BY <1>3 DEF LRUInv, LRUTypeOK
  <2> QED
    BY <1>1, <1>2, <1>3, <2>1, MoveKeeps
<1>5. ll[Element(k)].value \in Int /\ v \in Int
  <2>1. ll[Element(k)] \in Entries
    BY <1>1 DEF LRUInv, LRUTypeOK
  <2> QED
    BY <2>1, EntryType, LRUAssumption
<1>6. nbytes' = Bytes(ll') /\ nbytes' \in Int
  BY <1>3, <1>4, <1>5 DEF LRUInv, BytesCounted, LRUTypeOK
<1>7. latest' \in [CacheKeys -> Sizes \cup {-1}]
  BY <1>3 DEF LRUInv, LRUTypeOK
<1> QED
  BY <1>3, <1>4, <1>6, <1>7, UseKeeps
     DEF LRUInv, LRUTypeOK, BytesCounted, LimitInv

LEMMA InsertKeeps ==
    ASSUME LRUInv, NEW k \in CacheKeys, NEW v \in Sizes, Insert(k, v)
    PROVE  LRUInv'
PROOF
<1> DEFINE e == Entry(k, v)
<1>1. e \in Entries /\ e.key = k /\ e.value = v
  BY DEF Entry, Entries
<1>2. /\ k \notin catche /\ ll' = <<e>> \o ll /\ catche' = catche \cup {k}
      /\ nbytes' = nbytes + KeyLen[k] + v /\ Use(k)
      /\ latest' = [latest EXCEPT ![k] = v]
      /\ made' = TRUE /\ evicting' = TRUE
  BY DEF Insert
<1> HIDE DEF e
<1>3. ll \in Seq(Entries) /\ catche \in SUBSET CacheKeys
  BY DEF LRUInv, LRUTypeOK
<1>4. /\ ll' \in Seq(Entries) /\ Bytes(ll) \in Int
      /\ Bytes(ll') = Size(e) + Bytes(ll)
  BY <1>1, <1>2, <1>3, BytesPush
<1>5. nbytes' = Bytes(ll') /\ nbytes' \in Int
  <2>1. Size(e) = KeyLen[k] + v /\ KeyLen[k] \in Int /\ v \in Int
    BY <1>1, LRUAssumption DEF Size
  <2> QED
    BY <1>2, <1>4, <2>1 DEF LRUInv, BytesCounted
<1>6. latest' \in [CacheKeys -> Sizes \cup {-1}] /\ latest'[k] = v
      /\ \A c \in catche : latest'[c] = latest[c]
  BY <1>2, <1>3 DEF LRUInv, LRUTypeOK
<1>7. Ordered(ll', catche', since', latest')
  <2>1. since'[e.key] = {}
        /\ \A c \in catche : since'[c] = since[c] \cup {e.key}
    BY <1>1, <1>2, <1>3 DEF Use
  <2>2. Ordered(ll, catche, since, latest)
    BY DEF LRUInv
  <2>3. Ordered(<<e>> \o ll, catche \cup {e.key}, since', latest')
    <3>1. e.key \notin catche /\ latest'[e.key] = e.value
      BY <1>1, <1>2, <1>6
    <3> QED
      BY <1>1, <1>3, <1>6, <2>1, <2>2, <3>1, PushOrdered
  <2> QED
    BY <1>1, <1>2, <2>3
<1> QED
  BY <1>2, <1>3, <1>4, <1>5, <1>6, <1>7, UseKeeps
     DEF LRUInv, LRUTypeOK, BytesCounted, LimitInv

\* The loop runs only while there is something to remove.
LEMMA LoopHasBack == LRUInv /\ OverLimit => ll # <<>>
BY BytesEmpty, LRUAssumption DEF LRUInv, BytesCounted, OverLimit

\* An iteration of the loop, in terms of the last element.
LEMMA BackOf ==
    ASSUME LRUInv, RemoveOldest
    PROVE  /\ Len(ll) \in 1..Len(ll)
           /\ ll' = RemoveAt(ll, Len(ll))
           /\ catche' = catche \ {ll[Len(ll)].key}
           /\ nbytes' = nbytes - Size(ll[Len(ll)])
           /\ UNCHANGED <<made, evicting, since, latest>> /\ evicting
PROOF
<1>1. ll \in Seq(Entries) /\ ll # <<>>
  BY LoopHasBack DEF LRUInv, LRUTypeOK, RemoveOldest
<1>2. Len(ll) \in 1..Len(ll) /\ ll[Len(ll)] \in Entries
  BY <1>1
<1>3. Back = <<ll[Len(ll)]>>
  BY <1>1 DEF Back, Last
<1>4. RemoveAt(ll, Len(ll)) = AllButBack
  <2>1. /\ SubSeq(ll, 1, Len(ll) - 1) \in Seq(Entries)
        /\ SubSeq(ll, Len(ll) + 1, Len(ll)) = <<>>
    BY <1>1, <1>2
  <2> QED
    BY <2>1 DEF RemoveAt, AllButBack, Front
<1>5. {e.key : e \in ToSet(Back)} = {ll[Len(ll)].key}
  BY <1>3 DEF ToSet
<1>6. Bytes(Back) = Size(ll[Len(ll)])
  <2> DEFINE b == ll[Len(ll)]
  <2> HIDE DEF b
  <2>1. b \in Entries
    BY <1>2 DEF b
  <2>2. <<>> \in Seq(Entries) /\ <<b>> \o <<>> = <<b>> /\ Size(b) \in Nat
    BY <2>1, SizeType
  <2>3. Bytes(<<b>> \o <<>>) = Size(b) + Bytes(<<>>)
    BY <2>1, <2>2, BytesPush
  <2> QED
    BY <1>3, <2>2, <2>3, BytesEmpty DEF b
<1> QED
  BY <1>2, <1>4, <1>5, <1>6 DEF RemoveOldest

LEMMA RemoveOldestKeeps ==
    ASSUME LRUInv, RemoveOldest
    PROVE  LRUInv'
PROOF
<1> DEFINE n == Len(ll)
<1>1. /\ n \in 1..Len(ll) /\ ll' = RemoveAt(ll, n)
      /\ catche' = catche \ {ll[n].key} /\ nbytes' = nbytes - Size(ll[n])
      /\ UNCHANGED <<made, evicting, since, latest>> /\ evicting
  BY BackOf
<1> HIDE DEF n
<1>2. ll \in Seq(Entries) /\ nbytes = Bytes(ll) /\ catche \subseteq CacheKeys
  BY DEF LRUInv, LRUTypeOK, BytesCounted
<1>3. /\ ll' \in Seq(Entries) /\ nbytes' = Bytes(ll') /\ nbytes' \in Int
  BY <1>1, <1>2, Removed, BytesRemoved
<1>4. Ordered(ll', catche', since, latest)
  BY <1>1, <1>2, RemoveOrdered DEF LRUInv, SinceInv
<1> QED
  BY <1>1, <1>2, <1>3, <1>4
     DEF LRUInv, LRUTypeOK, BytesCounted, LimitInv, SinceInv

LEMMA LRUInvInit == LRUInit => LRUInv
PROOF
<1> SUFFICES ASSUME LRUInit PROVE LRUInv
  OBVIOUS
<1>1. LRUTypeOK /\ SinceInv
  <2>1. ll \in Seq(Entries)
    BY DEF LRUInit
  <2>2. latest \in [CacheKeys -> Sizes \cup {-1}]
    BY DEF LRUInit
  <2>3. since \in [CacheKeys -> SUBSET CacheKeys] /\ SinceInv
    BY DEF LRUInit, SinceInv
  <2>4. made \in BOOLEAN /\ evicting \in BOOLEAN /\ catche \subseteq CacheKeys
    BY DEF LRUInit
  <2>5. nbytes \in Int
    BY DEF LRUInit
  <2> QED
    BY <2>1, <2>2, <2>3, <2>4, <2>5, Zenon DEF LRUTypeOK
<1>2. Ordered(ll, catche, since, latest)
  BY DEF LRUInit, Ordered
<1>3. BytesCounted /\ LimitInv
  BY BytesEmpty, LRUAssumption
     DEF LRUInit, BytesCounted, LimitInv, OverLimit
<1> QED
  BY <1>1, <1>2, <1>3 DEF LRUInv

LEMMA LRUInvNext == LRUInv /\ [LRUNext]_lruVars => LRUInv'
PROOF
<1> SUFFICES ASSUME LRUInv, [LRUNext]_lruVars PROVE LRUInv'
  OBVIOUS
<1>1. CASE AddReturns \/ UNCHANGED lruVars
  BY <1>1 DEF AddReturns, lruVars, LRUInv, LRUTypeOK, SinceInv, Ordered,
              BytesCounted, LimitInv, OverLimit
<1> QED
  BY <1>1, GetKeepsList, ReplaceKeeps, InsertKeeps, RemoveOldestKeeps
     DEF LRUNext

\* Every operation of lru.Cache and every iteration of Add's loop keeps the
\* inductive invariant, types included.
THEOREM LRUInductive == LRUSpec => []LRUInv
PROOF
<1> QED
  BY LRUInvInit, LRUInvNext, PTL DEF LRUSpec

\* The counter that lru.Add and RemoveOldest keep is the size of the contents.
\* The difficult step is the replacement of a value, which adds the difference
\* of two lengths: the list has one element of the key, and only its size
\* changes.
THEOREM CounterIsExact == LRUSpec => []BytesCounted
PROOF
<1>1. LRUInv => BytesCounted
  BY DEF LRUInv
<1> QED
  BY <1>1, LRUInductive, PTL

\* Map and list agree, and the list is the order of use: what Get and Add move
\* to the front is behind nothing that was used before it.
THEOREM ListIsLRU == LRUSpec => []ListIsRecency
PROOF
<1>1. LRUInv => ListIsRecency
  BY OrderedIsRecency DEF LRUInv
<1> QED
  BY <1>1, LRUInductive, PTL

\* Between two operations the contents are within the limit.
WithinLimit == ~evicting /\ MaxBytes # 0 => Bytes(ll) <= MaxBytes

\* When Add has returned, what is cached fits into maxBytes, also when the one
\* value just added does not: then the loop has removed that one, too.
THEOREM LimitIsKept == LRUSpec => []WithinLimit
PROOF
<1>1. LRUInv => WithinLimit
  BY LRUAssumption
     DEF LRUInv, LRUTypeOK, BytesCounted, LimitInv, OverLimit, WithinLimit
<1> QED
  BY <1>1, LRUInductive, PTL

\* A key leaves the cache only over the limit, and whatever stays has been
\* used after it.
EvictsOldest ==
    [][\A k \in catche \ catche' :
          OverLimit /\ \A j \in catche' : j \in since[k]]_lruVars

\* RemoveOldest is the only step that drops a key, it does so only when the
\* limit is exceeded, and it drops the least recently used.
THEOREM OldestGoes == LRUSpec => EvictsOldest
PROOF
<1>1. ASSUME LRUInv, [LRUNext]_lruVars, NEW k \in catche \ catche'
      PROVE  OverLimit /\ \A j \in catche' : j \in since[k]
  <2>1. RemoveOldest
    BY <1>1 DEF LRUNext, get, Replace, Insert, AddReturns, lruVars
  <2>2. /\ Len(ll) \in 1..Len(ll) /\ catche' = catche \ {ll[Len(ll)].key}
    BY <1>1, <2>1, BackOf
  <2>3. k = ll[Len(ll)].key
    BY <1>1, <2>2
  <2>4. ASSUME NEW j \in catche' PROVE j \in since[k]
    <3>1. j \in catche /\ j # k
      BY <2>2, <2>3
    <3>2. PICK i \in 1..Len(ll) : ll[i].key = j
      BY <1>1, <3>1 DEF LRUInv, Ordered
    <3>3. i < Len(ll)
      BY <2>2, <2>3, <3>1, <3>2
    <3> QED
      BY <1>1, <2>2, <2>3, <3>2, <3>3 DEF LRUInv, Ordered
  <2> QED
    BY <2>1, <2>4 DEF RemoveOldest
<1>2. LRUInv /\ [LRUNext]_lruVars =>
          [\A k \in catche \ catche' :
              OverLimit /\ \A j \in catche' : j \in since[k]]_lruVars
  BY <1>1
<1> QED
  BY <1>2, LRUInductive, PTL DEF LRUSpec, EvictsOldest
=============================================================================
