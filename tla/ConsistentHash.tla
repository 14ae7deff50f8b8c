--------------------------- MODULE ConsistentHash ---------------------------
(***************************************************************************)
(* consistenthash.Map (src/geecache/consistenthash/consistenthash.go), as  *)
(* operators on a record of its ring and its map; the hash function, which *)
(* is the same for all rings, is a parameter.  It is a record:             *)
(* hash.node[<<i, p>>] is the hash of the i-th virtual node of p, that of  *)
(* the string strconv.Itoa(i) + p, and hash.key[k] the hash of a key.      *)
(***************************************************************************)
EXTENDS Integers, FiniteSets, SequencesExt

CONSTANT Replicas  \* virtual nodes per peer

\* New(replicas, fn)
New == [keys |-> <<>>, hasMap |-> <<>>]

\* sort.Ints: the i-th is the least element with i elements not above it.
SortInts(s) ==
    [i \in DOMAIN s |->
        Min({h \in ToSet(s) : Cardinality({j \in DOMAIN s : s[j] <= h}) >= i})]

\* Add(keys...): the virtual nodes of every peer in the order given, one in
\* every round of the inner loop, the last one with a hash taking it over
\* from the earlier ones; and the ring is sorted.
Add(hash, m, peers) ==
    LET rounds == 1..(Len(peers) * Replicas)
        Peer(x) == peers[((x - 1) \div Replicas) + 1]
        added == [x \in rounds |-> hash.node[<<(x - 1) % Replicas, Peer(x)>>]]
        keys == m.keys \o added
    IN  [keys |-> SortInts(keys),
         hasMap |-> [h \in ToSet(keys) |->
                        IF h \in ToSet(added)
                        THEN Peer(Max({x \in rounds : added[x] = h}))
                        ELSE m.hasMap[h]]]

\* Faulty variant: a hash that is on the ring is passed over.
MapGetAfter(hash, m, key, none) ==
    LET idx == SelectInSeq(m.keys, LAMBDA h : h > hash.key[key]) IN
    IF m.keys = <<>> THEN none
    ELSE m.hasMap[m.keys[IF idx = 0 THEN 1 ELSE idx]]

\* Get(key): the node of the first hash at or after that of the key, and of
\* the first on the ring if there is none; `none` is the empty string.
MapGet(hash, m, key, none) ==
    LET idx == SelectInSeq(m.keys, LAMBDA h : h >= hash.key[key]) IN
    IF m.keys = <<>> THEN none
    ELSE m.hasMap[m.keys[IF idx = 0 THEN 1 ELSE idx]]
=============================================================================
