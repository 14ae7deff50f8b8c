--------------------------- MODULE DiscoveryProofs ---------------------------
(***************************************************************************)
(* Theorems about the discovery: what Get chooses from is fresh, and round *)
(* robin is fair.  They hold for any number of servers and goroutines, any *)
(* timeouts and any lists of a user.                                       *)
(*                                                                         *)
(* The answers of the registry are sorted, so that refreshes which find    *)
(* the same servers give the same list: that sorting gives what it should  *)
(* is proved first, by induction on the size of the set.                   *)
(***************************************************************************)
EXTENDS Discovery, FiniteSetTheorems, WellFoundedInduction, TLAPS

\* The goroutine holds the lock during its GET.
Fetching(c) == pc[c] \in {"fetch", "fetchAll"}

\* The counters of the mutex, and where goroutines can be for them.
LockInv ==
    /\ \A c \in Callers : Fetching(c) => w = c
    /\ w # NoCaller => Fetching(w) \/ pc[w] = "stuck"
    /\ readers = 0 => /\ permits = 0
                      /\ \A c \in Callers : pc[c] \notin {"rwait", "copy"}
    /\ w # NoCaller /\ Fetching(w) =>
          permits = 0 /\ \A c \in Callers : pc[c] # "copy"

\* How old the heartbeats can be that the list and the answer go back to.
FreshInv ==
    Timeout # 0 =>
        /\ ~ byHand /\ updated < UpdateTimeout =>
              \A s \in ToSet(list) : age[s] + 1 <= Timeout + GetDelay + updated
        /\ get = "reply" =>
              \A s \in ToSet(answer) : age[s] + 1 <= Timeout + getAge

\* Lists of the registry are sorted.
SortInv ==
    /\ IsFiniteSet(servers)
    /\ ~ byHand => list = Sorted(ToSet(list))
    /\ get = "reply" => answer = Sorted(ToSet(answer))

\* Where the server stands on a list of length n that was chosen a turns ago,
\* if now d.index is i.
Before(i, n, a) ==
    LET r == i % n IN IF r >= a THEN r - a + 1 ELSE r - a + n + 1

\* The latest choices, fewer than there are servers, one behind the other.
PicksInv ==
    /\ list = <<>> => picks = <<>>
    /\ list # <<>> =>
          /\ Len(picks) < Len(list)
          /\ \A i \in 1..Len(picks) :
                picks[i] = list[Before(index, Len(list), Len(picks) + 1 - i)]

\* The inductive invariant.
IInv ==
    TypeOK /\ LockInv /\ FreshInv /\ FreshWhenChosen /\ SortInv /\ PicksInv
-----------------------------------------------------------------------------
(* Sorting                                                                 *)

\* A set of natural numbers has a least element.
LEMMA NatMin ==
    ASSUME NEW T \in SUBSET Nat, T # {}
    PROVE  \E x \in T : \A y \in T : x <= y
PROOF
<1> DEFINE R == OpToRel(<, Nat)
<1>1. IsWellFoundedOn(R, Nat)
  BY NatLessThanWellFounded
<1>2. \A a, b \in Nat : <<a, b>> \in R <=> a < b
  BY DEF OpToRel
<1> HIDE DEF R
<1>3. PICK x \in T : \A y \in T : ~ (<<y, x>> \in R)
  BY <1>1, WFMin
<1>4. ASSUME NEW y \in T PROVE x <= y
  <2>1. x \in Nat /\ y \in Nat /\ ~ (y < x)
    BY <1>2, <1>3
  <2> QED
    BY <2>1
<1> QED
  BY <1>4

Ascending(q, S) ==
    /\ q \in [1..Cardinality(S) -> S]
    /\ \A i, j \in 1..Cardinality(S) : i < j => q[i] < q[j]

\* A finite set of numbers can be sorted: in the smallest one that cannot,
\* the least element goes before the others.
LEMMA CanSort ==
    ASSUME NEW S \in SUBSET Nat, IsFiniteSet(S)
    PROVE  \E q : Ascending(q, S)
PROOF
<1> DEFINE Bad == {n \in Nat : \E T \in SUBSET Nat :
                       /\ IsFiniteSet(T) /\ Cardinality(T) = n
                       /\ ~ \E q : Ascending(q, T)}
<1> SUFFICES ASSUME Bad # {} PROVE FALSE
  BY FS_CardinalityType
<1>1. PICK n \in Bad : \A m \in Bad : n <= m
  BY NatMin
<1>2. PICK T \in SUBSET Nat : /\ IsFiniteSet(T) /\ Cardinality(T) = n
                              /\ ~ \E q : Ascending(q, T)
  BY <1>1
<1>3. T # {}
  <2> SUFFICES ASSUME T = {} PROVE FALSE
    OBVIOUS
  <2>1. n = 0
    BY <1>2, FS_EmptySet
  <2>2. Ascending(<<>>, T)
    BY <1>2, <2>1 DEF Ascending
  <2> QED
    BY <1>2, <2>2
<1>4. PICK x \in T : \A y \in T : x <= y
  BY <1>2, <1>3, NatMin
<1>5. IsFiniteSet(T \ {x}) /\ Cardinality(T \ {x}) = n - 1 /\ n \in Nat
  BY <1>1, <1>2, FS_RemoveElement
<1>6. PICK q : Ascending(q, T \ {x})
  BY <1>1, <1>2, <1>4, <1>5, FS_CardinalityType
<1> DEFINE r == [i \in 1..n |-> IF i = 1 THEN x ELSE q[i - 1]]
<1>7. \A i \in 1..n : i # 1 => i - 1 \in 1..(n - 1)
  BY <1>5
<1>8. \A i \in 1..(n - 1) : q[i] \in T /\ q[i] # x /\ q[i] \in Nat /\ x \in Nat
  BY <1>2, <1>5, <1>6 DEF Ascending
<1>9. r \in [1..n -> T]
  BY <1>7, <1>8
<1>10. ASSUME NEW i \in 1..n, NEW j \in 1..n, i < j
       PROVE  r[i] < r[j]
  <2>1. j - 1 \in 1..(n - 1) /\ r[j] = q[j - 1]
    BY <1>5, <1>7, <1>10
  <2>2. CASE i = 1
    BY <1>4, <1>8, <2>1, <2>2
  <2>3. CASE i # 1
    <3>1. i - 1 \in 1..(n - 1) /\ r[i] = q[i - 1] /\ i - 1 < j - 1
      BY <1>5, <1>7, <1>10, <2>3
    <3> QED
      BY <1>5, <1>6, <2>1, <3>1 DEF Ascending
  <2> QED
    BY <2>2, <2>3
<1>11. Ascending(r, T)
  BY <1>2, <1>9, <1>10 DEF Ascending
<1> QED
  BY <1>2, <1>11

\* What sort.Strings returns has the elements it was given.
LEMMA SortedIs ==
    ASSUME NEW S \in SUBSET Nat, IsFiniteSet(S)
    PROVE  Sorted(S) \in Seq(S) /\ ToSet(Sorted(S)) = S
PROOF
<1> DEFINE n == Cardinality(S)
           q == Sorted(S)
<1>1. Ascending(q, S)
  BY CanSort DEF Ascending, Sorted
<1>2. n \in Nat
  BY FS_CardinalityType
<1>3. IsFiniteSet(1..n) /\ Cardinality(1..n) = n
  BY <1>2, FS_Interval
<1> HIDE DEF q
<1>4. \A i, j \in 1..n : q[i] = q[j] => i = j
  <2> SUFFICES ASSUME NEW i \in 1..n, NEW j \in 1..n, q[i] = q[j] PROVE i = j
    OBVIOUS
  <2>1. q[i] \in Nat
    BY <1>1 DEF Ascending
  <2>2. ASSUME NEW a \in 1..n, NEW b \in 1..n, q[a] = q[i], q[b] = q[i]
        PROVE  ~ (a < b)
    BY <1>1, <2>1, <2>2 DEF Ascending
  <2>3. ~ (i < j) /\ ~ (j < i)
    BY <2>2
  <2> QED
    BY <1>2, <2>3
<1>5. q \in Injection(1..n, S)
  BY <1>1, <1>4 DEF Ascending, Injection, IsInjective
<1>6. q \in Surjection(1..n, S)
  BY <1>3, <1>5, FS_Injection
<1>7. q \in [1..n -> S] /\ \A s \in S : \E i \in 1..n : q[i] = s
  BY <1>6 DEF Surjection
<1>8. q \in Seq(S)
  BY <1>2, <1>7
<1>9. ToSet(q) = S
  BY <1>7 DEF ToSet
<1> QED
  BY <1>8, <1>9 DEF q

LEMMA SortedEmpty == Sorted({}) = <<>>
PROOF
<1>1. IsFiniteSet({})
  BY FS_EmptySet
<1>2. Sorted({}) \in Seq({}) 
  BY <1>1, SortedIs
<1> QED
  BY <1>2
-----------------------------------------------------------------------------
(* Types                                                                   *)

LEMMA Constants ==
    /\ Servers \subseteq Nat /\ Timeout \in Nat /\ MaxAge \in Nat
    /\ UpdateTimeout \in Nat /\ UpdateTimeout > 0 /\ GetDelay \in Nat
    /\ Lists \subseteq Seq(Servers) /\ Indices \subseteq Nat
    /\ NoCaller \notin Callers /\ MaxWait \in Nat
    /\ MaxAge + 2 <= Timeout + UpdateTimeout + GetDelay + MaxWait
BY RegistryAssumption, DiscoveryAssumption

LEMMA SeqMonotone ==
    ASSUME NEW S, NEW T, S \subseteq T, NEW q \in Seq(S)
    PROVE  q \in Seq(T)
OBVIOUS

\* What the registry answers with.
LEMMA Answers ==
    ASSUME RegistryTypeOK, IsFiniteSet(servers)
    PROVE  /\ aliveServers \in Seq(Servers) /\ ToSet(aliveServers) = Alive
           /\ IsFiniteSet(Alive) /\ Alive \subseteq servers
PROOF
<1>1. Alive \subseteq servers /\ Alive \in SUBSET Nat /\ Alive \subseteq Servers
  BY Constants DEF Alive, RegistryTypeOK
<1>2. IsFiniteSet(Alive)
  BY <1>1, FS_Subset
<1>3. Sorted(Alive) \in Seq(Alive) /\ ToSet(Sorted(Alive)) = Alive
  BY <1>1, <1>2, SortedIs
<1>4. Sorted(Alive) \in Seq(Servers)
  BY <1>1, <1>3, SeqMonotone
<1> QED
  BY <1>1, <1>2, <1>3, <1>4 DEF aliveServers

LEMMA TypeInit == Init => TypeOK
PROOF
<1> SUFFICES ASSUME Init PROVE TypeOK
  OBVIOUS
<1>1. RegistryTypeOK
  BY Constants DEF Init, RegistryInit, RegistryTypeOK
<1>2. /\ list \in Seq(Servers) /\ answer \in Seq(Servers)
      /\ picks \in Seq(Servers)
  BY DEF Init
<1>3. updated \in 0..UpdateTimeout /\ getAge \in 0..GetDelay /\ index \in Nat
  BY Constants DEF Init
<1>4. pc \in [Callers -> PCs] /\ byHand \in BOOLEAN
  BY DEF Init, PCs
<1>5. waited \in [Callers -> 0..MaxWait]
  <2>1. 0 \in 0..MaxWait
    BY Constants
  <2> QED
    BY <2>1 DEF Init
<1> QED
  BY <1>1, <1>2, <1>3, <1>4, <1>5 DEF Init, TypeOK

\* The registry's own steps.
LEMMA RegistryKeeps ==
    ASSUME RegistryTypeOK, IsFiniteSet(servers), RegistryNext
    PROVE  RegistryTypeOK' /\ IsFiniteSet(servers')
PROOF
<1>1. ASSUME NEW s \in Servers, ServePost(s)
      PROVE  RegistryTypeOK' /\ IsFiniteSet(servers')
  <2>1. servers' = servers \cup {s} /\ age' = [age EXCEPT ![s] = 0]
    BY <1>1 DEF ServePost, putServer
  <2> QED
    BY <2>1, FS_AddElement, Constants DEF RegistryTypeOK
<1>2. CASE ServeOther
  BY <1>2, Answers DEF ServeOther, Expire, RegistryTypeOK
<1>3. CASE Restart
  BY <1>3, FS_EmptySet DEF Restart, RegistryTypeOK
<1> QED
  BY <1>1, <1>2, <1>3 DEF RegistryNext

\* The choice, and the choices that are remembered.
LEMMA ChoiceType ==
    ASSUME TypeOK, list # <<>>
    PROVE  /\ Len(list) \in Nat \ {0}
           /\ index % Len(list) \in 0..(Len(list) - 1)
           /\ (index + 1) % Len(list) \in Nat
           /\ Choice \in Servers
           /\ LastPicks(Append(picks, Choice)) \in Seq(Servers)
PROOF
<1>1. Len(list) \in Nat \ {0} /\ index \in Nat /\ list \in Seq(Servers)
  BY DEF TypeOK
<1>2. /\ index % Len(list) \in 0..(Len(list) - 1)
      /\ (index + 1) % Len(list) \in Nat
  BY <1>1
<1>3. Choice \in Servers
  BY <1>1, <1>2 DEF Choice
<1>4. LastPicks(Append(picks, Choice)) \in Seq(Servers)
  <2>1. Append(picks, Choice) \in Seq(Servers)
    BY <1>3 DEF TypeOK
  <2> QED
    BY <2>1 DEF LastPicks
<1> QED
  BY <1>1, <1>2, <1>3, <1>4

\* A goroutine goes on.
LEMMA GotoType ==
    ASSUME TypeOK, NEW c \in Callers, NEW from, NEW to \in PCs,
           Goto(c, from, to)
    PROVE  /\ pc[c] = from /\ pc'[c] = to
           /\ \A d \in Callers : d # c => pc'[d] = pc[d]
           /\ pc' \in [Callers -> PCs] /\ waited' \in [Callers -> 0..MaxWait]
PROOF
<1>1. /\ pc \in [Callers -> PCs] /\ waited \in [Callers -> 0..MaxWait]
      /\ 0 \in 0..MaxWait
  BY Constants DEF TypeOK
<1> QED
  BY <1>1 DEF Goto

LEMMA TypeNext ==
    TypeOK /\ LockInv /\ SortInv /\ [Next]_vars => TypeOK' /\ IsFiniteSet(servers')
PROOF
<1> SUFFICES ASSUME TypeOK, LockInv, SortInv, [Next]_vars
             PROVE  TypeOK' /\ IsFiniteSet(servers')
  OBVIOUS
<1> USE Constants
    DEF listVars, lockVars, getVars, choiceVars, pcVars, GetOver, PCs
<1>1. CASE RegistryNext /\ UNCHANGED discoveryVars
  BY <1>1, RegistryKeeps DEF TypeOK, SortInv, discoveryVars
<1>2. ASSUME UNCHANGED registryVars
      PROVE  RegistryTypeOK' /\ IsFiniteSet(servers')
  BY <1>2 DEF registryVars, RegistryTypeOK, TypeOK, SortInv
<1>3. ASSUME NEW c \in Callers, UNCHANGED registryVars,
             \/ Enter(c) \/ RefreshNot(c) \/ Refresh(c) \/ GetOther(c)
             \/ RLock(c) \/ RLocked(c)
      PROVE  TypeOK' /\ IsFiniteSet(servers')
  <2>1. CASE Enter(c)
    BY <1>2, <1>3, <2>1, GotoType DEF Enter, TypeOK
  <2>2. CASE RefreshNot(c)
    BY <1>2, <1>3, <2>2, GotoType DEF RefreshNot, Locked, TypeOK
  <2>3. CASE Refresh(c)
    BY <1>2, <1>3, <2>3, GotoType DEF Refresh, Lock, TypeOK
  <2>4. CASE GetOther(c)
    BY <1>2, <1>3, <2>4, GotoType DEF GetOther, Locked, TypeOK
  <2>5. CASE RLock(c)
    BY <1>2, <1>3, <2>5, GotoType DEF RLock, TypeOK
  <2>6. CASE RLocked(c)
    BY <1>2, <1>3, <2>6, GotoType DEF RLocked, TypeOK
  <2> QED
    BY <1>3, <2>1, <2>2, <2>3, <2>4, <2>5, <2>6
<1>4. ASSUME NEW c \in Callers, UNCHANGED registryVars,
             \/ RefreshDone(c) \/ RefreshFails(c) \/ Update(c)
             \/ GetRoundRobin(c)
      PROVE  TypeOK' /\ IsFiniteSet(servers')
  <2>1. CASE RefreshDone(c)
    <3>1. /\ list' = answer /\ updated' = 0 /\ picks' \in {picks, <<>>}
          /\ byHand' = FALSE /\ w' = NoCaller /\ answer' = <<>>
          /\ get' = "no"
      BY <2>1 DEF RefreshDone, SetList, Unlock
    <3>2. picks' \in Seq(Servers) /\ answer' \in Seq(Servers)
      <4>1. <<>> \in Seq(Servers) /\ picks \in Seq(Servers)
        BY DEF TypeOK
      <4> QED
        BY <3>1, <4>1, Zenon
    <3>3. /\ pc' \in [Callers -> PCs] /\ readers' \in Nat /\ permits' \in Nat
          /\ waited' \in [Callers -> 0..MaxWait]
      BY <2>1, GotoType DEF RefreshDone, Unlock, TypeOK
    <3>4. /\ list' \in Seq(Servers) /\ updated' \in 0..UpdateTimeout
          /\ index' = index /\ getAge' \in 0..GetDelay
      BY <2>1, <3>1, GotoType DEF RefreshDone, TypeOK
    <3> QED
      BY <1>2, <1>4, <3>1, <3>2, <3>3, <3>4 DEF TypeOK
  <2>2. CASE RefreshFails(c)
    BY <1>2, <1>4, <2>2, GotoType DEF RefreshFails, Unlock, TypeOK
  <2>3. CASE Update(c)
    <3>1. PICK new \in Lists : SetList(new, TRUE)
      BY <2>3 DEF Update
    <3>2. list' \in Seq(Servers) /\ picks' \in Seq(Servers)
      BY <3>1 DEF SetList, TypeOK
    <3> QED
      BY <1>2, <1>4, <2>3, <3>1, <3>2, GotoType DEF Update, Locked, SetList, TypeOK
  <2>4. CASE GetRoundRobin(c)
    BY <1>2, <1>4, <2>4, ChoiceType, GotoType DEF GetRoundRobin, Locked, TypeOK
  <2> QED
    BY <1>4, <2>1, <2>2, <2>3, <2>4
<1>5. ASSUME NEW c \in Callers, UNCHANGED registryVars,
             GetAll(c) \/ GetAllFatal(c) \/ LockForever(c)
      PROVE  TypeOK' /\ IsFiniteSet(servers')
  <2>1. CASE GetAll(c)
    BY <1>2, <1>5, <2>1, GotoType DEF GetAll, Unlock, TypeOK
  <2>2. CASE GetAllFatal(c)
    BY <1>2, <1>5, <2>2 DEF GetAllFatal, TypeOK
  <2>3. CASE LockForever(c)
    BY <1>2, <1>5, <2>3, GotoType DEF LockForever, TypeOK
  <2> QED
    BY <1>5, <2>1, <2>2, <2>3
<1>6. CASE LoseGet /\ UNCHANGED registryVars
  BY <1>2, <1>6 DEF LoseGet, TypeOK
<1>7. CASE ServeGet
  <2>1. RegistryTypeOK' /\ IsFiniteSet(servers') /\ answer' \in Seq(Servers)
    BY <1>7, Answers DEF ServeGet, Expire, RegistryTypeOK, TypeOK, SortInv
  <2> QED
    BY <1>7, <2>1 DEF ServeGet, TypeOK
<1>8. CASE Tick
  <2>1. RegistryTypeOK' /\ IsFiniteSet(servers')
    BY <1>8 DEF Tick, RegistryTick, Older, RegistryTypeOK, TypeOK, SortInv
  <2> QED
    BY <1>8, <2>1 DEF Tick, Older, TypeOK
<1>9. CASE UNCHANGED vars
  BY <1>2, <1>9 DEF vars, discoveryVars, TypeOK
<1> QED
  BY <1>1, <1>3, <1>4, <1>5, <1>6, <1>7, <1>8, <1>9 DEF Next, Caller
-----------------------------------------------------------------------------
(* The mutex                                                               *)

\* Steps that leave goroutines and mutex alone.
LEMMA LockSame ==
    ASSUME LockInv, UNCHANGED <<pc, w, readers, permits>>
    PROVE  LockInv'
BY DEF LockInv, Fetching

LEMMA LockNext ==
    TypeOK /\ LockInv /\ [Next]_vars => LockInv'
PROOF
<1> SUFFICES ASSUME TypeOK, LockInv, [Next]_vars PROVE LockInv'
  OBVIOUS
<1> USE Constants DEF listVars, lockVars, pcVars, PCs
<1>1. ASSUME NEW c \in Callers,
             \/ Enter(c) \/ RefreshNot(c) \/ Refresh(c) \/ GetOther(c)
             \/ RLock(c) \/ RLocked(c)
      PROVE  LockInv'
  <2>1. CASE Enter(c)
    BY <1>1, <2>1, GotoType DEF Enter, TypeOK, LockInv, Fetching
  <2>2. CASE RefreshNot(c)
    BY <1>1, <2>2, GotoType
       DEF RefreshNot, Locked, TypeOK, LockInv, Fetching
  <2>3. CASE Refresh(c)
    BY <1>1, <2>3, GotoType
       DEF Refresh, Lock, TypeOK, LockInv, Fetching
  <2>4. CASE GetOther(c)
    BY <1>1, <2>4, GotoType
       DEF GetOther, Locked, TypeOK, LockInv, Fetching
  <2>5. CASE RLock(c)
    BY <1>1, <2>5, GotoType DEF RLock, TypeOK, LockInv, Fetching
  <2>6. CASE RLocked(c)
    BY <1>1, <2>6, GotoType DEF RLocked, TypeOK, LockInv, Fetching
  <2> QED
    BY <1>1, <2>1, <2>2, <2>3, <2>4, <2>5, <2>6
<1>2. ASSUME NEW c \in Callers,
             \/ RefreshDone(c) \/ RefreshFails(c) \/ Update(c)
             \/ GetRoundRobin(c)
      PROVE  LockInv'
  <2>1. CASE RefreshDone(c) \/ RefreshFails(c)
    <3>1. /\ w = c /\ w' = NoCaller /\ readers' = readers
          /\ permits' = permits + readers
      BY <2>1 DEF RefreshDone, RefreshFails, Unlock
    <3>2. /\ pc'[c] \in {"choose", "rlock", "idle"}
          /\ \A d \in Callers : d # c => pc'[d] = pc[d]
      BY <1>2, <2>1, GotoType DEF RefreshDone, RefreshFails
    <3>3. \A d \in Callers : ~ Fetching(d)'
      BY <3>1, <3>2 DEF LockInv, Fetching
    <3>4. readers = 0 => permits' = 0
      BY <3>1 DEF LockInv, TypeOK
    <3>5. readers = 0 => \A d \in Callers : pc'[d] \notin {"rwait", "copy"}
      BY <3>2 DEF LockInv
    <3> QED
      BY <3>1, <3>3, <3>4, <3>5 DEF LockInv
  <2>2. CASE Update(c)
    BY <1>2, <2>2, GotoType DEF Update, Locked, TypeOK, LockInv, Fetching
  <2>3. CASE GetRoundRobin(c)
    BY <1>2, <2>3, GotoType DEF GetRoundRobin, Locked, TypeOK, LockInv,
                                Fetching
  <2> QED
    BY <1>2, <2>1, <2>2, <2>3
<1>3. ASSUME NEW c \in Callers, GetAll(c) \/ GetAllFatal(c) \/ LockForever(c)
      PROVE  LockInv'
  <2>1. CASE GetAll(c)
    <3>1. /\ w # NoCaller /\ w' = NoCaller /\ readers' = readers
          /\ permits' = permits + readers
      BY <2>1 DEF GetAll, Unlock
    <3>2. /\ pc[c] = "copy" /\ pc'[c] = "idle"
          /\ \A d \in Callers : d # c => pc'[d] = pc[d]
      BY <1>3, <2>1, GotoType DEF GetAll
    <3>3. readers # 0 /\ \A d \in Callers : ~ Fetching(d)'
      BY <1>3, <3>1, <3>2 DEF LockInv, Fetching
    <3> QED
      BY <3>1, <3>3 DEF LockInv
  <2>2. CASE GetAllFatal(c)
    BY <1>3, <2>2
       DEF GetAllFatal, TypeOK, LockInv, Fetching
  <2>3. CASE LockForever(c)
    BY <1>3, <2>3, GotoType
       DEF LockForever, TypeOK, LockInv, Fetching
  <2> QED
    BY <1>3, <2>1, <2>2, <2>3
<1>4. CASE LoseGet \/ ServeGet \/ Tick
  BY <1>4, LockSame DEF LoseGet, ServeGet, Tick
<1>5. CASE UNCHANGED discoveryVars
  BY <1>5, LockSame DEF discoveryVars
<1> QED
  BY <1>1, <1>2, <1>3, <1>4, <1>5 DEF Next, Caller, vars
-----------------------------------------------------------------------------
(* How fresh the list is                                                   *)

\* Steps that leave ages, list and answer alone.
LEMMA FreshSame ==
    ASSUME FreshInv, UNCHANGED <<age, list, updated, byHand>>,
           get' = "reply" => UNCHANGED <<get, answer, getAge>>
    PROVE  FreshInv'
BY DEF FreshInv

LEMMA ServersOf ==
    TypeOK => ToSet(list) \subseteq Servers /\ ToSet(answer) \subseteq Servers
BY DEF TypeOK, ToSet

LEMMA FreshNext ==
    TypeOK /\ SortInv /\ FreshInv /\ [Next]_vars => FreshInv'
PROOF
<1> SUFFICES ASSUME TypeOK, SortInv, FreshInv, [Next]_vars PROVE FreshInv'
  OBVIOUS
<1> USE Constants DEF listVars, getVars, GetOver
<1>1. CASE RegistryNext /\ UNCHANGED discoveryVars
  <2>1. \A s \in Servers : age'[s] \in {age[s], 0}
    BY <1>1 DEF RegistryNext, ServePost, putServer, ServeOther, Expire,
                Restart, TypeOK, RegistryTypeOK
  <2>2. ToSet(list) \subseteq Servers /\ ToSet(answer) \subseteq Servers
    BY ServersOf
  <2>3. UNCHANGED <<list, updated, byHand, get, answer, getAge>>
    BY <1>1 DEF discoveryVars
  <2>4. /\ \A s \in Servers : age[s] \in Nat
        /\ updated \in Nat /\ getAge \in Nat
    BY DEF TypeOK, RegistryTypeOK
  <2>5. ASSUME Timeout # 0, ~ byHand, updated < UpdateTimeout,
               NEW s \in ToSet(list)
        PROVE  age'[s] + 1 <= Timeout + GetDelay + updated
    <3>1. age[s] + 1 <= Timeout + GetDelay + updated /\ s \in Servers
      BY <2>2, <2>5 DEF FreshInv
    <3> QED
      BY <2>1, <2>4, <2>5, <3>1
  <2>6. ASSUME Timeout # 0, get = "reply", NEW s \in ToSet(answer)
        PROVE  age'[s] + 1 <= Timeout + getAge
    <3>1. age[s] + 1 <= Timeout + getAge /\ s \in Servers
      BY <2>2, <2>6 DEF FreshInv
    <3> QED
      BY <2>1, <2>4, <2>6, <3>1
  <2> QED
    BY <2>3, <2>5, <2>6 DEF FreshInv
<1>2. ASSUME NEW c \in Callers, UNCHANGED registryVars,
             \/ Enter(c) \/ RefreshNot(c) \/ Refresh(c) \/ RefreshFails(c)
             \/ GetRoundRobin(c) \/ GetOther(c) \/ RLock(c) \/ RLocked(c)
             \/ GetAll(c) \/ GetAllFatal(c) \/ LockForever(c)
      PROVE  FreshInv'
  BY <1>2, FreshSame DEF registryVars, Enter, RefreshNot, Refresh,
     RefreshFails, GetRoundRobin, GetOther, RLock, RLocked, GetAll,
     GetAllFatal, LockForever
<1>3. ASSUME NEW c \in Callers, UNCHANGED registryVars, RefreshDone(c)
      PROVE  FreshInv'
  <2>1. /\ list' = answer /\ updated' = 0 /\ get = "reply" /\ get' = "no"
        /\ age' = age
    BY <1>3 DEF RefreshDone, SetList, registryVars
  <2>2. \A s \in ToSet(answer) : s \in Servers /\ age[s] \in Nat
    <3>1. \A s \in Servers : age[s] \in Nat
      BY DEF TypeOK, RegistryTypeOK
    <3> QED
      BY <3>1, ServersOf
  <2>3. ASSUME Timeout # 0, NEW s \in ToSet(answer)
        PROVE  age'[s] + 1 <= Timeout + GetDelay + updated'
    <3>1. age[s] + 1 <= Timeout + getAge
      BY <2>1, <2>3 DEF FreshInv
    <3> QED
      BY <2>1, <2>2, <3>1 DEF TypeOK
  <2>4. ToSet(list)' = ToSet(answer) /\ get' # "reply"
    BY <2>1
  <2> QED
    BY <2>3, <2>4 DEF FreshInv
<1>4. ASSUME NEW c \in Callers, UNCHANGED registryVars, Update(c)
      PROVE  FreshInv'
  BY <1>4 DEF Update, SetList, FreshInv, registryVars
<1>5. CASE LoseGet /\ UNCHANGED registryVars
  BY <1>5, FreshSame DEF LoseGet, registryVars
<1>6. CASE ServeGet
  <2>1. ToSet(answer') = Alive /\ \A s \in Alive : age[s] \in Nat
    BY <1>6, Answers DEF ServeGet, TypeOK, SortInv, RegistryTypeOK, Alive
  <2> QED
    BY <1>6, <2>1 DEF ServeGet, Expire, FreshInv, Alive, TypeOK
<1>7. CASE Tick
  <2>1. /\ UNCHANGED <<list, byHand, get, answer>>
        /\ get = "reply" => getAge' = getAge + 1
        /\ updated' < UpdateTimeout =>
              updated < UpdateTimeout /\ updated' = updated + 1
        /\ \A s \in Servers : age[s] \in Nat /\ age'[s] \in {age[s], age[s] + 1}
    BY <1>7 DEF Tick, RegistryTick, Older, TypeOK, RegistryTypeOK
  <2>2. ToSet(list) \subseteq Servers /\ ToSet(answer) \subseteq Servers
    BY ServersOf
  <2>3. updated \in Nat /\ getAge \in Nat
    BY DEF TypeOK
  <2>4. ASSUME Timeout # 0, ~ byHand, updated' < UpdateTimeout,
               NEW s \in ToSet(list)
        PROVE  age'[s] + 1 <= Timeout + GetDelay + updated'
    <3>1. age[s] + 1 <= Timeout + GetDelay + updated /\ s \in Servers
      BY <2>1, <2>2, <2>4 DEF FreshInv
    <3> QED
      BY <2>1, <2>3, <2>4, <3>1
  <2>5. ASSUME Timeout # 0, get = "reply", NEW s \in ToSet(answer)
        PROVE  age'[s] + 1 <= Timeout + getAge'
    <3>1. age[s] + 1 <= Timeout + getAge /\ s \in Servers
      BY <2>2, <2>5 DEF FreshInv
    <3> QED
      BY <2>1, <2>3, <2>5, <3>1
  <2> QED
    BY <2>1, <2>4, <2>5 DEF FreshInv
<1>8. CASE UNCHANGED vars
  BY <1>8, FreshSame DEF vars, registryVars, discoveryVars
<1> QED
  BY <1>1, <1>2, <1>3, <1>4, <1>5, <1>6, <1>7, <1>8 DEF Next, Caller
\* What a goroutine is to choose from, as long as the list and the place of
\* the goroutine stay.
LEMMA ChooseSame ==
    ASSUME FreshWhenChosen, UNCHANGED <<age, list, byHand>>,
           NEW c \in Callers, pc[c] = "choose", waited'[c] = waited[c],
           ~ byHand', Timeout # 0, NEW s \in ToSet(list')
    PROVE  age'[s] + 2 <= Timeout + UpdateTimeout + GetDelay + waited'[c]
BY DEF FreshWhenChosen

LEMMA ChooseNext ==
    TypeOK /\ FreshInv /\ FreshWhenChosen /\ [Next]_vars => FreshWhenChosen'
PROOF
<1> SUFFICES ASSUME TypeOK, FreshInv, FreshWhenChosen, [Next]_vars,
                    NEW c \in Callers, pc'[c] = "choose", ~ byHand',
                    Timeout # 0, NEW s \in ToSet(list')
             PROVE  age'[s] + 2 <= Timeout + UpdateTimeout + GetDelay + waited'[c]
  BY DEF FreshWhenChosen
<1> USE Constants DEF listVars, pcVars, registryVars
<1>1. /\ \A x \in Servers : age[x] \in Nat /\ age[x] <= MaxAge
      /\ \A d \in Callers : waited[d] \in Nat /\ waited[d] <= MaxWait
      /\ updated \in Nat /\ getAge \in Nat /\ getAge <= GetDelay
  BY DEF TypeOK, RegistryTypeOK
<1>2. CASE RegistryNext /\ UNCHANGED discoveryVars
  <2>1. UNCHANGED <<list, byHand, pc, waited>>
    BY <1>2 DEF discoveryVars
  <2>2. s \in Servers /\ s \in ToSet(list)
    BY <2>1, ServersOf
  <2>3. age'[s] \in {age[s], 0}
    BY <1>2, <2>2 DEF RegistryNext, ServePost, putServer, ServeOther, Expire,
                      Restart, TypeOK, RegistryTypeOK
  <2>4. age[s] + 2 <= Timeout + UpdateTimeout + GetDelay + waited[c]
    BY <2>1, <2>2 DEF FreshWhenChosen
  <2> QED
    BY <1>1, <2>1, <2>2, <2>3, <2>4
<1>3. ASSUME NEW d \in Callers, UNCHANGED registryVars,
             \/ Enter(d) \/ Refresh(d) \/ RefreshFails(d)
             \/ GetRoundRobin(d) \/ GetOther(d) \/ RLock(d) \/ RLocked(d)
             \/ GetAll(d) \/ GetAllFatal(d) \/ LockForever(d)
      PROVE  age'[s] + 2 <= Timeout + UpdateTimeout + GetDelay + waited'[c]
  <2>1. UNCHANGED <<age, list, byHand>>
    BY <1>3 DEF Enter, Refresh, RefreshFails, GetRoundRobin, GetOther,
                RLock, RLocked, GetAll, GetAllFatal, LockForever
  <2>2. pc[c] = "choose" /\ waited'[c] = waited[c]
    BY <1>3 DEF Enter, Refresh, RefreshFails, GetRoundRobin, GetOther,
                RLock, RLocked, GetAll, GetAllFatal, LockForever, Goto, TypeOK
  <2> QED
    BY <2>1, <2>2, ChooseSame
<1>4. ASSUME NEW d \in Callers, UNCHANGED registryVars, RefreshNot(d)
      PROVE  age'[s] + 2 <= Timeout + UpdateTimeout + GetDelay + waited'[c]
  <2>1. UNCHANGED <<age, list, byHand>> /\ updated < UpdateTimeout
    BY <1>4 DEF RefreshNot
  <2>2. CASE c = d
    <3>1. waited'[c] = 0
      BY <1>4, <2>2 DEF RefreshNot, Goto, TypeOK
    <3>2. age[s] + 1 <= Timeout + GetDelay + updated
      BY <2>1 DEF FreshInv
    <3>3. age[s] \in Nat
      <4>1. s \in ToSet(list)
        BY <2>1
      <4>2. s \in Servers
        BY <4>1, ServersOf
      <4> QED
        BY <1>1, <4>2
    <3> QED
      BY <1>1, <2>1, <3>1, <3>2, <3>3
  <2>3. CASE c # d
    <3>1. pc[c] = "choose" /\ waited'[c] = waited[c]
      BY <1>4, <2>3 DEF RefreshNot, Goto, TypeOK
    <3> QED
      BY <2>1, <3>1, ChooseSame
  <2> QED
    BY <2>2, <2>3
<1>5. ASSUME NEW d \in Callers, UNCHANGED registryVars, RefreshDone(d)
      PROVE  age'[s] + 2 <= Timeout + UpdateTimeout + GetDelay + waited'[c]
  <2>1. list' = answer /\ get = "reply" /\ age' = age
    BY <1>5 DEF RefreshDone, SetList
  <2>2. s \in ToSet(answer) /\ s \in Servers
    BY <2>1, ServersOf
  <2>3. age[s] + 1 <= Timeout + getAge
    BY <2>1, <2>2 DEF FreshInv
  <2>4. waited'[c] \in Nat
    <3>1. waited' \in [Callers -> 0..MaxWait]
      BY <1>5, GotoType DEF RefreshDone, PCs
    <3> QED
      BY <3>1
  <2>5. age[s] \in Nat
    BY <1>1, <2>2
  <2>6. age[s] + 2 <= Timeout + UpdateTimeout + GetDelay
    BY <1>1, <2>3, <2>5
  <2> QED
    BY <2>1, <2>4, <2>5, <2>6
<1>6. ASSUME NEW d \in Callers, Update(d) PROVE FALSE
  BY <1>6 DEF Update, SetList
<1>7. CASE (LoseGet /\ UNCHANGED registryVars) \/ ServeGet \/ UNCHANGED vars
  <2>1. UNCHANGED <<age, list, byHand, pc, waited>>
    BY <1>7 DEF LoseGet, ServeGet, Expire, vars, discoveryVars
  <2> QED
    BY <2>1, ChooseSame
<1>8. CASE Tick
  <2>1. UNCHANGED <<list, byHand, pc>>
    BY <1>8 DEF Tick
  <2>2. s \in Servers /\ s \in ToSet(list) /\ pc[c] = "choose"
    BY <2>1, ServersOf
  <2>3. age'[s] = Older(age[s], MaxAge) /\ waited'[c] = Older(waited[c], MaxWait)
    BY <1>8, <2>2 DEF Tick, RegistryTick
  <2>4. age[s] + 2 <= Timeout + UpdateTimeout + GetDelay + waited[c]
    BY <2>1, <2>2 DEF FreshWhenChosen
  <2>5. CASE waited[c] < MaxWait
    <3>1. /\ waited'[c] = waited[c] + 1 /\ age'[s] \in {age[s], age[s] + 1}
          /\ age[s] \in Nat /\ waited[c] \in Nat
      BY <1>1, <2>2, <2>3, <2>5 DEF Older
    <3> QED
      BY <2>4, <3>1
  <2>6. CASE ~ (waited[c] < MaxWait)
    <3>1. waited'[c] = MaxWait /\ age'[s] \in 0..MaxAge
      BY <1>1, <2>2, <2>3, <2>6 DEF Older
    <3> QED
      BY <3>1
  <2> QED
    BY <2>5, <2>6
<1> QED
  BY <1>2, <1>3, <1>4, <1>5, <1>6, <1>7, <1>8 DEF Next, Caller
-----------------------------------------------------------------------------
(* The order of the list, and round robin                                  *)

LEMMA SortSame ==
    ASSUME SortInv, UNCHANGED <<list, byHand>>, IsFiniteSet(servers'),
           get' = "reply" => UNCHANGED <<get, answer>>
    PROVE  SortInv'
BY DEF SortInv

LEMMA PicksSame ==
    ASSUME PicksInv, UNCHANGED <<list, index, picks>>
    PROVE  PicksInv'
BY DEF PicksInv, Before

\* A refresh that finds the same servers finds the same list.
LEMMA PicksRefresh ==
    ASSUME TypeOK, SortInv, PicksInv, NEW c \in Callers, RefreshDone(c)
    PROVE  PicksInv'
PROOF
<1>1. /\ list' = answer /\ index' = index /\ get = "reply"
      /\ picks' = IF ToSet(answer) = ToSet(list) /\ ~ byHand /\ ~ FALSE
                  THEN picks ELSE <<>>
  BY DEF RefreshDone, SetList
<1>2. CASE ToSet(answer) = ToSet(list) /\ ~ byHand
  <2>1. list' = list
    BY <1>1, <1>2 DEF SortInv
  <2> QED
    BY <1>1, <1>2, <2>1, PicksSame
<1>3. CASE ~ (ToSet(answer) = ToSet(list) /\ ~ byHand)
  <2>1. picks' = <<>>
    BY <1>1, <1>3
  <2>2. list' # <<>> => Len(list') \in Nat /\ Len(list') > 0
    BY <1>1 DEF TypeOK
  <2> QED
    BY <2>1, <2>2 DEF PicksInv
<1> QED
  BY <1>2, <1>3

\* Division with remainder is unique.
LEMMA UniqueRemainder ==
    ASSUME NEW n \in Nat \ {0}, NEW p \in Int, NEW q \in Int,
           NEW r \in 0..(n - 1), NEW s \in 0..(n - 1), n * p + r = n * q + s
    PROVE  r = s
PROOF
<1>1. ASSUME NEW a \in Int, NEW b \in Int, a >= b + 1
      PROVE  n * a >= n * b + n
  BY <1>1
<1>2. n * p \in Int /\ n * q \in Int
  OBVIOUS
<1>3. ~ (p >= q + 1)
  BY <1>1, <1>2
<1>4. ~ (q >= p + 1)
  BY <1>1, <1>2
<1>5. p = q
  BY <1>3, <1>4
<1> QED
  BY <1>2, <1>5

\* The remainder of the next number.
LEMMA NextRemainder ==
    ASSUME NEW n \in Nat \ {0}, NEW i \in Nat
    PROVE  /\ i % n \in 0..(n - 1)
           /\ (i + 1) % n = IF i % n = n - 1 THEN 0 ELSE (i % n) + 1
           /\ ((i + 1) % n) % n = (i + 1) % n
PROOF
<1> DEFINE r == i % n
           s == (i + 1) % n
           p == i \div n
           q == (i + 1) \div n
<1>1. i = n * p + r /\ r \in 0..(n - 1) /\ p \in Int
  OBVIOUS
<1>2. i + 1 = n * q + s /\ s \in 0..(n - 1) /\ q \in Int
  OBVIOUS
<1>3. s % n = s
  BY <1>2
<1> HIDE DEF r, s, p, q
<1>4. n * p \in Int /\ n * q \in Int
  BY <1>1, <1>2
<1>5. CASE r = n - 1
  <2>1. n * (p + 1) = n * p + n
    BY <1>1
  <2>2. n * (p + 1) + 0 = n * q + s
    BY <1>1, <1>2, <1>4, <1>5, <2>1
  <2>3. 0 = s
    BY <1>1, <1>2, <2>2, UniqueRemainder
  <2> QED
    BY <1>1, <1>3, <1>5, <2>3 DEF r, s
<1>6. CASE r # n - 1
  <2>1. n * p + (r + 1) = n * q + s /\ r + 1 \in 0..(n - 1)
    BY <1>1, <1>2, <1>4, <1>6
  <2>2. r + 1 = s
    BY <1>1, <1>2, <2>1, UniqueRemainder
  <2> QED
    BY <1>1, <1>3, <1>6, <2>2 DEF r, s
<1> QED
  BY <1>5, <1>6

\* A choice moves the others one turn back.
LEMMA BeforeNext ==
    ASSUME NEW n \in Nat \ {0}, NEW i \in Nat
    PROVE  LET j == (i + 1) % n
           IN  /\ Before(j, n, 1) = (i % n) + 1
               /\ \A a \in 1..(n - 1) : Before(j, n, a + 1) = Before(i, n, a)
PROOF
<1> DEFINE j == (i + 1) % n
           r == i % n
           t == j % n
<1>1. r \in 0..(n - 1) /\ t = IF r = n - 1 THEN 0 ELSE r + 1
  BY NextRemainder
<1>2. /\ Before(j, n, 1) = IF t >= 1 THEN t - 1 + 1 ELSE t - 1 + n + 1
      /\ \A a : /\ Before(i, n, a) = IF r >= a THEN r - a + 1 ELSE r - a + n + 1
                /\ Before(j, n, a + 1) = IF t >= a + 1 THEN t - (a + 1) + 1
                                         ELSE t - (a + 1) + n + 1
  BY DEF Before
<1> HIDE DEF j, r, t
<1>3. Before(j, n, 1) = r + 1
  BY <1>1, <1>2
<1>4. ASSUME NEW a \in 1..(n - 1) PROVE Before(j, n, a + 1) = Before(i, n, a)
  BY <1>1, <1>2
<1> QED
  BY <1>3, <1>4 DEF j, r

LEMMA PicksChoice ==
    ASSUME TypeOK, PicksInv, NEW c \in Callers, GetRoundRobin(c)
    PROVE  PicksInv'
PROOF
<1> DEFINE n == Len(list)
           p == Len(picks)
           q == Append(picks, Choice)
<1>1. /\ list # <<>> /\ list' = list /\ index' = (index + 1) % n
      /\ picks' = LastPicks(q)
  BY DEF GetRoundRobin, listVars
<1>2. /\ n \in Nat \ {0} /\ p \in Nat /\ p < n
      /\ \A i \in 1..p : picks[i] = list[Before(index, n, p + 1 - i)]
  BY <1>1 DEF PicksInv, TypeOK
<1>3. /\ q \in Seq(Servers) /\ Len(q) = p + 1 /\ q[p + 1] = Choice
      /\ \A i \in 1..p : q[i] = picks[i]
  BY <1>1, ChoiceType DEF TypeOK
<1>4. /\ Choice = list[Before(index', n, 1)]
      /\ \A a \in 1..(n - 1) : Before(index', n, a + 1) = Before(index, n, a)
  BY <1>1, <1>2, BeforeNext DEF Choice, TypeOK
<1> HIDE DEF n, p, q
<1>5. \A i \in 1..(p + 1) : q[i] = list[Before(index', n, p + 2 - i)]
  <2> SUFFICES ASSUME NEW i \in 1..(p + 1)
               PROVE  q[i] = list[Before(index', n, p + 2 - i)]
    OBVIOUS
  <2>1. CASE i = p + 1
    <3>1. p + 2 - i = 1
      BY <1>2, <2>1
    <3> QED
      BY <1>3, <1>4, <2>1, <3>1
  <2>2. CASE i # p + 1
    <3>1. i \in 1..p /\ p + 1 - i \in 1..(n - 1) /\ p + 2 - i = (p + 1 - i) + 1
      BY <1>2, <2>2
    <3>2. Before(index', n, p + 2 - i) = Before(index, n, p + 1 - i)
      BY <1>4, <3>1
    <3> QED
      BY <1>2, <1>3, <3>1, <3>2
  <2> QED
    BY <2>1, <2>2
<1>6. CASE p + 1 < n
  <2>1. picks' = q
    BY <1>1, <1>3, <1>6 DEF LastPicks, n
  <2>2. Len(picks') = p + 1
    BY <1>3, <2>1
  <2>3. \A i \in 1..Len(picks') :
            picks'[i] = list[Before(index', n, Len(picks') + 1 - i)]
    <3>1. \A i \in 1..(p + 1) : (p + 1) + 1 - i = p + 2 - i
      BY <1>2
    <3> QED
      BY <1>5, <2>1, <2>2, <3>1
  <2> QED
    BY <1>1, <1>6, <2>2, <2>3 DEF PicksInv, n
<1>7. CASE ~ (p + 1 < n)
  <2>1. p + 1 = n /\ picks' = SubSeq(q, 2, p + 1)
    BY <1>1, <1>2, <1>3, <1>7 DEF LastPicks, n
  <2>2. Len(picks') = p /\ \A i \in 1..p : picks'[i] = q[i + 1]
    BY <1>2, <1>3, <2>1
  <2>3. \A i \in 1..Len(picks') :
            picks'[i] = list[Before(index', n, Len(picks') + 1 - i)]
    <3>1. \A i \in 1..p : i + 1 \in 1..(p + 1) /\ p + 2 - (i + 1) = p + 1 - i
      BY <1>2
    <3> QED
      BY <1>5, <2>2, <3>1
  <2> QED
    BY <1>1, <1>2, <2>2, <2>3 DEF PicksInv, n
<1> QED
  BY <1>6, <1>7

LEMMA OrderNext ==
    ASSUME TypeOK, SortInv, PicksInv, IsFiniteSet(servers'), [Next]_vars
    PROVE  SortInv' /\ PicksInv'
PROOF
<1> USE DEF listVars, getVars, choiceVars, GetOver
<1>1. CASE RegistryNext /\ UNCHANGED discoveryVars
  BY <1>1, SortSame, PicksSame DEF discoveryVars
<1>2. ASSUME NEW c \in Callers,
             \/ Enter(c) \/ RefreshNot(c) \/ Refresh(c) \/ RefreshFails(c)
             \/ GetOther(c) \/ RLock(c) \/ RLocked(c)
             \/ GetAll(c) \/ GetAllFatal(c) \/ LockForever(c)
      PROVE  SortInv' /\ PicksInv'
  BY <1>2, SortSame, PicksSame DEF Enter, RefreshNot, Refresh, RefreshFails,
     GetOther, RLock, RLocked, GetAll, GetAllFatal, LockForever
<1>3. ASSUME NEW c \in Callers, RefreshDone(c)
      PROVE  SortInv' /\ PicksInv'
  <2>1. list' = answer /\ get = "reply" /\ get' = "no"
    BY <1>3 DEF RefreshDone, SetList
  <2> QED
    BY <1>3, <2>1, PicksRefresh DEF SortInv
<1>4. ASSUME NEW c \in Callers, Update(c)
      PROVE  SortInv' /\ PicksInv'
  <2>1. PICK new \in Lists : SetList(new, TRUE)
    BY <1>4 DEF Update
  <2>2. /\ byHand' = TRUE /\ picks' = <<>> /\ list' \in Seq(Servers)
        /\ UNCHANGED <<get, answer>>
    BY <1>4, <2>1, Constants DEF SetList, Update
  <2>3. list' # <<>> => Len(list') \in Nat /\ Len(list') > 0
    BY <2>2
  <2> QED
    BY <2>2, <2>3 DEF SortInv, PicksInv
<1>5. ASSUME NEW c \in Callers, GetRoundRobin(c)
      PROVE  SortInv' /\ PicksInv'
  BY <1>5, SortSame, PicksChoice DEF GetRoundRobin
<1>6. CASE LoseGet \/ Tick
  BY <1>6, SortSame, PicksSame DEF LoseGet, Tick
<1>7. CASE ServeGet
  <2>1. answer' = Sorted(Alive) /\ ToSet(answer') = Alive
    BY <1>7, Answers DEF ServeGet, aliveServers, TypeOK, SortInv
  <2>2. UNCHANGED <<list, byHand, index, picks>>
    BY <1>7 DEF ServeGet
  <2> QED
    BY <2>1, <2>2, PicksSame DEF SortInv
<1>8. CASE UNCHANGED vars
  BY <1>8, SortSame, PicksSame DEF vars, discoveryVars
<1> QED
  BY <1>1, <1>2, <1>3, <1>4, <1>5, <1>6, <1>7, <1>8 DEF Next, Caller
-----------------------------------------------------------------------------
(* The theorems                                                            *)

\* The invariant is established and kept by every step.
THEOREM Inductive == Spec => []IInv
PROOF
<1>1. Init => IInv
  <2> SUFFICES ASSUME Init PROVE IInv
    OBVIOUS
  <2>1. LockInv
    BY DEF Init, LockInv, Fetching
  <2>2. FreshInv /\ FreshWhenChosen
    BY Constants DEF Init, FreshInv, FreshWhenChosen
  <2>3. SortInv /\ PicksInv
    <3>1. list = <<>> /\ picks = <<>> /\ get = "no" /\ servers = {}
      BY DEF Init, RegistryInit
    <3>2. ToSet(list) = {}
      BY <3>1 DEF ToSet
    <3> QED
      BY <3>1, <3>2, SortedEmpty, FS_EmptySet DEF SortInv, PicksInv
  <2> QED
    BY <2>1, <2>2, <2>3, TypeInit DEF IInv
<1>2. IInv /\ [Next]_vars => IInv'
  BY TypeNext, LockNext, FreshNext, ChooseNext, OrderNext DEF IInv
<1> QED
  BY <1>1, <1>2, PTL DEF Spec

\* What a Get chooses from was fresh when its Refresh returned, by registry
\* timeout, refresh interval and one GET together, and has aged since by what
\* the goroutine waited: an Update, refreshes of others, and failed ones, may
\* have come between its own Refresh and its choice (discovery_gee.go).
THEOREM ChosenAreFresh == Spec => []FreshWhenChosen
PROOF
<1>1. IInv => FreshWhenChosen
  BY DEF IInv
<1> QED
  BY <1>1, Inductive, PTL

\* Round robin comes back to a server after all the others: whatever else is
\* chosen, refreshed and updated in between, and for any index it starts from
\* (MultiServersDiscovery.Get, discovery.go).
THEOREM RoundRobinFair == Spec => []RoundRobinIsFair
PROOF
<1>1. IInv => RoundRobinIsFair
  <2> SUFFICES ASSUME IInv, list # <<>>, IsInjective(list),
                      NEW x \in ToSet(picks)
               PROVE  Choice # x
    BY DEF RoundRobinIsFair
  <2> USE DEF IInv
  <2> DEFINE n == Len(list)
             r == index % n
  <2>1. n \in Nat \ {0} /\ r \in 0..(n - 1)
    BY ChoiceType
  <2>2. PICK i \in 1..Len(picks) : x = picks[i]
    BY DEF ToSet, TypeOK
  <2>3. /\ Len(picks) \in Nat /\ Len(picks) < n
        /\ x = list[Before(index, n, Len(picks) + 1 - i)]
    BY <2>2 DEF PicksInv, TypeOK
  <2> DEFINE a == Len(picks) + 1 - i
  <2>4. a \in 1..(n - 1)
    BY <2>1, <2>2, <2>3
  <2>5. Before(index, n, a) = IF r >= a THEN r - a + 1 ELSE r - a + n + 1
    BY DEF Before
  <2> HIDE DEF a, r, n
  <2>6. Before(index, n, a) \in 1..n /\ r + 1 \in 1..n /\ Before(index, n, a) # r + 1
    BY <2>1, <2>4, <2>5
  <2>7. DOMAIN list = 1..n
    BY DEF TypeOK, n
  <2>8. list[r + 1] # list[Before(index, n, a)]
    BY <2>6, <2>7 DEF IsInjective
  <2> QED
    BY <2>3, <2>8 DEF Choice, a, r, n
<1> QED
  BY <1>1, Inductive, PTL
=============================================================================
