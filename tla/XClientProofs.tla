---------------------------- MODULE XClientProofs ----------------------------
(***************************************************************************)
(* Theorems about the load-balancing client: whatever calls, broadcasts,   *)
(* broken connections and Close do at the same time, the map holds exactly *)
(* the clients that are not closed, and Broadcast returns its first error  *)
(* when all its goroutines have ended.  They hold for any addresses, any   *)
(* number of callers and of connections.                                   *)
(***************************************************************************)
EXTENDS XClient, FiniteSetTheorems, SequenceTheorems, TLAPS

Unclosed(c) == state[c] \in {"open", "broken"}

\* Every entry of the map is an unclosed client, under one address, and every
\* unclosed client is an entry.
MapInv ==
    /\ \A a \in Addrs : clients[a] # None => Unclosed(clients[a])
    /\ \A a, b \in Addrs : clients[a] = clients[b] /\ clients[a] # None
                               => a = b
    /\ \A c \in Clients : Unclosed(c) => \E a \in Addrs : clients[a] = c

\* Only the goroutine in XDial holds xc.mu, and the map has no client for its
\* address.
DialInv ==
    /\ \A t \in Threads : pc[t] = "xdial" <=> mu = t
    /\ \A t \in Threads : pc[t] \in {"dial", "xdial"} => addr[t] \in Addrs
    /\ mu # None => clients[addr[mu]] = None

\* The goroutines of Broadcast exist between its two ends, and e is the first
\* of their errors.
BroadcastInv ==
    /\ bpc = "idle" => \A a \in Addrs : pc[a] = "idle"
    /\ bpc = "returned" => \A a \in Addrs : pc[a] \in {"idle", "done"}
    /\ e = "discovery" => bpc = "returned"
    /\ \A a \in Addrs : pc[a] = "returned" => err[a] \in {"dial", "context"}
    /\ e # "discovery" => e = IF errors = <<>> THEN None ELSE errors[1]

\* The inductive invariant.
IInv == TypeOK /\ MapInv /\ DialInv /\ BroadcastInv
-----------------------------------------------------------------------------
(* Types                                                                   *)

LEMMA TypeInit == Init => TypeOK
PROOF
<1> SUFFICES ASSUME Init PROVE TypeOK
  OBVIOUS
<1> USE DEF Init
<1>1. /\ clients \in [Addrs -> Clients \cup {None}]
      /\ state \in [Clients -> {"none", "open", "broken", "closed"}]
      /\ addr \in [Threads -> Addrs \cup {None}]
      /\ client \in [Threads -> Clients \cup {None}]
  OBVIOUS
<1>2. /\ pc \in [Threads -> {"idle", "dial", "xdial", "call", "completed",
                              "returned", "done"}]
      /\ err \in [Threads -> {None, "discovery", "dial", "context"}]
      /\ done \in [Callers -> BOOLEAN]
  OBVIOUS
<1>3. mu = None /\ cancelled \in BOOLEAN /\ bpc = "idle" /\ e = None
  OBVIOUS
<1>4. errors \in Seq({"dial", "context"})
  BY EmptySeq
<1> HIDE DEF Init
<1> QED
  BY <1>1, <1>2, <1>3, <1>4 DEF TypeOK

LEMMA TypeNext == IInv /\ [Next]_vars => TypeOK'
PROOF
<1> SUFFICES ASSUME IInv, [Next]_vars PROVE TypeOK'
  OBVIOUS
<1> USE XClientAssumption DEF TypeOK, Step, mapVars, callVars, bcastVars
<1>0. TypeOK /\ DialInv
  BY DEF IInv
<1>1. ASSUME NEW t \in Threads, Goroutine(t)
      PROVE  TypeOK'
  <2>1. CASE DialKnown(t)
    <3>1. addr[t] \in Addrs /\ clients[addr[t]] \in Clients
      BY <1>0, <2>1 DEF DialKnown, DialInv
    <3> QED
      BY <1>0, <2>1, <3>1 DEF DialKnown
  <2>2. CASE DialNew(t)
    BY <1>0, <2>2 DEF DialNew
  <2>3. CASE XDial(t)
    <3>1. PICK c \in Clients :
              /\ state' = [state EXCEPT ![c] = "open"]
              /\ clients' = [clients EXCEPT ![addr[t]] = c]
              /\ client' = [client EXCEPT ![t] = c]
      BY <2>3 DEF XDial
    <3> QED
      BY <1>0, <2>3, <3>1 DEF XDial
  <2>4. CASE XDialFails(t)
    BY <1>0, <2>4 DEF XDialFails
  <2>5. CASE Completed(t)
    BY <1>0, <2>5 DEF Completed
  <2>6. CASE CallReturns(t)
    BY <1>0, <2>6 DEF CallReturns
  <2> QED
    BY <1>1, <2>1, <2>2, <2>3, <2>4, <2>5, <2>6 DEF Goroutine
<1>2. ASSUME NEW t \in Callers, Call(t) \/ ContextDone(t)
      PROVE  TypeOK'
  <2>1. t \in Threads
    BY DEF Threads
  <2>2. CASE ContextDone(t)
    BY <1>0, <2>2 DEF ContextDone
  <2>3. CASE Call(t)
    <3>1. /\ UNCHANGED <<mapVars, bcastVars, client, done>>
          /\ err' = err \/ err' = [err EXCEPT ![t] = "discovery"]
          /\ pc' = [pc EXCEPT ![t] = "dial"]
                \/ pc' = [pc EXCEPT ![t] = "returned"]
      BY <2>3 DEF Call
    <3>2. addr' \in [Threads -> Addrs \cup {None}]
      BY <1>0, <2>1, <2>3 DEF Call
    <3> QED
      BY <1>0, <2>1, <3>1, <3>2
  <2> QED
    BY <1>2, <2>2, <2>3
<1>3. ASSUME NEW a \in Addrs, Merge(a)
      PROVE  TypeOK'
  <2>1. err[a] \in {"dial", "context"}
    BY <1>3 DEF Merge, IInv, BroadcastInv
  <2>2. errors' \in Seq({"dial", "context"})
    BY <1>0, <1>3, <2>1 DEF Merge
  <2> QED
    BY <1>0, <1>3, <2>1, <2>2 DEF Merge, Threads
<1>4. CASE Broadcast
  <2>1. /\ bpc' \in {"wait", "returned"} /\ e' \in {e, "discovery"}
        /\ UNCHANGED <<mapVars, done, cancelled, errors, client, err>>
    BY <1>4 DEF Broadcast
  <2>2. /\ pc' \in [Threads -> {"idle", "dial", "xdial", "call", "completed",
                                "returned", "done"}]
        /\ addr' \in [Threads -> Addrs \cup {None}]
    BY <1>0, <1>4 DEF Broadcast
  <2> QED
    BY <1>0, <2>1, <2>2
<1>5. CASE BroadcastReturns \/ BroadcastContextDone
  BY <1>0, <1>5 DEF BroadcastReturns, BroadcastContextDone
<1>6. CASE Close
  BY <1>0, <1>6 DEF Close
<1>7. ASSUME NEW c \in Clients, Break(c)
      PROVE  TypeOK'
  BY <1>0, <1>7 DEF Break
<1>8. CASE UNCHANGED vars
  BY <1>0, <1>8 DEF vars
<1> QED
  BY <1>1, <1>2, <1>3, <1>4, <1>5, <1>6, <1>7, <1>8 DEF Next
-----------------------------------------------------------------------------
(* The map and the mutex                                                   *)

LEMMA MapNext == IInv /\ [Next]_vars => MapInv'
PROOF
<1> SUFFICES ASSUME IInv, [Next]_vars PROVE MapInv'
  OBVIOUS
<1> USE XClientAssumption DEF Step, mapVars, callVars, bcastVars
<1>0. /\ clients \in [Addrs -> Clients \cup {None}] /\ None \notin Clients
      /\ state \in [Clients -> {"none", "open", "broken", "closed"}]
      /\ MapInv /\ DialInv
  BY DEF IInv, TypeOK, Clients
<1>1. ASSUME NEW t \in Threads, Goroutine(t)
      PROVE  MapInv'
  <2>1. CASE DialKnown(t)
    <3> DEFINE c == clients[addr[t]]
    <3>1. addr[t] \in Addrs /\ c \in Clients /\ c # None
      BY <1>0, <2>1 DEF DialKnown, DialInv
    <3>2. CASE state[c] = "open"
      BY <1>0, <2>1, <3>2 DEF DialKnown, MapInv, Unclosed
    <3>3. CASE state[c] # "open"
      <4>1. /\ state' = [state EXCEPT ![c] = "closed"]
            /\ clients' = [clients EXCEPT ![addr[t]] = None]
        BY <2>1, <3>3 DEF DialKnown
      <4> QED
        BY <1>0, <3>1, <4>1 DEF MapInv, Unclosed
    <3> QED
      BY <3>2, <3>3
  <2>2. CASE DialNew(t) \/ XDialFails(t) \/ Completed(t) \/ CallReturns(t)
    BY <1>0, <2>2 DEF DialNew, XDialFails, Completed, CallReturns, MapInv,
       Unclosed
  <2>3. CASE XDial(t)
    <3>1. PICK c \in Clients :
              /\ state[c] = "none" /\ state' = [state EXCEPT ![c] = "open"]
              /\ clients' = [clients EXCEPT ![addr[t]] = c]
      BY <2>3 DEF XDial
    <3>2. addr[t] \in Addrs /\ clients[addr[t]] = None
      BY <1>0, <2>3 DEF XDial, DialInv, Threads
    <3>3. \A a \in Addrs : clients[a] # c
      BY <1>0, <3>1 DEF MapInv, Unclosed
    <3> QED
      BY <1>0, <3>1, <3>2, <3>3 DEF MapInv, Unclosed
  <2> QED
    BY <1>1, <2>1, <2>2, <2>3 DEF Goroutine
<1>2. CASE Close
  BY <1>0, <1>2 DEF Close, MapInv, Unclosed
<1>3. ASSUME NEW c \in Clients, Break(c)
      PROVE  MapInv'
  BY <1>0, <1>3 DEF Break, MapInv, Unclosed
<1>4. ASSUME UNCHANGED <<clients, state>>
      PROVE  MapInv'
  BY <1>0, <1>4 DEF MapInv, Unclosed
<1> QED
  BY <1>1, <1>2, <1>3, <1>4 DEF Next, vars, Call, ContextDone, Merge,
     Broadcast, BroadcastReturns, BroadcastContextDone

LEMMA DialNext == IInv /\ [Next]_vars => DialInv'
PROOF
<1> SUFFICES ASSUME IInv, [Next]_vars PROVE DialInv'
  OBVIOUS
<1> USE XClientAssumption DEF Step, mapVars, callVars, bcastVars
<1>0. /\ clients \in [Addrs -> Clients \cup {None}] /\ None \notin Threads
      /\ mu \in Threads \cup {None} /\ addr \in [Threads -> Addrs \cup {None}]
      /\ pc \in [Threads -> {"idle", "dial", "xdial", "call", "completed",
                             "returned", "done"}]
      /\ DialInv
  BY DEF IInv, TypeOK, Threads
<1>1. ASSUME NEW t \in Threads, Goroutine(t)
      PROVE  DialInv'
  <2>1. CASE DialKnown(t)
    BY <1>0, <2>1 DEF DialKnown, DialInv
  <2>2. CASE DialNew(t)
    BY <1>0, <2>2 DEF DialNew, DialInv
  <2>3. CASE XDial(t) \/ XDialFails(t)
    <3>1. /\ mu' = None /\ pc' \in {[pc EXCEPT ![t] = "call"],
                                    [pc EXCEPT ![t] = "returned"]}
          /\ pc[t] = "xdial" /\ UNCHANGED addr
      BY <2>3 DEF XDial, XDialFails
    <3>2. mu = t
      BY <1>0, <3>1 DEF DialInv
    <3> QED
      BY <1>0, <3>1, <3>2 DEF DialInv
  <2>4. CASE Completed(t) \/ CallReturns(t)
    BY <1>0, <2>4 DEF Completed, CallReturns, DialInv
  <2> QED
    BY <1>1, <2>1, <2>2, <2>3, <2>4 DEF Goroutine
<1>2. ASSUME NEW t \in Callers, Call(t) \/ ContextDone(t)
      PROVE  DialInv'
  <2>1. t \in Threads
    BY DEF Threads
  <2>2. CASE ContextDone(t)
    BY <1>0, <2>2 DEF ContextDone, DialInv
  <2>3. CASE Call(t)
    BY <1>0, <2>1, <2>3 DEF Call, DialInv
  <2> QED
    BY <1>2, <2>2, <2>3
<1>3. ASSUME NEW a \in Addrs, Merge(a)
      PROVE  DialInv'
  <2>1. a \in Threads
    BY DEF Threads
  <2> QED
    BY <1>0, <1>3, <2>1 DEF Merge, DialInv
<1>4. CASE Broadcast
  <2>1. \A a \in Addrs : pc[a] = "idle" /\ a \in Threads /\ mu # a
    BY <1>0, <1>4 DEF Broadcast, IInv, BroadcastInv, DialInv, Threads
  <2>2. CASE UNCHANGED <<pc, addr>>
    BY <1>0, <1>4, <2>2 DEF Broadcast, DialInv
  <2>3. ASSUME NEW servers \in SUBSET Addrs,
               pc' = [t \in Threads |->
                          IF t \in servers THEN "dial" ELSE pc[t]],
               addr' = [t \in Threads |->
                          IF t \in servers THEN t ELSE addr[t]]
        PROVE  DialInv'
    <3>1. UNCHANGED <<mu, clients>>
      BY <1>4 DEF Broadcast
    <3> QED
      BY <1>0, <2>1, <2>3, <3>1 DEF DialInv
  <2> QED
    BY <1>4, <2>2, <2>3 DEF Broadcast
<1>5. CASE Close
  <2>1. mu = None /\ UNCHANGED <<mu, pc, addr>>
    BY <1>5 DEF Close
  <2> QED
    BY <1>0, <2>1 DEF DialInv
<1>6. ASSUME UNCHANGED <<clients, mu, pc, addr>>
      PROVE  DialInv'
  BY <1>0, <1>6 DEF DialInv
<1> QED
  BY <1>1, <1>2, <1>3, <1>4, <1>5, <1>6 DEF Next, vars,
     BroadcastReturns, BroadcastContextDone, Break
-----------------------------------------------------------------------------
(* Broadcast                                                               *)

LEMMA BroadcastNext == IInv /\ [Next]_vars => BroadcastInv'
PROOF
<1> SUFFICES ASSUME IInv, [Next]_vars PROVE BroadcastInv'
  OBVIOUS
<1> USE XClientAssumption DEF Step, mapVars, callVars, bcastVars
<1>0. /\ pc \in [Threads -> {"idle", "dial", "xdial", "call", "completed",
                             "returned", "done"}]
      /\ err \in [Threads -> {None, "discovery", "dial", "context"}]
      /\ errors \in Seq({"dial", "context"})
      /\ Addrs \subseteq Threads /\ BroadcastInv
  BY DEF IInv, TypeOK, Threads
<1>1. ASSUME NEW t \in Threads, Goroutine(t)
      PROVE  BroadcastInv'
  <2>1. UNCHANGED bcastVars
    BY <1>1 DEF Goroutine, DialKnown, DialNew, XDial, XDialFails, Completed,
       CallReturns
  <2>2. /\ pc[t] \notin {"idle", "returned", "done"}
        /\ \A a \in Addrs \ {t} : pc'[a] = pc[a] /\ err'[a] = err[a]
        /\ pc'[t] \in {"returned", "xdial", "call", "completed"}
        /\ pc'[t] = "returned" => err'[t] \in {"dial", "context"}
    BY <1>0, <1>1 DEF Goroutine, DialKnown, DialNew, XDial, XDialFails,
       Completed, CallReturns
  <2> QED
    BY <1>0, <2>1, <2>2 DEF BroadcastInv
<1>2. ASSUME NEW t \in Callers, Call(t) \/ ContextDone(t)
      PROVE  BroadcastInv'
  <2>1. t \notin Addrs /\ t \in Threads
    BY DEF Threads
  <2>2. /\ UNCHANGED bcastVars
        /\ \A a \in Addrs : pc'[a] = pc[a] /\ err'[a] = err[a]
    BY <1>0, <1>2, <2>1 DEF Call, ContextDone
  <2> QED
    BY <2>2 DEF BroadcastInv, IInv
<1>3. ASSUME NEW a \in Addrs, Merge(a)
      PROVE  BroadcastInv'
  <2>1. /\ pc[a] = "returned" /\ pc' = [pc EXCEPT ![a] = "done"]
        /\ errors' = Append(errors, err[a]) /\ UNCHANGED <<bpc, err>>
        /\ e' = IF e = None THEN err[a] ELSE e
    BY <1>3 DEF Merge
  <2>2. /\ bpc \notin {"idle", "returned"} /\ e # "discovery"
        /\ err[a] \in {"dial", "context"}
    BY <1>0, <2>1 DEF BroadcastInv
  <2>3. e = IF errors = <<>> THEN None ELSE errors[1]
    BY <1>0, <2>2 DEF BroadcastInv
  <2>4. errors # <<>> => errors[1] \in {"dial", "context"}
    BY <1>0
  <2>5. /\ errors' # <<>>
        /\ errors'[1] = IF errors = <<>> THEN err[a] ELSE errors[1]
    BY <1>0, <2>1, <2>2
  <2>6. e' = errors'[1]
    BY <2>1, <2>3, <2>4, <2>5
  <2>7. e' # "discovery"
    BY <2>1, <2>2
  <2> QED
    BY <1>0, <2>1, <2>2, <2>5, <2>6, <2>7 DEF BroadcastInv
<1>4. CASE Broadcast
  <2>1. /\ \A a \in Addrs : pc[a] = "idle" /\ bpc = "idle"
        /\ UNCHANGED <<errors, err>> /\ e # "discovery"
    BY <1>0, <1>4 DEF Broadcast, BroadcastInv
  <2>2. \/ bpc' = "wait" /\ e' = e
           /\ \A a \in Addrs : pc'[a] \in {"idle", "dial"}
        \/ bpc' = "returned" /\ e' = "discovery" /\ pc' = pc
    BY <1>0, <1>4, <2>1 DEF Broadcast
  <2> QED
    BY <1>0, <2>1, <2>2 DEF BroadcastInv
<1>5. CASE BroadcastReturns
  BY <1>0, <1>5 DEF BroadcastReturns, BroadcastInv
<1>6. ASSUME UNCHANGED <<bpc, pc, e, err, errors>>
      PROVE  BroadcastInv'
  BY <1>0, <1>6 DEF BroadcastInv
<1> QED
  BY <1>1, <1>2, <1>3, <1>4, <1>5, <1>6 DEF Next, vars,
     BroadcastContextDone, Break, Close
-----------------------------------------------------------------------------
(* The theorems                                                            *)

LEMMA InductiveInit == Init => IInv
PROOF
<1> SUFFICES ASSUME Init PROVE IInv
  OBVIOUS
<1>1. MapInv /\ DialInv /\ BroadcastInv
  BY XClientAssumption
     DEF Init, MapInv, DialInv, BroadcastInv, Unclosed, Threads, Clients
<1> QED
  BY <1>1, TypeInit DEF IInv

\* The inductive invariant holds in every state of the client.
THEOREM Inductive == Spec => []IInv
PROOF
<1>1. IInv /\ [Next]_vars => IInv'
  BY TypeNext, MapNext, DialNext, BroadcastNext DEF IInv
<1> QED
  BY <1>1, InductiveInit, PTL DEF Spec

\* The map never loses a client that is not closed, never keeps one that is,
\* and never has one twice.
THEOREM MapIsExact == Spec => []CachedIsUnclosed
PROOF
<1>1. IInv => CachedIsUnclosed
  <2> SUFFICES ASSUME IInv, NEW c \in Clients
               PROVE  Cardinality({a \in Addrs : clients[a] = c}) =
                          IF Unclosed(c) THEN 1 ELSE 0
    BY DEF CachedIsUnclosed, Unclosed
  <2>0. c # None /\ MapInv
    BY XClientAssumption DEF IInv, Clients
  <2>1. CASE Unclosed(c)
    <3>1. PICK a \in Addrs : clients[a] = c
      BY <2>0, <2>1 DEF MapInv
    <3>2. {b \in Addrs : clients[b] = c} = {a}
      BY <2>0, <3>1 DEF MapInv
    <3> QED
      BY <2>1, <3>2, FS_Singleton
  <2>2. CASE ~ Unclosed(c)
    <3>1. {b \in Addrs : clients[b] = c} = {}
      BY <2>0, <2>2 DEF MapInv
    <3> QED
      BY <2>2, <3>1, FS_EmptySet
  <2> QED
    BY <2>1, <2>2
<1> QED
  BY <1>1, Inductive, PTL

\* Broadcast leaves no goroutine behind and returns the first error.
THEOREM FirstErrorWins == Spec => []BroadcastKeepsFirst
PROOF
<1>1. IInv => BroadcastKeepsFirst
  BY DEF IInv, TypeOK, BroadcastInv, BroadcastKeepsFirst
<1> QED
  BY <1>1, Inductive, PTL
=============================================================================
