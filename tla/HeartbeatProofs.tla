--------------------------- MODULE HeartbeatProofs ---------------------------
(***************************************************************************)
(* The heartbeats are in time: for every period, timeout and delay of a    *)
(* POST that leave room for two round trips and a period, and any number   *)
(* of servers, the registry never takes a server for expired whose loop is *)
(* running.                                                                *)
(***************************************************************************)
EXTENDS Heartbeat, TLAPS

\* How old the registry's entry of a server can be at each point of the loop:
\* a POST takes at most Delay, the ticker starts after the first answer, and
\* later rounds count from the moment the POST was sent.
AgeInv ==
    \A s \in Servers :
        /\ wire[s] # "no" => elapsed[s] <= Delay
        /\ beat[s] \in {"first", "posting"} /\ wire[s] = "reply" =>
              age[s] <= elapsed[s]
        /\ beat[s] = "wait" => age[s] <= elapsed[s] + Delay
        /\ beat[s] = "posting" /\ wire[s] = "request" =>
              age[s] <= elapsed[s] + Period + Delay

\* The inductive invariant.
IInv == TypeOK /\ AgeInv

LEMMA Constants ==
    /\ Timeout \in Nat /\ MaxAge \in Nat /\ Timeout < MaxAge
    /\ Period \in Nat /\ Delay \in Nat /\ Delay < Period
    /\ Timeout = 0 \/ Period + Delay + Delay < Timeout
BY RegistryAssumption, HeartbeatAssumption

LEMMA InductiveInit == Init => IInv
PROOF
<1> SUFFICES ASSUME Init PROVE IInv
  OBVIOUS
<1>1. RegistryTypeOK
  BY Constants DEF Init, RegistryInit, RegistryTypeOK
<1>2. /\ beat \in [Servers -> Beats]
      /\ wire \in [Servers -> {"no", "request", "reply"}]
      /\ elapsed \in [Servers -> 0..Period]
  BY Constants DEF Init, Beats
<1>3. AgeInv
  BY DEF Init, AgeInv
<1> QED
  BY <1>1, <1>2, <1>3 DEF IInv, TypeOK

LEMMA OlderType ==
    ASSUME NEW bound \in Nat, NEW t \in 0..bound
    PROVE  /\ Older(t, bound) \in 0..bound /\ Older(t, bound) <= t + 1
           /\ t < bound => Older(t, bound) = t + 1
BY DEF Older

LEMMA InductiveNext == IInv /\ [Next]_vars => IInv'
PROOF
<1> SUFFICES ASSUME IInv, [Next]_vars PROVE IInv'
  OBVIOUS
<1>0. /\ servers \subseteq Servers /\ age \in [Servers -> 0..MaxAge]
      /\ beat \in [Servers -> Beats]
      /\ wire \in [Servers -> {"no", "request", "reply"}]
      /\ elapsed \in [Servers -> 0..Period] /\ AgeInv
  BY DEF IInv, TypeOK, RegistryTypeOK
<1> USE Constants DEF Beats, registryVars
<1>1. ASSUME NEW s \in Servers, Heartbeat(s) \/ TickerFires(s)
      PROVE  IInv'
  <2>1. TypeOK'
    BY <1>0, <1>1 DEF Heartbeat, TickerFires, sendHeartbeat, TypeOK,
       RegistryTypeOK
  <2>2. CASE Heartbeat(s)
    BY <1>0, <2>1, <2>2 DEF Heartbeat, sendHeartbeat, IInv, AgeInv
  <2>3. CASE TickerFires(s)
    BY <1>0, <2>1, <2>3 DEF TickerFires, sendHeartbeat, IInv, AgeInv
  <2> QED
    BY <1>1, <2>2, <2>3
<1>2. ASSUME NEW s \in Servers, PostArrives(s)
      PROVE  IInv'
  <2>1. TypeOK'
    BY <1>0, <1>2 DEF PostArrives, ServePost, putServer, TypeOK,
       RegistryTypeOK
  <2> QED
    BY <1>0, <1>2, <2>1 DEF PostArrives, ServePost, putServer, IInv, AgeInv
<1>3. ASSUME NEW s \in Servers, Answered(s)
      PROVE  IInv'
  <2>1. TypeOK'
    BY <1>0, <1>3 DEF Answered, TypeOK, RegistryTypeOK
  <2> QED
    BY <1>0, <1>3, <2>1 DEF Answered, IInv, AgeInv
<1>4. ASSUME NEW s \in Servers, PostFails(s) \/ Crash(s) \/ Lose(s)
      PROVE  IInv'
  <2>1. TypeOK'
    BY <1>0, <1>4 DEF PostFails, Crash, Lose, Abandon, TypeOK, RegistryTypeOK
  <2>2. /\ UNCHANGED <<age, elapsed>>
        /\ \A r \in Servers : wire'[r] \in {"no", wire[r]}
        /\ \A r \in Servers : beat'[r] = beat[r]
                                  \/ beat'[r] \in {"ended", "off"}
    BY <1>0, <1>4 DEF PostFails, Crash, Lose, Abandon
  <2> QED
    BY <1>0, <2>1, <2>2 DEF IInv, AgeInv
<1>5. CASE (ServeOther \/ Restart) /\ UNCHANGED <<beat, wire, elapsed>>
  <2>1. UNCHANGED <<age, beat, wire, elapsed>> /\ servers' \subseteq servers
    BY <1>5 DEF ServeOther, Expire, Alive, Restart
  <2> QED
    BY <1>0, <2>1 DEF IInv, TypeOK, RegistryTypeOK, AgeInv
<1>6. CASE Tick
  <2>1. /\ UNCHANGED <<servers, beat, wire>>
        /\ age' = [s \in Servers |-> Older(age[s], MaxAge)]
        /\ elapsed' = [s \in Servers |-> Older(elapsed[s], Period)]
        /\ \A s \in Servers : /\ wire[s] # "no" => elapsed[s] < Delay
                              /\ beat[s] = "wait" => elapsed[s] < Period
    BY <1>6 DEF Tick, RegistryTick
  <2>2. \A s \in Servers :
            /\ age'[s] \in 0..MaxAge /\ age'[s] <= age[s] + 1
            /\ elapsed'[s] \in 0..Period
            /\ elapsed[s] < Period => elapsed'[s] = elapsed[s] + 1
    BY <1>0, <2>1, OlderType
  <2>3. TypeOK'
    BY <1>0, <2>1, <2>2 DEF TypeOK, RegistryTypeOK
  <2>4. ASSUME NEW s \in Servers
        PROVE  /\ wire[s] # "no" => elapsed'[s] <= Delay
               /\ beat[s] \in {"first", "posting"} /\ wire[s] = "reply" =>
                     age'[s] <= elapsed'[s]
               /\ beat[s] = "wait" => age'[s] <= elapsed'[s] + Delay
               /\ beat[s] = "posting" /\ wire[s] = "request" =>
                     age'[s] <= elapsed'[s] + Period + Delay
    BY <1>0, <2>1, <2>2 DEF AgeInv
  <2> QED
    BY <2>1, <2>3, <2>4 DEF IInv, AgeInv
<1>7. CASE UNCHANGED vars
  BY <1>7 DEF vars, IInv, TypeOK, RegistryTypeOK, AgeInv
<1> QED
  BY <1>1, <1>2, <1>3, <1>4, <1>5, <1>6, <1>7 DEF Next

\* The inductive invariant holds in every state: it bounds the age of every
\* entry by the time its server has been in its round.
THEOREM Inductive == Spec => []IInv
PROOF
<1> QED
  BY InductiveInit, InductiveNext, PTL DEF Spec

\* A server whose heartbeat goes on never expires, whatever the registry and
\* the other servers do.
THEOREM NeverLate == Spec => []BeatsInTime
PROOF
<1>1. IInv => BeatsInTime
  <2> SUFFICES ASSUME IInv, NEW s \in Servers, Beating(s), Timeout # 0
               PROVE  age[s] < Timeout
    BY DEF BeatsInTime
  <2>1. /\ age[s] \in 0..MaxAge /\ elapsed[s] \in 0..Period
        /\ wire[s] \in {"no", "request", "reply"}
    BY DEF IInv, TypeOK, RegistryTypeOK
  <2> QED
    BY <2>1, Constants DEF IInv, AgeInv, Beating
<1> QED
  BY <1>1, Inductive, PTL
=============================================================================
