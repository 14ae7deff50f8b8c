--------------------------- MODULE RpcClientProofs ---------------------------
(***************************************************************************)
(* Theorems about the client: every Call that registerCall accepts is      *)
(* completed at most once and is never forgotten, terminateCalls completes *)
(* the rest, and nothing is written after it.  They hold for any number of *)
(* calls, channels and answers.  And about Dial (RpcDial): the client it   *)
(* returns is open, and one that failed is not left open.                  *)
(***************************************************************************)
EXTENDS RpcClient, RpcDial, TLAPS

Terminated == recv \in {"terminate", "exit"}

\* The map holds call c under its own number.
InMap(c) == callSeq[c] # 0 /\ pending[callSeq[c]] = c

\* Numbers are handed out once, and the map files a call under its number.
SeqInv ==
    /\ \A c \in Calls : callSeq[c] < seq
    /\ \A c, d \in Calls : callSeq[c] = callSeq[d] /\ callSeq[c] # 0 => c = d
    /\ \A s \in 0..MaxSeq : pending[s] # NoCall =>
          s # 0 /\ callSeq[pending[s]] = s

\* `sending` is held by the one goroutine between registerCall and the end of
\* send, or by terminateCalls; shutdown is set there and nowhere else.
LockInv ==
    /\ \A c \in Calls : pc[c] \in {"write", "failed", "complete"}
                            <=> sending = c
    /\ sending = "receiver" <=> recv = "terminate"
    /\ shutdown <=> Terminated
    /\ Terminated => \A c \in Calls : pc[c] \notin {"write", "failed"}

\* Where a call is tells whether it has a number and who got its channel.
PhaseInv ==
    \A c \in Calls :
        /\ pc[c] \in {"idle", "send"} => callSeq[c] = 0 /\ notified[c] = 0
        /\ pc[c] \in {"write", "failed"} => callSeq[c] # 0
        /\ pc[c] = "complete" => notified[c] = 0 /\ ~InMap(c)
        /\ pc[c] \in {"await", "select"} => c \in Sync
        /\ pc[c] = "select" => notified[c] > 0

\* A Done channel holds only its own, notified calls.
QueueInv ==
    \A ch \in Chans : \A i \in 1..Len(queue[ch]) :
        ChanOf[queue[ch][i]] = ch /\ notified[queue[ch][i]] > 0

\* The receiver holds a call only between removeCall and done(), alone.
HandOffInv ==
    rcall # NoCall =>
        /\ recv \in {"body", "done"}
        /\ callSeq[rcall] # 0 /\ notified[rcall] = 0
        /\ ~InMap(rcall) /\ pc[rcall] # "complete"

\* What is in the map is not notified before terminateCalls; then todo is
\* exactly what is left to notify, and at the end nothing is.
TermInv ==
    /\ ~Terminated => \A c \in Calls : InMap(c) => notified[c] = 0
    /\ recv = "terminate" => \A c \in Calls :
          c \in todo <=> callSeq[c] # 0 /\ notified[c] = 0
    /\ recv = "exit" => \A c \in Calls : callSeq[c] # 0 => notified[c] > 0

\* The inductive invariant.
IInv == /\ TypeOK /\ SeqInv /\ LockInv /\ PhaseInv /\ QueueInv /\ HandOffInv
        /\ TermInv /\ NotifiedOnce /\ NoCallLost
-----------------------------------------------------------------------------
(* Types                                                                   *)

LEMMA AppendType ==
    ASSUME NEW S, NEW q \in Seq(S), NEW e \in S
    PROVE  Append(q, e) \in Seq(S)
OBVIOUS

\* What done() does to the channel and to the count.
LEMMA DoneTypes ==
    ASSUME TypeOK, NEW c \in Calls, done(c)
    PROVE  queue' \in [Chans -> Seq(Calls)] /\ notified' \in [Calls -> Nat]
PROOF
<1>1. queue \in [Chans -> Seq(Calls)] /\ notified \in [Calls -> Nat]
  BY DEF TypeOK
<1>2. ChanOf[c] \in Chans
  BY ClientAssumption
<1>3. Append(queue[ChanOf[c]], c) \in Seq(Calls)
  BY <1>1, <1>2, AppendType
<1> QED
  BY <1>1, <1>2, <1>3 DEF done

LEMMA TypeInit == Init => TypeOK
PROOF
<1> SUFFICES ASSUME Init PROVE TypeOK
  OBVIOUS
<1> USE ClientAssumption DEF Init
<1>1. header \in Headers
  BY DEF Headers, NoHeader
<1>2. seq \in 1..(MaxSeq + 1) /\ answers \in 0..MaxAnswers
  OBVIOUS
<1>3. reqs \in Seq(Requests) /\ resps \in Seq(Headers)
  OBVIOUS
<1>4. queue \in [Chans -> Seq(Calls)]
  OBVIOUS
<1>5. pending \in [0..MaxSeq -> Calls \cup {NoCall}]
  OBVIOUS
<1>6. ctxDone \in [Calls -> BOOLEAN] /\ notified \in [Calls -> Nat]
  OBVIOUS
<1>7. pc \in [Calls -> PCs] /\ callErr \in [Calls -> CallErrs]
      /\ callSeq \in [Calls -> 0..MaxSeq]
  BY DEF PCs, CallErrs
<1>8. recv \in RecvPCs /\ recv # "done" /\ todo \subseteq Calls
  BY DEF RecvPCs
<1>9. /\ sending \in Calls \cup {"free", "receiver"}
      /\ rcall \in Calls \cup {NoCall}
  OBVIOUS
<1>10. closing \in BOOLEAN /\ shutdown \in BOOLEAN /\ rerr \in BOOLEAN
       /\ lclosed \in BOOLEAN /\ rclosed \in BOOLEAN /\ bufErr \in BOOLEAN
  OBVIOUS
<1> HIDE DEF Init
<1> QED
  BY <1>1, <1>2, <1>3, <1>4, <1>5, <1>6, <1>7, <1>8, <1>9, <1>10 DEF TypeOK

\* A step of one call's goroutine, its context or its user keeps the types.
LEMMA TypeCall ==
    ASSUME TypeOK, NEW c \in Calls, Go(c) \/ CallStep(c) \/ CtxExpire(c)
    PROVE  TypeOK'
PROOF
<1> USE ClientAssumption DEF TypeOK, PCs, AfterGo
<1>1. CASE Go(c)
  BY <1>1 DEF Go, callVars, recvVars, wireVars, mapVars
<1>2. CASE SendRegister(c)
  BY <1>2 DEF SendRegister, registerCall, mapVars, callVars, recvVars, wireVars
<1>3. CASE SendRefused(c)
  BY <1>3 DEF SendRefused, CallErrs, mapVars, callVars, recvVars, wireVars
<1>4. CASE WriteDelivered(c)
  BY <1>4 DEF WriteDelivered, Requests, callVars, recvVars, wireVars, mapVars
<1>5. CASE WriteLost(c)
  BY <1>5 DEF WriteLost, callVars, recvVars, wireVars, mapVars
<1>6. CASE WritePanics(c)
  <2> DEFINE r == [seq |-> callSeq[c], whole |-> FALSE]
  <2>0. r \in Requests
    BY DEF Requests
  <2> HIDE DEF r
  <2>a. reqs' \in {reqs, Append(reqs, r)}
    BY <1>6 DEF WritePanics, r
  <2>b. Append(reqs, r) \in Seq(Requests)
    BY <2>0, AppendType
  <2>1. reqs' \in Seq(Requests)
    BY <2>a, <2>b
  <2>2. bufErr' \in BOOLEAN
    BY <1>6 DEF WritePanics
  <2>3. pc' \in [Calls -> PCs]
    BY <1>6 DEF WritePanics
  <2>4. UNCHANGED <<callSeq, callErr, ctxDone, recvVars, mapVars, resps,
                    answers, lclosed, rclosed, queue, notified>>
        /\ sending' = "free"
    BY <1>6 DEF WritePanics
  <2> QED
    BY <2>1, <2>2, <2>3, <2>4 DEF recvVars, mapVars
<1>7. CASE WriteFails(c)
  BY <1>7 DEF WriteFails, callVars, recvVars, wireVars, mapVars
<1>8. CASE SendRemove(c)
  BY <1>8 DEF SendRemove, removeCall, CallErrs, callVars, recvVars, wireVars,
         mapVars
<1>9. CASE SendDone(c)
  BY <1>9 DEF SendDone, done, callVars, recvVars, wireVars, mapVars
<1>10. CASE CallAwait(c)
  <2>1. ChanOf[c] \in Chans
    OBVIOUS
  <2>2. Tail(queue[ChanOf[c]]) \in Seq(Calls)
    BY <1>10, <2>1 DEF CallAwait
  <2>3. queue' \in [Chans -> Seq(Calls)]
    BY <1>10, <2>1, <2>2 DEF CallAwait
  <2> QED
    BY <1>10, <2>3 DEF CallAwait, recvVars, wireVars, mapVars
<1>11. CASE CallSelect(c)
  <2>1. PICK k \in Ready(c) :
          /\ pending' = IF k = "ctx"
                        THEN [pending EXCEPT ![callSeq[c]] = NoCall]
                        ELSE pending
          /\ queue' = IF k = "done"
                      THEN [queue EXCEPT ![ChanOf[c]] = Tail(@)] ELSE queue
    BY <1>11 DEF CallSelect
  <2>2. ChanOf[c] \in Chans /\ callSeq[c] \in 0..MaxSeq
    OBVIOUS
  <2>3. k = "done" => Tail(queue[ChanOf[c]]) \in Seq(Calls)
    BY <2>1, <2>2 DEF Ready
  <2>4. queue' \in [Chans -> Seq(Calls)]
    BY <2>1, <2>2, <2>3
  <2>5. pending' \in [0..MaxSeq -> Calls \cup {NoCall}]
    BY <2>1, <2>2
  <2> QED
    BY <1>11, <2>4, <2>5 DEF CallSelect, recvVars, wireVars
<1>12. CASE CtxExpire(c)
  BY <1>12 DEF CtxExpire, callVars, recvVars, wireVars, mapVars
<1> HIDE DEF TypeOK, PCs, AfterGo
<1>13. QED
  BY <1>1, <1>2, <1>3, <1>4, <1>5, <1>6, <1>7, <1>8, <1>9, <1>10, <1>11,
     <1>12 DEF CallStep

\* A step of the receive goroutine keeps the types.
LEMMA TypeReceive ==
    ASSUME TypeOK, Receive
    PROVE  TypeOK'
PROOF
<1> USE ClientAssumption DEF TypeOK, RecvPCs
<1>1. CASE ReadHeader
  <2>1. Head(resps) \in Headers /\ Tail(resps) \in Seq(Headers)
    BY <1>1 DEF ReadHeader
  <2> QED
    BY <1>1, <2>1 DEF ReadHeader, callVars, mapVars
<1>2. CASE ReadHeaderFails
  BY <1>2 DEF ReadHeaderFails, callVars, wireVars, mapVars
<1>3. CASE RecvRemove
  <2>1. header.seq \in 0..MaxSeq
    BY DEF Headers
  <2> QED
    BY <1>3, <2>1 DEF RecvRemove, removeCall, callVars, wireVars
<1>4. CASE ReadBody
  <2>1. NoHeader \in Headers
    BY DEF NoHeader, Headers
  <2>2. callErr' \in [Calls -> CallErrs]
    BY <1>4 DEF ReadBody, CallErrs
  <2>3. rerr' \in BOOLEAN
    BY <1>4 DEF ReadBody, BodyFails
  <2>4. recv' \in RecvPCs /\ (recv' = "done" => rcall' # NoCall)
    BY <1>4 DEF ReadBody
  <2> QED
    BY <1>4, <2>1, <2>2, <2>3, <2>4 DEF ReadBody, wireVars, mapVars
<1>5. CASE RecvDone
  <2>1. rcall \in Calls
    BY <1>5 DEF RecvDone
  <2>2. queue' \in [Chans -> Seq(Calls)] /\ notified' \in [Calls -> Nat]
    BY <1>5, <2>1, DoneTypes DEF RecvDone
  <2> QED
    BY <1>5, <2>2 DEF RecvDone, callVars, wireVars, mapVars
<1>6. CASE terminateCalls
  BY <1>6 DEF terminateCalls, Registered, callVars, wireVars
<1>7. CASE \E c \in Calls : TerminateOne(c)
  <2>1. PICK c \in Calls : TerminateOne(c)
    BY <1>7
  <2>2. queue' \in [Chans -> Seq(Calls)] /\ notified' \in [Calls -> Nat]
    BY <2>1, DoneTypes DEF TerminateOne
  <2>3. callErr' \in [Calls -> CallErrs]
    BY <2>1 DEF TerminateOne, CallErrs
  <2> QED
    BY <2>1, <2>2, <2>3 DEF TerminateOne, wireVars, mapVars
<1>8. CASE TerminateEnd
  BY <1>8 DEF TerminateEnd, callVars, wireVars, mapVars
<1> HIDE DEF TypeOK, RecvPCs
<1> QED
  BY <1>1, <1>2, <1>3, <1>4, <1>5, <1>6, <1>7, <1>8 DEF Receive

\* A step of a user outside Go, or of the peer, keeps the types.
LEMMA TypeOthers ==
    ASSUME TypeOK,
           \/ \E ch \in Chans : Collect(ch)
           \/ Close
           \/ \E r \in Answers : PeerAnswer(r)
           \/ PeerClose
    PROVE  TypeOK'
PROOF
<1> USE ClientAssumption DEF TypeOK
<1>1. CASE \E ch \in Chans : Collect(ch)
  <2>1. PICK ch \in Chans : Collect(ch)
    BY <1>1
  <2>2. Tail(queue[ch]) \in Seq(Calls)
    BY <2>1 DEF Collect
  <2>3. queue' \in [Chans -> Seq(Calls)]
    BY <2>1, <2>2 DEF Collect
  <2> QED
    BY <2>1, <2>3 DEF Collect, callVars, recvVars, wireVars, mapVars
<1>2. CASE Close
  BY <1>2 DEF Close, callVars, recvVars
<1>3. CASE \E r \in Answers : PeerAnswer(r)
  <2>1. PICK r \in Answers : PeerAnswer(r)
    BY <1>3
  <2>2. r \in Headers
    OBVIOUS
  <2>3. resps' \in Seq(Headers)
    BY <2>1, <2>2, AppendType DEF PeerAnswer
  <2> QED
    BY <2>1, <2>3 DEF PeerAnswer, callVars, recvVars, mapVars
<1>4. CASE PeerClose
  BY <1>4 DEF PeerClose, callVars, recvVars, mapVars
<1> HIDE DEF TypeOK
<1> QED
  BY <1>1, <1>2, <1>3, <1>4

LEMMA TypeStep == TypeOK /\ [Next]_vars => TypeOK'
PROOF
<1> SUFFICES ASSUME TypeOK, [Next]_vars PROVE TypeOK'
  OBVIOUS
<1>1. CASE UNCHANGED vars
  BY <1>1 DEF TypeOK, vars, callVars, recvVars, wireVars, mapVars
<1>2. CASE Next
  BY <1>2, TypeCall, TypeReceive, TypeOthers DEF Next
<1> QED
  BY <1>1, <1>2

\* Every reachable state is well typed: in particular a registered call's
\* number indexes pending and the receiver completes only real calls.
THEOREM TypeCorrect == Spec => []TypeOK
PROOF
<1>1. Init => TypeOK
  BY TypeInit
<1>2. TypeOK /\ [Next]_vars => TypeOK'
  BY TypeStep
<1> QED
  BY <1>1, <1>2, PTL DEF Spec
-----------------------------------------------------------------------------
(* Completion                                                              *)

\* Facts about sequences: where the elements of a longer, of a shorter and
\* of a nonempty sequence are.
LEMMA AppendAt ==
    ASSUME NEW S, NEW q \in Seq(S), NEW e \in S, NEW i \in 1..Len(Append(q, e))
    PROVE  IF i <= Len(q) THEN i \in 1..Len(q) /\ Append(q, e)[i] = q[i]
                          ELSE Append(q, e)[i] = e
OBVIOUS

LEMMA TailAt ==
    ASSUME NEW S, NEW q \in Seq(S), q # <<>>, NEW i \in 1..Len(Tail(q))
    PROVE  i + 1 \in 1..Len(q) /\ Tail(q)[i] = q[i + 1]
OBVIOUS

LEMMA NonEmpty ==
    ASSUME NEW S, NEW q \in Seq(S), q # <<>>
    PROVE  1 \in 1..Len(q) /\ q[1] \in S
OBVIOUS

\* done() puts a call into its own channel and counts it.
LEMMA DoneQueue ==
    ASSUME TypeOK, QueueInv, NEW c \in Calls, done(c)
    PROVE  QueueInv'
PROOF
<1>1. ChanOf[c] \in Chans /\ queue[ChanOf[c]] \in Seq(Calls)
  BY ClientAssumption DEF TypeOK
<1> SUFFICES ASSUME NEW ch \in Chans, NEW i \in 1..Len(queue'[ch])
             PROVE  ChanOf[queue'[ch][i]] = ch /\ notified'[queue'[ch][i]] > 0
  BY DEF QueueInv
<1>2. queue'[ch] = IF ch = ChanOf[c] THEN Append(queue[ch], c) ELSE queue[ch]
  BY <1>1 DEF done, TypeOK
<1>3. /\ queue[ch] \in Seq(Calls) /\ notified \in [Calls -> Nat]
      /\ notified' = [notified EXCEPT ![c] = @ + 1]
  BY DEF TypeOK, done
<1>4. CASE ch # ChanOf[c] \/ i <= Len(queue[ch])
  <2>1. i \in 1..Len(queue[ch]) /\ queue'[ch][i] = queue[ch][i]
    BY <1>2, <1>3, <1>4, AppendAt
  <2>2. queue[ch][i] \in Calls
    BY <1>3, <2>1
  <2>3. notified'[queue[ch][i]] >= notified[queue[ch][i]]
    BY <1>3, <2>2
  <2>4. notified[queue[ch][i]] > 0 /\ ChanOf[queue[ch][i]] = ch
    BY <2>1 DEF QueueInv
  <2>5. notified[queue[ch][i]] \in Nat /\ notified'[queue[ch][i]] \in Nat
    BY <1>3, <2>2
  <2> QED
    BY <2>1, <2>3, <2>4, <2>5
<1>5. CASE ch = ChanOf[c] /\ ~(i <= Len(queue[ch]))
  <2>1. queue'[ch][i] = c
    BY <1>2, <1>3, <1>5, AppendAt
  <2> QED
    BY <1>3, <1>5, <2>1
<1> QED
  BY <1>4, <1>5

\* Receiving from a channel leaves the rest of it as it was.
LEMMA PopQueue ==
    ASSUME TypeOK, QueueInv, UNCHANGED notified,
           NEW ch \in Chans, queue[ch] # <<>>,
           queue' = [queue EXCEPT ![ch] = Tail(@)]
    PROVE  QueueInv'
PROOF
<1> SUFFICES ASSUME NEW h \in Chans, NEW i \in 1..Len(queue'[h])
             PROVE  ChanOf[queue'[h][i]] = h /\ notified'[queue'[h][i]] > 0
  BY DEF QueueInv
<1>1. CASE h # ch
  BY <1>1 DEF QueueInv, TypeOK
<1>2. CASE h = ch
  <2>1. queue[ch] \in Seq(Calls) /\ queue'[h] = Tail(queue[ch])
    BY <1>2 DEF TypeOK
  <2>2. i + 1 \in 1..Len(queue[ch]) /\ queue'[h][i] = queue[ch][i + 1]
    BY <2>1, TailAt
  <2> QED
    BY <1>2, <2>2 DEF QueueInv
<1> QED
  BY <1>1, <1>2

\* Go: the call has no number yet.
LEMMA GoKeeps ==
    ASSUME IInv, TypeOK', NEW c \in Calls, Go(c)
    PROVE  IInv'
PROOF
<1> USE ClientAssumption DEF IInv
<1>1. SeqInv'
  BY DEF Go, mapVars, SeqInv, LockInv
<1>2. LockInv'
  BY DEF Go, recvVars, mapVars, LockInv, Terminated
<1>3. PhaseInv'
  BY DEF Go, mapVars, PhaseInv, InMap
<1>4. QueueInv'
  BY DEF Go, QueueInv
<1>5. HandOffInv'
  BY DEF Go, recvVars, mapVars, HandOffInv, InMap
<1>6. TermInv'
  BY DEF Go, recvVars, mapVars, TermInv, InMap, Terminated
<1>7. NotifiedOnce'
  BY DEF Go, NotifiedOnce
<1>8. NoCallLost'
  BY DEF Go, recvVars, mapVars, NoCallLost
<1> QED
  BY <1>1, <1>2, <1>3, <1>4, <1>5, <1>6, <1>7, <1>8

\* registerCall files the call under a fresh number.
LEMMA RegisterKeeps ==
    ASSUME IInv, TypeOK', NEW c \in Calls, SendRegister(c)
    PROVE  IInv'
PROOF
<1> USE ClientAssumption DEF IInv
<1>1. SeqInv'
  BY DEF TypeOK, SendRegister, registerCall, wireVars, SeqInv, PhaseInv
<1>2. LockInv'
  BY DEF TypeOK, SendRegister, registerCall, recvVars, LockInv, Terminated
<1>3. PhaseInv'
  BY DEF TypeOK, SendRegister, registerCall, PhaseInv, InMap
<1>4. QueueInv'
  BY DEF SendRegister, registerCall, QueueInv
<1>5. HandOffInv'
  BY DEF SendRegister, registerCall, recvVars, HandOffInv, InMap, PhaseInv
<1>6. TermInv'
  BY DEF SendRegister, registerCall, recvVars, TermInv, InMap, Terminated,
         LockInv, PhaseInv
<1>7. NotifiedOnce'
  BY DEF SendRegister, NotifiedOnce
<1>8. NoCallLost'
  <2>1. callSeq'[c] = seq /\ pending'[seq] = c
    BY DEF TypeOK, SendRegister, registerCall
  <2>2. \A d \in Calls : d # c =>
          /\ callSeq'[d] = callSeq[d] /\ pc'[d] = pc[d]
          /\ pending'[callSeq[d]] = pending[callSeq[d]]
    BY DEF TypeOK, SendRegister, registerCall, SeqInv
  <2>3. notified' = notified /\ rcall' = rcall
    BY DEF SendRegister, recvVars
  <2> QED
    BY <2>1, <2>2, <2>3 DEF NoCallLost
<1> QED
  BY <1>1, <1>2, <1>3, <1>4, <1>5, <1>6, <1>7, <1>8

\* A refused call has no number.
LEMMA RefusedKeeps ==
    ASSUME IInv, TypeOK', NEW c \in Calls, SendRefused(c)
    PROVE  IInv'
PROOF
<1> USE ClientAssumption DEF IInv
<1>1. SeqInv'
  BY DEF SendRefused, mapVars, SeqInv
<1>2. LockInv'
  BY DEF TypeOK, SendRefused, recvVars, mapVars, LockInv, Terminated
<1>3. PhaseInv'
  BY DEF SendRefused, mapVars, PhaseInv, InMap
<1>4. QueueInv'
  BY DEF SendRefused, QueueInv
<1>5. HandOffInv'
  BY DEF SendRefused, recvVars, mapVars, HandOffInv, InMap, PhaseInv
<1>6. TermInv'
  BY DEF SendRefused, recvVars, mapVars, TermInv, InMap, Terminated
<1>7. NotifiedOnce'
  BY DEF SendRefused, NotifiedOnce
<1>8. NoCallLost'
  BY DEF SendRefused, recvVars, mapVars, NoCallLost
<1> QED
  BY <1>1, <1>2, <1>3, <1>4, <1>5, <1>6, <1>7, <1>8

\* However Write ends without reporting an error, only `sending` is released.
LEMMA WriteKeeps ==
    ASSUME IInv, TypeOK', NEW c \in Calls,
           NEW x \in {"returned", "await", "panicked"},
           x = "await" => c \in Sync,
           pc[c] = "write", pc' = [pc EXCEPT ![c] = x], sending' = "free",
           UNCHANGED <<callSeq, recvVars, mapVars, queue, notified>>
    PROVE  IInv'
PROOF
<1> USE ClientAssumption DEF IInv
<1>1. SeqInv'
  BY DEF mapVars, SeqInv
<1>2. LockInv'
  BY DEF TypeOK, recvVars, mapVars, LockInv, Terminated
<1>3. PhaseInv'
  BY DEF mapVars, PhaseInv, InMap
<1>4. QueueInv'
  BY DEF QueueInv
<1>5. HandOffInv'
  BY DEF recvVars, mapVars, HandOffInv, InMap
<1>6. TermInv'
  BY DEF recvVars, mapVars, TermInv, InMap, Terminated
<1>7. NotifiedOnce'
  BY DEF NotifiedOnce
<1>8. NoCallLost'
  BY DEF recvVars, mapVars, NoCallLost
<1> QED
  BY <1>1, <1>2, <1>3, <1>4, <1>5, <1>6, <1>7, <1>8

\* A write error leaves the call where it is.
LEMMA WriteFailsKeeps ==
    ASSUME IInv, TypeOK', NEW c \in Calls, WriteFails(c)
    PROVE  IInv'
PROOF
<1> USE ClientAssumption DEF IInv
<1>1. SeqInv'
  BY DEF WriteFails, mapVars, SeqInv
<1>2. LockInv'
  BY DEF WriteFails, recvVars, mapVars, LockInv, Terminated
<1>3. PhaseInv'
  BY DEF WriteFails, mapVars, PhaseInv, InMap
<1>4. QueueInv'
  BY DEF WriteFails, QueueInv
<1>5. HandOffInv'
  BY DEF WriteFails, recvVars, mapVars, HandOffInv, InMap
<1>6. TermInv'
  BY DEF WriteFails, recvVars, mapVars, TermInv, InMap, Terminated
<1>7. NotifiedOnce'
  BY DEF WriteFails, NotifiedOnce
<1>8. NoCallLost'
  BY DEF WriteFails, recvVars, mapVars, NoCallLost
<1> QED
  BY <1>1, <1>2, <1>3, <1>4, <1>5, <1>6, <1>7, <1>8

\* send takes back the call it could not write, unless the receiver has it.
LEMMA RemoveKeeps ==
    ASSUME IInv, TypeOK', NEW c \in Calls, SendRemove(c)
    PROVE  IInv'
PROOF
<1> USE ClientAssumption DEF IInv
<1>1. SeqInv'
  BY DEF SendRemove, removeCall, SeqInv
<1>2. LockInv'
  BY DEF TypeOK, SendRemove, removeCall, AfterGo, recvVars, LockInv,
         Terminated, SeqInv, PhaseInv
<1>3. PhaseInv'
  BY DEF TypeOK, SendRemove, removeCall, AfterGo, PhaseInv, InMap, SeqInv,
         LockInv, TermInv
<1>4. QueueInv'
  BY DEF SendRemove, QueueInv
<1>5. HandOffInv'
  <2> SUFFICES ASSUME rcall # NoCall
               PROVE  /\ recv \in {"body", "done"}
                      /\ callSeq[rcall] # 0 /\ notified[rcall] = 0
                      /\ ~InMap(rcall)' /\ pc'[rcall] # "complete"
    BY DEF SendRemove, recvVars, HandOffInv
  <2>1. /\ recv \in {"body", "done"} /\ rcall \in Calls
        /\ callSeq[rcall] # 0 /\ notified[rcall] = 0
        /\ ~InMap(rcall) /\ pc[rcall] # "complete"
    BY DEF TypeOK, HandOffInv
  <2>2. ~InMap(rcall)'
    BY <2>1 DEF TypeOK, SendRemove, removeCall, recvVars, InMap
  <2>3. pc'[rcall] # "complete"
    BY <2>1 DEF TypeOK, SendRemove, AfterGo, InMap, SeqInv
  <2> QED
    BY <2>1, <2>2, <2>3
<1>6. TermInv'
  BY DEF SendRemove, removeCall, recvVars, TermInv, InMap, Terminated
<1>7. NotifiedOnce'
  BY DEF SendRemove, NotifiedOnce
<1>8. NoCallLost'
  BY DEF TypeOK, SendRemove, removeCall, recvVars, NoCallLost, SeqInv
<1> QED
  BY <1>1, <1>2, <1>3, <1>4, <1>5, <1>6, <1>7, <1>8

\* send completes its own call.
LEMMA SendDoneKeeps ==
    ASSUME IInv, TypeOK', NEW c \in Calls, SendDone(c)
    PROVE  IInv'
PROOF
<1> USE ClientAssumption DEF IInv
<1>1. SeqInv'
  BY DEF SendDone, mapVars, SeqInv
<1>2. LockInv'
  BY DEF TypeOK, SendDone, AfterGo, recvVars, wireVars, mapVars, LockInv,
         Terminated
<1>3. PhaseInv'
  BY DEF TypeOK, SendDone, done, AfterGo, mapVars, PhaseInv, InMap
<1>4. QueueInv'
  BY DoneQueue DEF SendDone
<1>5. HandOffInv'
  BY DEF SendDone, done, recvVars, mapVars, HandOffInv, InMap
<1>6. TermInv'
  BY DEF SendDone, done, AfterGo, recvVars, mapVars, TermInv, InMap,
         Terminated, LockInv, PhaseInv
<1>7. NotifiedOnce'
  BY DEF SendDone, done, NotifiedOnce, PhaseInv
<1>8. NoCallLost'
  BY DEF TypeOK, SendDone, done, callVars, recvVars, mapVars, NoCallLost
<1> QED
  BY <1>1, <1>2, <1>3, <1>4, <1>5, <1>6, <1>7, <1>8

\* Call's channel is its own, so what it receives is its own completion.
LEMMA AwaitKeeps ==
    ASSUME IInv, TypeOK', NEW c \in Calls, CallAwait(c)
    PROVE  IInv'
PROOF
<1> USE ClientAssumption DEF IInv
<1>1. SeqInv'
  BY DEF CallAwait, mapVars, SeqInv
<1>2. LockInv'
  BY DEF CallAwait, recvVars, mapVars, LockInv, Terminated
<1>3. PhaseInv'
  <2>1. c \in Sync /\ ChanOf[c] \in Chans
    BY DEF CallAwait, PhaseInv
  <2>2. 1 \in 1..Len(queue[ChanOf[c]]) /\ queue[ChanOf[c]][1] \in Calls
    BY <2>1, NonEmpty DEF CallAwait, TypeOK
  <2>3. queue[ChanOf[c]][1] = c
    BY <2>1, <2>2, SyncChanAssumption DEF QueueInv
  <2>4. notified[c] > 0
    BY <2>1, <2>2, <2>3 DEF QueueInv
  <2> QED
    BY <2>1, <2>4 DEF TypeOK, CallAwait, mapVars, PhaseInv, InMap
<1>4. QueueInv'
  BY PopQueue DEF CallAwait, TypeOK
<1>5. HandOffInv'
  BY DEF CallAwait, recvVars, mapVars, HandOffInv, InMap
<1>6. TermInv'
  BY DEF CallAwait, recvVars, mapVars, TermInv, InMap, Terminated
<1>7. NotifiedOnce'
  BY DEF CallAwait, NotifiedOnce
<1>8. NoCallLost'
  BY DEF CallAwait, recvVars, mapVars, NoCallLost
<1> QED
  BY <1>1, <1>2, <1>3, <1>4, <1>5, <1>6, <1>7, <1>8

\* A Call that gives up after its context expired was already notified.
LEMMA SelectKeeps ==
    ASSUME IInv, TypeOK', NEW c \in Calls, CallSelect(c)
    PROVE  IInv'
PROOF
<1> USE ClientAssumption DEF IInv
<1>1. SeqInv'
  BY DEF CallSelect, SeqInv
<1>2. LockInv'
  BY DEF CallSelect, recvVars, LockInv, Terminated
<1>3. PhaseInv'
  BY DEF CallSelect, PhaseInv, InMap
<1>4. QueueInv'
  <2>1. PICK k \in Ready(c) :
          /\ pending' = IF k = "ctx"
                        THEN [pending EXCEPT ![callSeq[c]] = NoCall]
                        ELSE pending
          /\ queue' = IF k = "done"
                      THEN [queue EXCEPT ![ChanOf[c]] = Tail(@)] ELSE queue
    BY DEF CallSelect
  <2>2. CASE k = "done"
    BY <2>1, <2>2, PopQueue DEF CallSelect, Ready
  <2> QED
    BY <2>1, <2>2 DEF CallSelect, QueueInv
<1>5. HandOffInv'
  BY DEF CallSelect, recvVars, HandOffInv, InMap
<1>6. TermInv'
  BY DEF CallSelect, recvVars, TermInv, InMap, Terminated
<1>7. NotifiedOnce'
  BY DEF CallSelect, NotifiedOnce
<1>8. NoCallLost'
  <2>1. notified[c] > 0
    BY DEF CallSelect, PhaseInv
  <2>2. \A d \in Calls : d # c /\ callSeq[d] # 0
                            => pending'[callSeq[d]] = pending[callSeq[d]]
    BY DEF TypeOK, CallSelect, SeqInv
  <2>3. /\ notified' = notified /\ callSeq' = callSeq /\ rcall' = rcall
        /\ \A d \in Calls : d # c => pc'[d] = pc[d]
    BY DEF TypeOK, CallSelect, recvVars
  <2> QED
    BY <2>1, <2>2, <2>3 DEF NoCallLost
<1> QED
  BY <1>1, <1>2, <1>3, <1>4, <1>5, <1>6, <1>7, <1>8

\* A user takes a completed call.
LEMMA CollectKeeps ==
    ASSUME IInv, TypeOK', NEW ch \in Chans, Collect(ch)
    PROVE  IInv'
PROOF
<1> USE ClientAssumption DEF IInv
<1>1. SeqInv'
  BY DEF Collect, callVars, mapVars, SeqInv
<1>2. LockInv'
  BY DEF Collect, callVars, recvVars, mapVars, LockInv, Terminated
<1>3. PhaseInv'
  BY DEF Collect, callVars, mapVars, PhaseInv, InMap
<1>4. QueueInv'
  BY PopQueue DEF Collect
<1>5. HandOffInv'
  BY DEF Collect, callVars, recvVars, mapVars, HandOffInv, InMap
<1>6. TermInv'
  BY DEF Collect, callVars, recvVars, mapVars, TermInv, InMap, Terminated
<1>7. NotifiedOnce'
  BY DEF Collect, NotifiedOnce
<1>8. NoCallLost'
  BY DEF Collect, callVars, recvVars, mapVars, NoCallLost
<1> QED
  BY <1>1, <1>2, <1>3, <1>4, <1>5, <1>6, <1>7, <1>8

\* Steps that touch no state of a call.
LEMMA OthersKeep ==
    ASSUME IInv, TypeOK',
           UNCHANGED <<pc, callSeq, recv, rcall, todo, seq, pending, shutdown,
                       sending, queue, notified>>
    PROVE  IInv'
PROOF
<1> USE ClientAssumption DEF IInv
<1>1. SeqInv'
  BY DEF SeqInv
<1>2. LockInv'
  BY DEF LockInv, Terminated
<1>3. PhaseInv'
  BY DEF PhaseInv, InMap
<1>4. QueueInv'
  BY DEF QueueInv
<1>5. HandOffInv'
  BY DEF HandOffInv, InMap
<1>6. TermInv'
  BY DEF TermInv, InMap, Terminated
<1>7. NotifiedOnce'
  BY DEF NotifiedOnce
<1>8. NoCallLost'
  BY DEF NoCallLost
<1> QED
  BY <1>1, <1>2, <1>3, <1>4, <1>5, <1>6, <1>7, <1>8

\* The receiver reads a header, or fails to.
LEMMA ReadKeeps ==
    ASSUME IInv, TypeOK', ReadHeader \/ ReadHeaderFails
    PROVE  IInv'
PROOF
<1> USE ClientAssumption DEF IInv
<1>1. SeqInv'
  BY DEF ReadHeader, ReadHeaderFails, callVars, mapVars, SeqInv
<1>2. LockInv'
  BY DEF ReadHeader, ReadHeaderFails, callVars, mapVars, LockInv, Terminated
<1>3. PhaseInv'
  BY DEF ReadHeader, ReadHeaderFails, callVars, mapVars, PhaseInv, InMap
<1>4. QueueInv'
  BY DEF ReadHeader, ReadHeaderFails, QueueInv
<1>5. HandOffInv'
  BY DEF ReadHeader, ReadHeaderFails, HandOffInv
<1>6. TermInv'
  BY DEF ReadHeader, ReadHeaderFails, callVars, mapVars, TermInv, InMap,
         Terminated
<1>7. NotifiedOnce'
  BY DEF ReadHeader, ReadHeaderFails, NotifiedOnce
<1>8. NoCallLost'
  BY DEF ReadHeader, ReadHeaderFails, callVars, mapVars, NoCallLost
<1> QED
  BY <1>1, <1>2, <1>3, <1>4, <1>5, <1>6, <1>7, <1>8

\* removeCall hands an unnotified call to the receiver.
LEMMA RecvRemoveKeeps ==
    ASSUME IInv, TypeOK', RecvRemove
    PROVE  IInv'
PROOF
<1> USE ClientAssumption DEF IInv
<1>1. SeqInv'
  BY DEF RecvRemove, removeCall, callVars, SeqInv
<1>2. LockInv'
  BY DEF RecvRemove, removeCall, callVars, LockInv, Terminated
<1>3. PhaseInv'
  BY DEF RecvRemove, removeCall, callVars, PhaseInv, InMap
<1>4. QueueInv'
  BY DEF RecvRemove, QueueInv
<1>5. HandOffInv'
  BY DEF TypeOK, RecvRemove, removeCall, callVars, wireVars, HandOffInv, InMap,
         SeqInv, PhaseInv, TermInv, Terminated
<1>6. TermInv'
  BY DEF RecvRemove, removeCall, callVars, TermInv, InMap, Terminated
<1>7. NotifiedOnce'
  BY DEF RecvRemove, NotifiedOnce
<1>8. NoCallLost'
  BY DEF RecvRemove, removeCall, callVars, NoCallLost, HandOffInv
<1> QED
  BY <1>1, <1>2, <1>3, <1>4, <1>5, <1>6, <1>7, <1>8

\* The receiver reads a body.
LEMMA ReadBodyKeeps ==
    ASSUME IInv, TypeOK', ReadBody
    PROVE  IInv'
PROOF
<1> USE ClientAssumption DEF IInv
<1>1. SeqInv'
  BY DEF ReadBody, mapVars, SeqInv
<1>2. LockInv'
  BY DEF ReadBody, mapVars, LockInv, Terminated
<1>3. PhaseInv'
  BY DEF ReadBody, mapVars, PhaseInv, InMap
<1>4. QueueInv'
  BY DEF ReadBody, QueueInv
<1>5. HandOffInv'
  BY DEF ReadBody, mapVars, HandOffInv, InMap
<1>6. TermInv'
  BY DEF ReadBody, mapVars, TermInv, InMap, Terminated
<1>7. NotifiedOnce'
  BY DEF ReadBody, NotifiedOnce
<1>8. NoCallLost'
  BY DEF ReadBody, mapVars, NoCallLost
<1> QED
  BY <1>1, <1>2, <1>3, <1>4, <1>5, <1>6, <1>7, <1>8

\* The receiver completes the call it holds.
LEMMA RecvDoneKeeps ==
    ASSUME IInv, TypeOK', RecvDone
    PROVE  IInv'
PROOF
<1> USE ClientAssumption DEF IInv
<1>1. SeqInv'
  BY DEF RecvDone, callVars, mapVars, SeqInv
<1>2. LockInv'
  BY DEF RecvDone, callVars, mapVars, LockInv, Terminated
<1>3. PhaseInv'
  <2>1. /\ rcall \in Calls
        /\ pc[rcall] \notin {"idle", "send", "complete"}
    BY DEF TypeOK, RecvDone, HandOffInv, PhaseInv
  <2>2. /\ pc' = pc /\ callSeq' = callSeq /\ pending' = pending
        /\ notified'[rcall] > 0
        /\ \A d \in Calls : d # rcall => notified'[d] = notified[d]
    BY <2>1 DEF TypeOK, RecvDone, done, callVars, mapVars
  <2> QED
    BY <2>1, <2>2 DEF PhaseInv, InMap
<1>4. QueueInv'
  <2>1. rcall \in Calls
    BY DEF RecvDone, TypeOK
  <2> QED
    BY <2>1, DoneQueue DEF RecvDone
<1>5. HandOffInv'
  BY DEF RecvDone, HandOffInv
<1>6. TermInv'
  BY DEF RecvDone, done, callVars, mapVars, TermInv, InMap, Terminated,
         HandOffInv
<1>7. NotifiedOnce'
  BY DEF RecvDone, done, NotifiedOnce, HandOffInv
<1>8. NoCallLost'
  BY DEF TypeOK, RecvDone, done, callVars, mapVars, NoCallLost
<1> QED
  BY <1>1, <1>2, <1>3, <1>4, <1>5, <1>6, <1>7, <1>8

\* With both locks, what is registered is what is not notified.
LEMMA TerminateKeeps ==
    ASSUME IInv, TypeOK', terminateCalls
    PROVE  IInv'
PROOF
<1> USE ClientAssumption DEF IInv
<1>1. SeqInv'
  BY DEF terminateCalls, callVars, SeqInv
<1>2. LockInv'
  BY DEF terminateCalls, callVars, LockInv, Terminated
<1>3. PhaseInv'
  BY DEF terminateCalls, callVars, PhaseInv, InMap
<1>4. QueueInv'
  BY DEF terminateCalls, QueueInv
<1>5. HandOffInv'
  BY DEF terminateCalls, HandOffInv
<1>6. TermInv'
  BY DEF TypeOK, terminateCalls, Registered, callVars, wireVars, TermInv,
         InMap, Terminated, SeqInv, LockInv, PhaseInv, HandOffInv, NoCallLost
<1>7. NotifiedOnce'
  BY DEF terminateCalls, NotifiedOnce
<1>8. NoCallLost'
  BY DEF terminateCalls, callVars, NoCallLost
<1> QED
  BY <1>1, <1>2, <1>3, <1>4, <1>5, <1>6, <1>7, <1>8

\* terminateCalls completes a call of todo.
LEMMA TerminateOneKeeps ==
    ASSUME IInv, TypeOK', NEW c \in Calls, TerminateOne(c)
    PROVE  IInv'
PROOF
<1> USE ClientAssumption DEF IInv
<1>1. SeqInv'
  BY DEF TerminateOne, mapVars, SeqInv
<1>2. LockInv'
  BY DEF TerminateOne, mapVars, LockInv, Terminated
<1>3. PhaseInv'
  <2>1. pc[c] \notin {"idle", "send", "complete"}
    BY DEF TerminateOne, TermInv, PhaseInv, LockInv
  <2>2. /\ pc' = pc /\ callSeq' = callSeq /\ pending' = pending
        /\ notified'[c] > 0
        /\ \A d \in Calls : d # c => notified'[d] = notified[d]
    BY DEF TypeOK, TerminateOne, done, mapVars
  <2> QED
    BY <2>1, <2>2 DEF PhaseInv, InMap
<1>4. QueueInv'
  BY DoneQueue DEF TerminateOne
<1>5. HandOffInv'
  BY DEF TerminateOne, HandOffInv
<1>6. TermInv'
  <2>1. /\ todo' = todo \ {c} /\ recv' = "terminate" /\ recv = "terminate"
        /\ callSeq' = callSeq
    BY DEF TerminateOne
  <2>2. /\ notified'[c] > 0
        /\ \A d \in Calls : d # c => notified'[d] = notified[d]
    BY DEF TypeOK, TerminateOne, done
  <2> QED
    BY <2>1, <2>2 DEF TermInv, Terminated
<1>7. NotifiedOnce'
  BY DEF TerminateOne, done, NotifiedOnce, TermInv
<1>8. NoCallLost'
  BY DEF TypeOK, TerminateOne, done, mapVars, NoCallLost
<1> QED
  BY <1>1, <1>2, <1>3, <1>4, <1>5, <1>6, <1>7, <1>8

\* The loop ends with nothing left to notify.
LEMMA TerminateEndKeeps ==
    ASSUME IInv, TypeOK', TerminateEnd
    PROVE  IInv'
PROOF
<1> USE ClientAssumption DEF IInv
<1>1. SeqInv'
  BY DEF TerminateEnd, callVars, mapVars, SeqInv
<1>2. LockInv'
  BY DEF TerminateEnd, callVars, mapVars, LockInv, Terminated
<1>3. PhaseInv'
  BY DEF TerminateEnd, callVars, mapVars, PhaseInv, InMap
<1>4. QueueInv'
  BY DEF TerminateEnd, QueueInv
<1>5. HandOffInv'
  BY DEF TerminateEnd, HandOffInv
<1>6. TermInv'
  BY DEF TypeOK, TerminateEnd, callVars, TermInv, Terminated
<1>7. NotifiedOnce'
  BY DEF TerminateEnd, NotifiedOnce
<1>8. NoCallLost'
  BY DEF TerminateEnd, callVars, mapVars, NoCallLost
<1> QED
  BY <1>1, <1>2, <1>3, <1>4, <1>5, <1>6, <1>7, <1>8

LEMMA InductiveInit == Init => IInv
PROOF
<1> SUFFICES ASSUME Init PROVE IInv
  OBVIOUS
<1>1. TypeOK
  BY TypeInit
<1>2. SeqInv /\ LockInv /\ PhaseInv /\ HandOffInv /\ TermInv
  BY ClientAssumption DEF Init, SeqInv, LockInv, PhaseInv, HandOffInv, TermInv,
     Terminated, InMap
<1>3. QueueInv
  BY DEF Init, QueueInv
<1>4. NotifiedOnce /\ NoCallLost
  BY DEF Init, NotifiedOnce, NoCallLost
<1> QED
  BY <1>1, <1>2, <1>3, <1>4 DEF IInv

LEMMA InductiveStep == IInv /\ [Next]_vars => IInv'
PROOF
<1> SUFFICES ASSUME IInv, [Next]_vars PROVE IInv'
  OBVIOUS
<1>1. TypeOK'
  BY TypeStep DEF IInv
<1>2. CASE UNCHANGED vars
  BY <1>1, <1>2, OthersKeep DEF vars, callVars, recvVars, mapVars
<1>3. ASSUME NEW c \in Calls, Go(c) \/ CallStep(c) \/ CtxExpire(c)
      PROVE  IInv'
  <2>1. CASE WriteDelivered(c) \/ WriteLost(c) \/ WritePanics(c)
    <3>1. PICK x \in {"returned", "await", "panicked"} :
            (x = "await" => c \in Sync) /\ pc' = [pc EXCEPT ![c] = x]
      BY <2>1 DEF WriteDelivered, WriteLost, WritePanics, AfterGo
    <3>2. /\ pc[c] = "write" /\ sending' = "free"
          /\ UNCHANGED <<callSeq, recvVars, mapVars, queue, notified>>
      BY <2>1 DEF WriteDelivered, WriteLost, WritePanics
    <3> QED
      BY <1>1, <3>1, <3>2, WriteKeeps
  <2>2. CASE CtxExpire(c)
    BY <1>1, <2>2, OthersKeep DEF CtxExpire, recvVars, mapVars
  <2> QED
    BY <1>1, <1>3, <2>1, <2>2, GoKeeps, RegisterKeeps, RefusedKeeps,
       WriteFailsKeeps, RemoveKeeps, SendDoneKeeps, AwaitKeeps, SelectKeeps
       DEF CallStep
<1>4. CASE Receive
  BY <1>1, <1>4, ReadKeeps, RecvRemoveKeeps, ReadBodyKeeps, RecvDoneKeeps,
     TerminateKeeps, TerminateOneKeeps, TerminateEndKeeps DEF Receive
<1>5. CASE Close \/ PeerClose \/ \E r \in Answers : PeerAnswer(r)
  BY <1>1, <1>5, OthersKeep
     DEF Close, PeerClose, PeerAnswer, callVars, recvVars, mapVars
<1>6. CASE \E ch \in Chans : Collect(ch)
  BY <1>1, <1>6, CollectKeeps
<1> QED
  BY <1>2, <1>3, <1>4, <1>5, <1>6 DEF Next

\* The inductive invariant holds in every reachable state.
THEOREM Inductive == Spec => []IInv
PROOF
<1> QED
  BY InductiveInit, InductiveStep, PTL DEF Spec

\* However a failing write, late or repeated answers and terminateCalls
\* interleave, done() runs at most once per Call.
THEOREM CompletedOnce == Spec => []NotifiedOnce
PROOF
<1>1. IInv => NotifiedOnce
  BY DEF IInv
<1> QED
  BY <1>1, Inductive, PTL

\* A call that registerCall accepted is in pending, held by the receiver or
\* about to be completed by its own send, until it is notified.
THEOREM NeverLost == Spec => []NoCallLost
PROOF
<1>1. IInv => NoCallLost
  BY DEF IInv
<1> QED
  BY <1>1, Inductive, PTL

\* The receive goroutine ends only after every registered call is notified.
THEOREM ExitComplete == Spec => []ExitNotifiesAll
PROOF
<1>1. IInv => ExitNotifiesAll
  BY DEF IInv, TermInv, NotifiedOnce, ExitNotifiesAll, TypeOK
<1> QED
  BY <1>1, Inductive, PTL

\* No request reaches the wire once shutdown is set: whoever would write
\* holds `sending`, which terminateCalls took before it set shutdown.
THEOREM ShutdownSilent == Spec => NoWriteAfterShutdown
PROOF
<1>1. IInv /\ [Next]_vars => [shutdown => reqs' = reqs]_vars
  <2> SUFFICES ASSUME IInv, Next, shutdown PROVE reqs' = reqs
    BY DEF vars, wireVars
  <2>1. \A c \in Calls : pc[c] # "write"
    BY DEF IInv, LockInv
  <2> QED
    BY <2>1 DEF Next, CallStep, Receive, Go, SendRegister, SendRefused,
       WriteDelivered, WriteLost, WritePanics, WriteFails, SendRemove,
       SendDone, CallAwait, CallSelect, CtxExpire, Collect, Close, PeerAnswer,
       PeerClose, ReadHeader, ReadHeaderFails, RecvRemove, ReadBody, RecvDone,
       terminateCalls, TerminateOne, TerminateEnd, wireVars
<1> QED
  BY <1>1, Inductive, PTL DEF Spec, NoWriteAfterShutdown
-----------------------------------------------------------------------------
(* The return of Client.Call                                               *)

\* The channel of a Client.Call holds at most its one completion, which the
\* first receive has taken when the select begins; so only the context is
\* left to end the select.
ReturnInv ==
    \A c \in Sync :
        /\ Len(queue[ChanOf[c]]) <= 1
        /\ pc[c] = "select" => queue[ChanOf[c]] = <<>>
        /\ pc[c] = "returned" => notified[c] = 1 /\ ctxDone[c]

\* Steps that move no Client.Call into or out of its select.
Elsewhere ==
    \A c \in Sync : pc'[c] = pc[c] \/ pc'[c] \notin {"select", "returned"}

LEMMA TailOfOne ==
    ASSUME NEW S, NEW q \in Seq(S), q # <<>>, Len(q) <= 1
    PROVE  Tail(q) = <<>> /\ Len(Tail(q)) <= 1
OBVIOUS

LEMMA AppendLen ==
    ASSUME NEW S, NEW q \in Seq(S), NEW e \in S
    PROVE  Len(Append(q, e)) = Len(q) + 1 /\ Len(q) \in Nat
OBVIOUS

\* Nothing happens to the channels.
LEMMA ReturnQuiet ==
    ASSUME ReturnInv, Elsewhere, UNCHANGED <<queue, notified>>,
           \A c \in Sync : ctxDone[c] => ctxDone'[c]
    PROVE  ReturnInv'
BY DEF ReturnInv, Elsewhere

\* done() finds the channel of a Client.Call empty, and the call before its
\* select: it is the first completion.
LEMMA ReturnDone ==
    ASSUME IInv, NotifiedOnce', ReturnInv, Elsewhere, UNCHANGED ctxDone,
           NEW d \in Calls, done(d)
    PROVE  ReturnInv'
PROOF
<1> SUFFICES ASSUME NEW c \in Sync
             PROVE  /\ Len(queue'[ChanOf[c]]) <= 1
                    /\ pc'[c] = "select" => queue'[ChanOf[c]] = <<>>
                    /\ pc'[c] = "returned" => notified'[c] = 1 /\ ctxDone'[c]
  BY DEF ReturnInv
<1>1. c \in Calls /\ ChanOf[c] \in Chans /\ ChanOf[d] \in Chans
  BY ClientAssumption
<1>2. CASE c # d
  <2>1. ChanOf[d] # ChanOf[c]
    BY <1>2, SyncChanAssumption
  <2>2. queue'[ChanOf[c]] = queue[ChanOf[c]] /\ notified'[c] = notified[c]
    BY <1>1, <1>2, <2>1 DEF done, IInv, TypeOK
  <2> QED
    BY <2>2 DEF ReturnInv, Elsewhere
<1>3. CASE c = d
  <2>1. queue[ChanOf[c]] \in Seq(Calls)
        /\ queue'[ChanOf[c]] = Append(queue[ChanOf[c]], c)
    BY <1>1, <1>3 DEF done, IInv, TypeOK
  <2>2. Len(queue[ChanOf[c]]) < 1
    BY <1>3, SyncChanAssumption DEF done
  <2>3. Len(queue'[ChanOf[c]]) <= 1
    BY <1>1, <2>1, <2>2, AppendLen
  <2>4. notified[c] \in Nat /\ notified'[c] = notified[c] + 1
    BY <1>1, <1>3 DEF done, IInv, TypeOK
  <2>5. notified[c] = 0
    BY <1>1, <2>4 DEF NotifiedOnce
  <2>6. pc[c] \notin {"select", "returned"}
    BY <1>1, <2>5 DEF IInv, PhaseInv, ReturnInv
  <2> QED
    BY <2>3, <2>6 DEF Elsewhere
<1> QED
  BY <1>2, <1>3

\* The first receive empties the channel.
LEMMA ReturnAwait ==
    ASSUME IInv, ReturnInv, NEW d \in Calls, CallAwait(d)
    PROVE  ReturnInv'
PROOF
<1> SUFFICES ASSUME NEW c \in Sync
             PROVE  /\ Len(queue'[ChanOf[c]]) <= 1
                    /\ pc'[c] = "select" => queue'[ChanOf[c]] = <<>>
                    /\ pc'[c] = "returned" => notified'[c] = 1 /\ ctxDone'[c]
  BY DEF ReturnInv
<1>1. c \in Calls /\ ChanOf[c] \in Chans /\ ChanOf[d] \in Chans
  BY ClientAssumption
<1>2. CASE c # d
  <2>1. ChanOf[d] # ChanOf[c]
    BY <1>2, SyncChanAssumption
  <2>2. queue'[ChanOf[c]] = queue[ChanOf[c]] /\ pc'[c] = pc[c]
        /\ notified'[c] = notified[c] /\ ctxDone'[c] = ctxDone[c]
    BY <1>1, <1>2, <2>1 DEF CallAwait, IInv, TypeOK
  <2> QED
    BY <2>2 DEF ReturnInv
<1>3. CASE c = d
  <2>1. queue[ChanOf[c]] \in Seq(Calls) /\ queue[ChanOf[c]] # <<>>
        /\ queue'[ChanOf[c]] = Tail(queue[ChanOf[c]])
    BY <1>1, <1>3 DEF CallAwait, IInv, TypeOK
  <2>2. Tail(queue[ChanOf[c]]) = <<>> /\ Len(Tail(queue[ChanOf[c]])) <= 1
    BY <2>1, TailOfOne DEF ReturnInv
  <2>3. pc'[c] = "select"
    BY <1>1, <1>3 DEF CallAwait, IInv, TypeOK
  <2> QED
    BY <2>1, <2>2, <2>3
<1> QED
  BY <1>2, <1>3

\* In the select the channel is empty: the context is done.
LEMMA ReturnSelect ==
    ASSUME IInv, ReturnInv, NEW d \in Calls, CallSelect(d)
    PROVE  ReturnInv'
PROOF
<1>1. d \in Sync /\ pc[d] = "select" /\ notified[d] = 1
  BY DEF CallSelect, IInv, PhaseInv, NotifiedOnce, TypeOK
<1>2. queue[ChanOf[d]] = <<>>
  BY <1>1 DEF ReturnInv
<1>3. ctxDone[d] /\ queue' = queue
  BY <1>2 DEF CallSelect, Ready
<1>4. pc' = [pc EXCEPT ![d] = "returned"] /\ UNCHANGED <<notified, ctxDone>>
  BY DEF CallSelect
<1> QED
  BY <1>1, <1>3, <1>4, ClientAssumption DEF ReturnInv, IInv, TypeOK

\* The users of Go collect from other channels.
LEMMA ReturnCollect ==
    ASSUME IInv, ReturnInv, NEW ch \in Chans, Collect(ch)
    PROVE  ReturnInv'
PROOF
<1>1. \A c \in Sync : c \in Calls /\ ChanOf[c] \in Chans /\ ChanOf[c] # ch
  BY ClientAssumption, SyncChanAssumption DEF Collect
<1>2. \A c \in Sync : queue'[ChanOf[c]] = queue[ChanOf[c]]
  BY <1>1 DEF Collect, IInv, TypeOK
<1> QED
  BY <1>2 DEF Collect, callVars, ReturnInv

LEMMA ReturnStep == IInv /\ IInv' /\ ReturnInv /\ [Next]_vars => ReturnInv'
PROOF
<1> SUFFICES ASSUME IInv, IInv', ReturnInv, [Next]_vars PROVE ReturnInv'
  OBVIOUS
<1>1. NotifiedOnce' /\ pc \in [Calls -> PCs] /\ Sync \subseteq Calls
      /\ ctxDone \in [Calls -> BOOLEAN]
  BY ClientAssumption DEF IInv, TypeOK
<1>2. CASE UNCHANGED vars
  BY <1>2, ReturnQuiet DEF vars, callVars, Elsewhere
<1>3. ASSUME NEW c \in Calls,
             Go(c) \/ SendRegister(c) \/ SendRefused(c) \/ WriteDelivered(c)
             \/ WriteLost(c) \/ WritePanics(c) \/ WriteFails(c)
             \/ SendRemove(c)
      PROVE  ReturnInv'
  <2>1. Elsewhere
    BY <1>1, <1>3 DEF Elsewhere, Go, SendRegister, SendRefused, AfterGo,
       WriteDelivered, WriteLost, WritePanics, WriteFails, SendRemove
  <2>2. UNCHANGED <<queue, notified, ctxDone>>
    BY <1>3 DEF Go, SendRegister, SendRefused,
       WriteDelivered, WriteLost, WritePanics, WriteFails, SendRemove
  <2> QED
    BY <2>1, <2>2, ReturnQuiet
<1>4. ASSUME NEW c \in Calls, SendDone(c) PROVE ReturnInv'
  <2>1. Elsewhere
    BY <1>1, <1>4 DEF Elsewhere, SendDone, AfterGo
  <2> QED
    BY <1>1, <1>4, <2>1, ReturnDone DEF SendDone
<1>5. ASSUME NEW c \in Calls, CtxExpire(c) PROVE ReturnInv'
  <2>1. Elsewhere /\ UNCHANGED <<queue, notified>>
    BY <1>5 DEF Elsewhere, CtxExpire
  <2>2. \A d \in Sync : ctxDone[d] => ctxDone'[d]
    BY <1>1, <1>5 DEF CtxExpire
  <2> QED
    BY <2>1, <2>2, ReturnQuiet
<1>6. CASE Close \/ PeerClose \/ \E r \in Answers : PeerAnswer(r)
  BY <1>6, ReturnQuiet DEF Close, PeerClose, PeerAnswer, callVars, Elsewhere
<1>7. CASE RecvDone
  <2>1. Elsewhere /\ UNCHANGED ctxDone
    BY <1>7 DEF RecvDone, callVars, Elsewhere
  <2>2. rcall \in Calls /\ done(rcall)
    BY <1>7 DEF RecvDone, IInv, TypeOK
  <2>3. PICK d \in Calls : d = rcall
    BY <2>2
  <2>4. done(d)
    BY <2>2, <2>3 DEF done
  <2> QED
    BY <1>1, <2>1, <2>4, ReturnDone
<1>8. ASSUME NEW c \in Calls, TerminateOne(c) PROVE ReturnInv'
  <2>1. Elsewhere /\ UNCHANGED ctxDone
    BY <1>8 DEF TerminateOne, Elsewhere
  <2> QED
    BY <1>1, <1>8, <2>1, ReturnDone DEF TerminateOne
<1>9. CASE ReadHeader \/ ReadHeaderFails \/ RecvRemove \/ ReadBody
           \/ terminateCalls \/ TerminateEnd
  <2>1. UNCHANGED <<pc, ctxDone, queue, notified>>
    BY <1>9 DEF ReadHeader, ReadHeaderFails, RecvRemove, ReadBody,
       terminateCalls, TerminateEnd, callVars
  <2> QED
    BY <2>1, ReturnQuiet DEF Elsewhere
<1> QED
  BY <1>2, <1>3, <1>4, <1>5, <1>6, <1>7, <1>8, <1>9, ReturnAwait,
     ReturnSelect, ReturnCollect DEF Next, CallStep, Receive

\* Client.Call returns only after its call is completed and its context has
\* expired: the receive of line 252 takes the completion, and the one of
\* line 258 never gets another.
THEOREM CallNeedsContext == Spec => []ReturnsByContext
PROOF
<1>1. Init => ReturnInv
  <2> SUFFICES ASSUME Init, NEW c \in Sync
               PROVE  /\ Len(queue[ChanOf[c]]) <= 1
                      /\ pc[c] = "idle" /\ queue[ChanOf[c]] = <<>>
    BY DEF ReturnInv
  <2>1. pc[c] = "idle" /\ queue[ChanOf[c]] = <<>>
    BY ClientAssumption DEF Init
  <2> QED
    BY <2>1
<1>2. ReturnInv => ReturnsByContext
  BY DEF ReturnInv, ReturnsByContext
<1> QED
  BY <1>1, <1>2, Inductive, ReturnStep, PTL DEF Spec
-----------------------------------------------------------------------------
(* Dial                                                                    *)

\* Where the result of NewClient is; that only dialTimeout closes the
\* connection of a client, and closes it when it refuses.
DialInv ==
    /\ DialTypeOK
    /\ \A d \in Dialers :
          /\ dialer[d] \in {"idle", "dial"} =>
                maker[d] = "none" /\ conn[d] = "none"
          /\ maker[d] = "client" => reader[d] # "none"
          /\ maker[d] = "client" /\ dialer[d] = "select" => conn[d] = "open"
          /\ dialer[d] = "returned" =>
                maker[d] = "ended" /\ conn[d] = "open" /\ reader[d] # "none"
          /\ dialer[d] = "refused" => /\ conn[d] # "open"
                                      /\ \/ maker[d] \in {"none", "ended"}
                                         \/ timedOut[d]
    /\ crashed => \E d \in Dialers : conn[d] = "nil"

LEMMA DialTypes ==
    DialTypeOK /\ [DialNext]_dialVars => DialTypeOK'
PROOF
<1> SUFFICES ASSUME DialTypeOK, [DialNext]_dialVars PROVE DialTypeOK'
  OBVIOUS
<1> USE DEF DialTypeOK
<1>1. CASE UNCHANGED dialVars
  BY <1>1 DEF dialVars
<1>2. ASSUME NEW d \in Dialers, parseOption(d) PROVE DialTypeOK'
  BY <1>2 DEF parseOption
<1>3. ASSUME NEW d \in Dialers, DialTimeout(d) PROVE DialTypeOK'
  BY <1>3 DEF DialTimeout
<1>4. ASSUME NEW d \in Dialers, NewClientRejects(d) PROVE DialTypeOK'
  BY <1>4 DEF NewClientRejects
<1>5. ASSUME NEW d \in Dialers, NewClient(d) PROVE DialTypeOK'
  BY <1>5 DEF NewClient
<1>6. ASSUME NEW d \in Dialers, NewClientFails(d) PROVE DialTypeOK'
  BY <1>6 DEF NewClientFails
<1>7. ASSUME NEW d \in Dialers, NewClientPanics(d) PROVE DialTypeOK'
  BY <1>7 DEF NewClientPanics
<1>8. ASSUME NEW d \in Dialers, ReceiveResult(d) PROVE DialTypeOK'
  BY <1>8 DEF ReceiveResult, ReturnError
<1>9. ASSUME NEW d \in Dialers, Timeout(d) PROVE DialTypeOK'
  BY <1>9 DEF Timeout, ReturnError
<1>10. ASSUME NEW d \in Dialers, ReceiveEnds(d) PROVE DialTypeOK'
  BY <1>10 DEF ReceiveEnds
<1> QED
  BY <1>1, <1>2, <1>3, <1>4, <1>5, <1>6, <1>7, <1>8, <1>9, <1>10 DEF DialNext

LEMMA DialStep == DialInv /\ [DialNext]_dialVars => DialInv'
PROOF
<1> SUFFICES ASSUME DialInv, [DialNext]_dialVars PROVE DialInv'
  OBVIOUS
<1>1. DialTypeOK'
  BY DialTypes DEF DialInv
<1> USE <1>1 DEF DialInv, DialTypeOK, Is
<1>2. CASE UNCHANGED dialVars
  BY <1>2 DEF dialVars
<1>3. ASSUME NEW d \in Dialers, parseOption(d) PROVE DialInv'
  BY <1>3 DEF parseOption
<1>4. ASSUME NEW d \in Dialers, DialTimeout(d) PROVE DialInv'
  BY <1>4 DEF DialTimeout
<1>5. ASSUME NEW d \in Dialers, NewClientRejects(d) PROVE DialInv'
  BY <1>5 DEF NewClientRejects
<1>6. ASSUME NEW d \in Dialers, NewClient(d) PROVE DialInv'
  BY <1>6 DEF NewClient
<1>7. ASSUME NEW d \in Dialers, NewClientFails(d) PROVE DialInv'
  BY <1>7 DEF NewClientFails
<1>8. ASSUME NEW d \in Dialers, NewClientPanics(d) PROVE DialInv'
  BY <1>8 DEF NewClientPanics
<1>9. ASSUME NEW d \in Dialers, ReceiveResult(d) PROVE DialInv'
  BY <1>9 DEF ReceiveResult, ReturnError
<1>10. ASSUME NEW d \in Dialers, Timeout(d) PROVE DialInv'
  BY <1>10 DEF Timeout, ReturnError
<1>11. ASSUME NEW d \in Dialers, ReceiveEnds(d) PROVE DialInv'
  BY <1>11 DEF ReceiveEnds
<1> QED
  BY <1>2, <1>3, <1>4, <1>5, <1>6, <1>7, <1>8, <1>9, <1>10, <1>11 DEF DialNext

LEMMA DialStart == DialInit => DialInv
PROOF
<1> SUFFICES ASSUME DialInit PROVE DialInv
  OBVIOUS
<1>1. DefaultOption \in Options
  BY DEF DefaultOption, Options
<1>2. DialTypeOK
  BY <1>1 DEF DialInit, DialTypeOK
<1>3. ~ crashed /\ \A d \in Dialers :
          dialer[d] = "idle" /\ maker[d] = "none" /\ conn[d] = "none"
  BY DEF DialInit
<1> QED
  BY <1>2, <1>3 DEF DialInv

\* dialTimeout (client.go:272-307): a client that Dial returns has an open
\* connection and a receive goroutine, whenever the timer fires.
THEOREM DialledIsOpen == DialSpec => []ReturnedIsOpen
PROOF
<1>1. DialInv => ReturnedIsOpen
  BY DEF DialInv, ReturnedIsOpen
<1> QED
  BY <1>1, DialStart, DialStep, PTL DEF DialSpec

\* The connection of a Dial that failed is not open, its NewClient has
\* ended unless the time was up, and only a failed net.DialTimeout brings
\* the process down.
FailedIsClosed ==
    /\ \A d \in Dialers : dialer[d] = "refused" =>
          /\ conn[d] # "open"
          /\ maker[d] \in {"none", "ended"} \/ timedOut[d]
    /\ crashed => \E d \in Dialers : conn[d] = "nil"

\* dialTimeout's deferred Close (client.go:280-284): whichever of the timer
\* and NewClient is first, a Dial that failed has no open connection from the
\* moment it returns, and a NewClient that is late gets none either.
THEOREM RefusedIsClosed == DialSpec => []FailedIsClosed
PROOF
<1>1. DialInv => FailedIsClosed
  BY DEF DialInv, FailedIsClosed
<1> QED
  BY <1>1, DialStart, DialStep, PTL DEF DialSpec
=============================================================================
