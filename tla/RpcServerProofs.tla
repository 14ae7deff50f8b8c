--------------------------- MODULE RpcServerProofs ---------------------------
(***************************************************************************)
(* Theorems about one connection of the server: a request is answered at   *)
(* most once, the two messages of an answer stay together, the connection  *)
(* is closed after the last answer, only a timeout leaves a goroutine      *)
(* behind, and no request is lost without a cause.  They hold for any      *)
(* number of requests, whatever the client sends and whenever it hangs up. *)
(***************************************************************************)
EXTENDS RpcServer, SequenceTheorems, TLAPS

\* Nothing has been done for request r.
Untouched(r) == /\ main[r] = "none" /\ child[r] = "none"
                /\ herr[r] = "none" /\ answered[r] = 0

\* No goroutine works for request r.
Unhandled(r) == main[r] = "none" /\ child[r] = "none"

\* Requests are numbered in the order they are sent, and nothing is done for
\* one whose header has not been read.
WireInv ==
    /\ cur <= sent
    /\ \A r \in Reqs : r > sent => Untouched(r)
    /\ \A i \in 1..Len(in) : in[i].type = "header" =>
          /\ in[i].req \in 1..sent /\ in[i].req > cur
          /\ Untouched(in[i].req)
    /\ \A i, j \in 1..Len(in) :
          i < j /\ in[i].type = "header" /\ in[j].type = "header" =>
              in[i].req < in[j].req

\* The request the loop is reading or rejecting has no handler yet.
LoopInv ==
    /\ cur # 0 <=> loop \in {"body", "reject", "rejectBody"}
    /\ loop = "body" => Untouched(cur)
    /\ loop \in {"reject", "rejectBody"} =>
          Unhandled(cur) /\ herr[cur] = "invalid" /\ answered[cur] = 0
    /\ loop = "option" => \A r \in Reqs : main[r] = "none"
    /\ loop = "closed" => \A r \in Reqs : main[r] \in {"none", "done"}

\* How far handleRequest and its child have come together, and whether one of
\* them has answered: they pass the rendezvous on `called` together or not at
\* all.
HandlerInv ==
    \A r \in Reqs :
        /\ main[r] = "none" => child[r] = "none" /\ answered[r] <= 1
        /\ main[r] = "wait" => /\ child[r] \in {"call", "called"}
                               /\ herr[r] = "none" /\ answered[r] = 0
        /\ main[r] \in {"timeout", "timeoutBody"} =>
              /\ child[r] \in {"call", "called"}
              /\ herr[r] = "timeout" /\ answered[r] = 0
        /\ main[r] = "sent" =>
              /\ child[r] \in {"send", "sendBody", "sent"}
              /\ herr[r] \in {"none", "call"}
              /\ answered[r] = IF child[r] = "sent" THEN 1 ELSE 0
        /\ main[r] = "done" =>
              /\ answered[r] = 1
              /\ \/ child[r] = "exit"
                 \/ child[r] \in {"call", "called"} /\ herr[r] = "timeout"

\* Who holds the sending mutex is between the two messages of an answer.
MutexInv ==
    /\ sending = <<"loop", 0>> <=> loop = "rejectBody"
    /\ \A r \in Reqs : sending = <<"main", r>> <=> main[r] = "timeoutBody"
    /\ \A r \in Reqs : sending = <<"child", r>> <=> child[r] = "sendBody"
    /\ \/ sending = Free \/ sending = <<"loop", 0>>
       \/ \E r \in Reqs : sending \in {<<"main", r>>, <<"child", r>>}

\* The header of an answer is on the wire, and the body is next.
Half(r, kinds) ==
    /\ Len(out) % 2 = 1
    /\ out[Len(out)].req = r /\ out[Len(out)].kind \in kinds

OutInv ==
    /\ sending = Free => Len(out) % 2 = 0
    /\ sending = <<"loop", 0>> => Half(cur, {"invalid"})
    /\ \A r \in Reqs : sending = <<"main", r>> => Half(r, {"timeout"})
    /\ \A r \in Reqs : sending = <<"child", r>> => Half(r, {"none", "call"})

\* The inductive invariant.
IInv == /\ TypeOK /\ WireInv /\ LoopInv /\ HandlerInv /\ MutexInv /\ OutInv
        /\ FramesPaired
-----------------------------------------------------------------------------
(* Types                                                                   *)

LEMMA WriterTypes ==
    /\ Free \in Writers /\ <<"loop", 0>> \in Writers
    /\ \A r \in Reqs : <<"main", r>> \in Writers /\ <<"child", r>> \in Writers
BY ServerAssumption DEF Free, Writers, Reqs

LEMMA TypeInit == Init => TypeOK
PROOF
<1> SUFFICES ASSUME Init PROVE TypeOK
  OBVIOUS
<1> USE ServerAssumption DEF Init
<1>1. sending \in Writers
  BY WriterTypes
<1>2. in \in Seq(InMsgs) /\ out \in Seq(OutMsgs)
  OBVIOUS
<1>3. /\ main \in [Reqs -> MainPCs] /\ child \in [Reqs -> ChildPCs]
      /\ method \in [Reqs -> MethodKinds] /\ herr \in [Reqs -> Errs]
  BY DEF MainPCs, ChildPCs, MethodKinds, Errs
<1>4. failed \in [Reqs -> BOOLEAN] /\ answered \in [Reqs -> Nat]
  OBVIOUS
<1>5. /\ opt \in Options /\ loop = "option" /\ loop \in LoopPCs
      /\ cur \in 0..MaxReqs /\ sent \in 0..MaxReqs /\ faults = {}
  BY DEF LoopPCs
<1>6. /\ eof \in BOOLEAN /\ garbled \in BOOLEAN /\ bufErr \in BOOLEAN
      /\ closed \in BOOLEAN /\ crashed \in BOOLEAN
  OBVIOUS
<1> HIDE DEF Init
<1> QED
  BY <1>1, <1>2, <1>3, <1>4, <1>5, <1>6 DEF TypeOK

\* What is left of the wire when its first message has been read.
LEMMA TailWire ==
    ASSUME TypeOK, in # <<>>
    PROVE  /\ Head(in) \in InMsgs /\ Tail(in) \in Seq(InMsgs)
           /\ Head(in) = in[1] /\ Len(Tail(in)) = Len(in) - 1
           /\ \A i \in 1..Len(Tail(in)) : Tail(in)[i] = in[i + 1]
BY HeadTailProperties DEF TypeOK

\* What json.Decoder leaves of the wire.
LEMMA RestOfWire ==
    ASSUME TypeOK, NEW k \in 0..Len(in), NEW torn \in BOOLEAN,
           torn => k < Len(in),
           in' = IF torn THEN <<Junk>> \o SubSeq(in, k + 2, Len(in))
                         ELSE SubSeq(in, k + 1, Len(in))
    PROVE  /\ in' \in Seq(InMsgs)
           /\ \A i \in 1..Len(in') : in'[i].type = "header" =>
                 i + k \in 1..Len(in) /\ in'[i] = in[i + k]
PROOF
<1>1. in \in Seq(InMsgs) /\ Junk \in InMsgs
  BY ServerAssumption DEF TypeOK, InMsgs, Junk
<1>2. CASE torn
  <2> DEFINE rest == SubSeq(in, k + 2, Len(in))
  <2>1. /\ rest \in Seq(InMsgs) /\ Len(rest) = Len(in) - k - 1
        /\ \A i \in 1..Len(rest) : rest[i] = in[i + k + 1]
    BY <1>1, <1>2
  <2> HIDE DEF rest
  <2>2. /\ in' \in Seq(InMsgs) /\ Len(in') = Len(rest) + 1
        /\ in'[1] = Junk
        /\ \A i \in 2..Len(in') : in'[i] = rest[i - 1]
    BY <1>1, <1>2, <2>1 DEF rest
  <2>3. ASSUME NEW i \in 1..Len(in'), in'[i].type = "header"
        PROVE  i + k \in 1..Len(in) /\ in'[i] = in[i + k]
    <3>1. Junk.type # "header"
      BY DEF Junk
    <3> HIDE DEF Junk
    <3>2. i \in 2..Len(in') /\ i - 1 \in 1..Len(rest)
      BY <2>1, <2>2, <2>3, <3>1
    <3>3. in'[i] = in[(i - 1) + k + 1]
      BY <2>1, <2>2, <3>2
    <3> QED
      BY <1>1, <2>1, <2>2, <3>2, <3>3
  <2> QED
    BY <2>2, <2>3
<1>3. CASE ~torn
  BY <1>1, <1>3
<1> QED
  BY <1>2, <1>3

LEMMA TypeClient == TypeOK /\ Client => TypeOK'
PROOF
<1> SUFFICES ASSUME TypeOK, Client PROVE TypeOK'
  OBVIOUS
<1> USE ServerAssumption DEF TypeOK
<1>1. ASSUME NEW m \in Methods, NEW b \in BodyKinds, ClientSend(m, b)
      PROVE  TypeOK'
  <2> DEFINE h == Header(sent + 1, m)
             t == BodyOf(sent + 1, b)
  <2>1. sent + 1 \in 0..MaxReqs
    BY <1>1 DEF ClientSend
  <2>2. h \in InMsgs /\ (b # "missing" => t \in InMsgs)
    BY <2>1 DEF Header, BodyOf, InMsgs
  <2>3. in' = in \o (IF b = "missing" THEN <<h>> ELSE <<h, t>>)
    BY <1>1 DEF ClientSend
  <2> HIDE DEF h, t
  <2>4. in' \in Seq(InMsgs)
    BY <2>2, <2>3
  <2> QED
    BY <1>1, <2>1, <2>4 DEF ClientSend, Running, loopVars, reqVars, writeVars
<1>2. CASE ClientGarbage
  <2>1. Junk \in InMsgs
    BY DEF Junk, InMsgs
  <2>2. in' \in Seq(InMsgs)
    BY <1>2, <2>1 DEF ClientGarbage
  <2> QED
    BY <1>2, <2>2 DEF ClientGarbage, Running, loopVars, reqVars, writeVars
<1>3. CASE ClientClose
  BY <1>3 DEF ClientClose, Running, loopVars, reqVars, writeVars
<1> QED
  BY <1>1, <1>2, <1>3 DEF Client

\* sendResponse, called for request r by who, keeps the types.
LEMMA TypeWrite ==
    ASSUME TypeOK, NEW r \in Reqs, NEW who \in Writers,
           NEW body \in {"reply", "invalid"},
           BeginWrite(who, r) \/ FailWrite(r) \/ EndWrite(r, body)
    PROVE  /\ sending' \in Writers /\ out' \in Seq(OutMsgs)
           /\ bufErr' \in BOOLEAN /\ closed' \in BOOLEAN
           /\ answered' \in [Reqs -> Nat]
PROOF
<1> USE DEF TypeOK
<1>1. Header(r, herr[r]) \in OutMsgs /\ BodyOf(r, body) \in OutMsgs
  BY DEF Header, BodyOf, OutMsgs
<1>2. CASE BeginWrite(who, r)
  BY <1>1, <1>2 DEF BeginWrite
<1>3. CASE FailWrite(r)
  BY <1>3 DEF FailWrite
<1>4. CASE EndWrite(r, body)
  <2>1. out' \in Seq(OutMsgs)
    BY <1>1, <1>4 DEF EndWrite
  <2> QED
    BY <1>4, <2>1, WriterTypes DEF EndWrite
<1> QED
  BY <1>2, <1>3, <1>4

\* The first message of the wire, if it is a header, has the number of a
\* request.
LEMMA HeadReq ==
    ASSUME TypeOK, WireInv, in # <<>>, Head(in).type = "header"
    PROVE  /\ Head(in).req \in Reqs /\ Head(in).req <= sent
           /\ Head(in).req > cur /\ Untouched(Head(in).req)
BY TailWire, ServerAssumption DEF WireInv, TypeOK, Reqs

\* A step of ServeConn, serveCodec or readRequest keeps the types.
LEMMA TypeServe == TypeOK /\ WireInv /\ ServeConn => TypeOK'
PROOF
<1> SUFFICES ASSUME TypeOK, WireInv, ServeConn PROVE TypeOK'
  OBVIOUS
<1> USE ServerAssumption DEF Running, loopVars, envVars, reqVars, writeVars,
        LoopPCs
<1>1. CASE ReadOption
  <2>1. in' \in Seq(InMsgs)
    BY <1>1, RestOfWire DEF ReadOption
  <2>2. faults' \subseteq {"partial", "overread"}
    BY <1>1 DEF ReadOption, TypeOK
  <2> QED
    BY <1>1, <2>1, <2>2 DEF ReadOption, TypeOK
<1>2. CASE RejectOption
  BY <1>2 DEF RejectOption, TypeOK
<1>3. CASE ReadHeader
  <2>1. Head(in).req \in Reqs /\ Tail(in) \in Seq(InMsgs)
    BY <1>3, HeadReq, TailWire DEF ReadHeader
  <2>2. Head(in).kind \in MethodKinds
    BY <1>3 DEF ReadHeader, MethodKinds
  <2> QED
    BY <1>3, <2>1, <2>2 DEF ReadHeader, TypeOK, Reqs
<1>4. CASE FindServiceFails
  <2>1. Head(in).req \in Reqs /\ Tail(in) \in Seq(InMsgs)
    BY <1>4, HeadReq, TailWire DEF FindServiceFails
  <2> QED
    BY <1>4, <2>1 DEF FindServiceFails, TypeOK, Reqs, Errs
<1>5. CASE NewReplyvPanics
  <2>1. Head(in).req \in Reqs /\ Tail(in) \in Seq(InMsgs)
    BY <1>5, HeadReq, TailWire DEF NewReplyvPanics
  <2> QED
    BY <1>5, <2>1 DEF NewReplyvPanics, TypeOK, MethodKinds
<1>6. CASE ReadHeaderFails
  <2>1. in' \in Seq(InMsgs)
    BY <1>6, TailWire DEF ReadHeaderFails, TypeOK
  <2>2. /\ cur' = 0 /\ loop' = "wait"
        /\ UNCHANGED <<opt, sent, eof, garbled, faults, reqVars, writeVars,
                       crashed>>
    BY <1>6 DEF ReadHeaderFails
  <2> QED
    BY <2>1, <2>2 DEF TypeOK
<1>7. CASE ReadBody
  <2>1. cur \in Reqs /\ in' \in Seq(InMsgs)
    BY <1>7, TailWire DEF ReadBody, TypeOK, Reqs
  <2> QED
    BY <1>7, <2>1 DEF ReadBody, TypeOK, MainPCs, ChildPCs
<1>8. CASE ReadBodyFails
  <2>0. in' = in \/ (in # <<>> /\ in' = Tail(in))
    BY <1>8 DEF ReadBodyFails
  <2>1. cur \in Reqs /\ in' \in Seq(InMsgs)
    <3>1. cur \in Reqs
      BY <1>8 DEF ReadBodyFails, TypeOK, Reqs
    <3>2. in' \in Seq(InMsgs)
      BY <2>0, TailWire DEF TypeOK
    <3> QED
      BY <3>1, <3>2
  <2>2. /\ herr' = [herr EXCEPT ![cur] = "invalid"] /\ loop' = "reject"
        /\ UNCHANGED <<opt, cur, sent, eof, garbled, faults, main, child,
                       method, failed, writeVars, crashed>>
    BY <1>8 DEF ReadBodyFails
  <2> QED
    BY <2>1, <2>2 DEF TypeOK, Reqs, Errs
<1>9. CASE RejectBegin
  <2>1. cur \in Reqs
    BY <1>9 DEF RejectBegin, TypeOK, Reqs
  <2> QED
    BY <1>9, <2>1, TypeWrite, WriterTypes DEF RejectBegin, TypeOK
<1>10. CASE RejectFails \/ RejectEnd
  <2>1. cur \in Reqs
    BY <1>10 DEF RejectFails, RejectEnd, TypeOK, Reqs
  <2>2. FailWrite(cur) \/ EndWrite(cur, "invalid")
    BY <1>10 DEF RejectFails, RejectEnd
  <2>3. /\ sending' \in Writers /\ out' \in Seq(OutMsgs)
        /\ bufErr' \in BOOLEAN /\ closed' \in BOOLEAN
        /\ answered' \in [Reqs -> Nat]
    BY <2>1, <2>2, TypeWrite, WriterTypes
  <2>4. /\ cur' = 0 /\ loop' = "header"
        /\ UNCHANGED <<opt, envVars, reqVars, crashed>>
    BY <1>10 DEF RejectFails, RejectEnd
  <2> QED
    BY <2>3, <2>4 DEF TypeOK
<1>11. CASE CloseCodec
  BY <1>11 DEF CloseCodec, TypeOK
<1> QED
  BY <1>1, <1>2, <1>3, <1>4, <1>5, <1>6, <1>7, <1>8, <1>9, <1>10, <1>11
     DEF ServeConn

\* A step of a handler keeps the types.
LEMMA TypeHandler ==
    ASSUME TypeOK, NEW r \in Reqs,
           Main(r) \/ Child(r) \/ Meet(r) \/ MethodReturns(r)
    PROVE  TypeOK'
PROOF
<1> USE ServerAssumption DEF Running, loopVars, envVars, reqVars, writeVars,
        MainPCs, ChildPCs
<1>1. CASE MethodReturns(r)
  BY <1>1 DEF MethodReturns, TypeOK
<1>2. CASE Called(r) \/ Sent(r)
  BY <1>2 DEF Called, Sent, TypeOK, Errs
<1>3. CASE TimeoutFires(r)
  BY <1>3 DEF TimeoutFires, TypeOK, Errs
<1>4. CASE TimeoutBegin(r)
  BY <1>4, TypeWrite, WriterTypes DEF TimeoutBegin, TypeOK
<1>5. CASE TimeoutFails(r) \/ TimeoutEnd(r)
  BY <1>5, TypeWrite, WriterTypes DEF TimeoutFails, TimeoutEnd, TypeOK
<1>6. CASE ResultBegin(r)
  BY <1>6, TypeWrite, WriterTypes DEF ResultBegin, TypeOK
<1>7. CASE ResultFails(r) \/ ResultEnd(r)
  BY <1>7, TypeWrite, WriterTypes DEF ResultFails, ResultEnd, TypeOK
<1>8. CASE ResultPanics(r)
  BY <1>8 DEF ResultPanics, TypeOK
<1> QED
  BY <1>1, <1>2, <1>3, <1>4, <1>5, <1>6, <1>7, <1>8 DEF Main, Child, Meet

LEMMA TypeNext == TypeOK /\ WireInv /\ [Next]_vars => TypeOK'
PROOF
<1> SUFFICES ASSUME TypeOK, WireInv, [Next]_vars PROVE TypeOK'
  OBVIOUS
<1>1. CASE OverflowPanics \/ UNCHANGED vars
  BY <1>1 DEF OverflowPanics, vars, loopVars, envVars, reqVars, writeVars,
     TypeOK
<1> QED
  BY <1>1, TypeClient, TypeServe, TypeHandler DEF Next
-----------------------------------------------------------------------------
(* The wire                                                                *)

\* The headers on the wire are ones that were there before, in their order:
\* messages have been read, k of them with their headers.
Shrinks(k) ==
    \A i \in 1..Len(in') : in'[i].type = "header" =>
        i + k \in 1..Len(in) /\ in'[i] = in[i + k]

\* Reading, and any work for the request that is being read, keeps WireInv.
LEMMA WireRead ==
    ASSUME TypeOK, TypeOK', WireInv, NEW k \in Nat, Shrinks(k), sent' = sent,
           cur' \in {0, cur},
           \A r \in Reqs : Untouched(r) /\ r # cur => Untouched(r)'
    PROVE  WireInv'
PROOF
<1>0. sent \in 0..MaxReqs /\ cur \in 0..MaxReqs /\ in' \in Seq(InMsgs)
      /\ in \in Seq(InMsgs)
  BY DEF TypeOK
<1>1. (cur <= sent)'
  BY <1>0 DEF WireInv
<1>2. \A r \in Reqs : r > sent' => Untouched(r)'
  BY <1>0 DEF WireInv, Reqs
<1>3. ASSUME NEW i \in 1..Len(in'), in'[i].type = "header"
      PROVE  /\ in'[i].req \in 1..sent' /\ in'[i].req > cur'
             /\ Untouched(in[i].req)'
  <2>1. i + k \in 1..Len(in) /\ in'[i] = in[i + k]
    BY <1>3 DEF Shrinks
  <2>2. /\ in[i + k].req \in 1..sent /\ in[i + k].req > cur
        /\ Untouched(in[i + k].req)
    BY <1>3, <2>1 DEF WireInv
  <2> QED
    BY <1>0, <2>1, <2>2, ServerAssumption DEF Reqs
<1>4. ASSUME NEW i \in 1..Len(in'), NEW j \in 1..Len(in'), i < j,
             in'[i].type = "header", in'[j].type = "header"
      PROVE  in'[i].req < in'[j].req
  <2>1. /\ i + k \in 1..Len(in) /\ in'[i] = in[i + k]
        /\ j + k \in 1..Len(in) /\ in'[j] = in[j + k]
    BY <1>4 DEF Shrinks
  <2>2. i + k < j + k
    BY <1>4, <1>0
  <2> QED
    BY <1>4, <2>1, <2>2 DEF WireInv
<1> QED
  BY <1>1, <1>2, <1>3, <1>4 DEF WireInv

\* So does the header of the next request, which becomes the current one.
LEMMA WireHeader ==
    ASSUME TypeOK, TypeOK', WireInv, in # <<>>, Head(in).type = "header",
           in' = Tail(in), sent' = sent, cur' \in {cur, Head(in).req},
           \A r \in Reqs : Untouched(r) /\ r # Head(in).req => Untouched(r)'
    PROVE  WireInv'
PROOF
<1>0. /\ sent \in 0..MaxReqs /\ cur \in 0..MaxReqs /\ Len(in) \in Nat
      /\ Len(in) > 0 /\ Len(in') \in Nat
  BY DEF TypeOK
<1>1. /\ Head(in) = in[1] /\ Len(in') = Len(in) - 1
      /\ \A i \in 1..Len(in') : in'[i] = in[i + 1]
  BY TailWire
<1>2. /\ in[1].req \in Reqs /\ in[1].req <= sent /\ in[1].req > cur
  BY <1>1, HeadReq
<1>3. ASSUME NEW i \in 1..Len(in'), in'[i].type = "header"
      PROVE  /\ in'[i].req \in 1..sent' /\ in'[i].req > in[1].req
             /\ Untouched(in[i].req)'
  <2>1. i + 1 \in 1..Len(in) /\ 1 \in 1..Len(in) /\ 1 < i + 1
    BY <1>0, <1>1
  <2>2. /\ in[i + 1].req \in 1..sent /\ Untouched(in[i + 1].req)
        /\ in[1].req < in[i + 1].req
    BY <1>1, <1>3, <2>1 DEF WireInv
  <2> QED
    BY <1>0, <1>1, <1>2, <2>2, ServerAssumption DEF Reqs
<1>4. ASSUME NEW i \in 1..Len(in'), NEW j \in 1..Len(in'), i < j,
             in'[i].type = "header", in'[j].type = "header"
      PROVE  in'[i].req < in'[j].req
  <2>1. i + 1 \in 1..Len(in) /\ j + 1 \in 1..Len(in) /\ i + 1 < j + 1
    BY <1>0, <1>1, <1>4
  <2> QED
    BY <1>1, <1>4, <2>1 DEF WireInv
<1>5. cur' \in 0..sent /\ cur' <= in[1].req /\ in[1].req \in Nat
  BY <1>0, <1>1, <1>2, ServerAssumption DEF Reqs
<1>6. \A r \in Reqs : r > sent' => Untouched(r)'
  BY <1>0, <1>1, <1>2, ServerAssumption DEF WireInv, Reqs
<1>7. \A i \in 1..Len(in') : in'[i].type = "header" => in'[i].req > cur'
  BY <1>0, <1>3, <1>5
<1>8. (cur <= sent)'
  BY <1>0, <1>5
<1> QED
  BY <1>3, <1>4, <1>6, <1>7, <1>8 DEF WireInv

\* What the client sends is for a request nobody has heard of.
LEMMA WireClient == TypeOK /\ TypeOK' /\ WireInv /\ Client => WireInv'
PROOF
<1> SUFFICES ASSUME TypeOK, TypeOK', WireInv, Client PROVE WireInv'
  OBVIOUS
<1> USE ServerAssumption DEF Running, loopVars, reqVars, writeVars
<1>0. /\ sent \in 0..MaxReqs /\ cur \in 0..MaxReqs
      /\ in \in Seq(InMsgs) /\ in' \in Seq(InMsgs)
  BY DEF TypeOK
<1>1. ASSUME NEW m \in Methods, NEW b \in BodyKinds, ClientSend(m, b)
      PROVE  WireInv'
  <2> DEFINE h == Header(sent + 1, m)
             t == BodyOf(sent + 1, b)
  <2>0. /\ h.type = "header" /\ h.req = sent + 1 /\ t.type = "body"
        /\ sent' = sent + 1 /\ sent + 1 \in Reqs
        /\ UNCHANGED <<cur, main, child, herr, answered>>
    BY <1>0, <1>1 DEF ClientSend, Header, BodyOf, Reqs
  <2>1. in' = in \o (IF b = "missing" THEN <<h>> ELSE <<h, t>>)
    BY <1>1 DEF ClientSend
  <2> HIDE DEF h, t
  <2>2. \A r : Untouched(r)' <=> Untouched(r)
    BY <2>0 DEF Untouched
  <2>3. /\ Len(in') \in {Len(in) + 1, Len(in) + 2}
        /\ \A i \in 1..Len(in) : in'[i] = in[i]
        /\ in'[Len(in) + 1] = h
        /\ Len(in') = Len(in) + 2 => in'[Len(in) + 2] = t
    <3>1. CASE b = "missing"
      BY <1>0, <2>1, <3>1
    <3>2. CASE b # "missing"
      BY <1>0, <2>1, <3>2
    <3> QED
      BY <3>1, <3>2
  <2>4. \A i \in 1..Len(in') : in'[i].type = "header" =>
            i \in 1..Len(in) \/ (i = Len(in) + 1 /\ in'[i].req = sent + 1)
    <3> TAKE i \in 1..Len(in')
    <3>1. Len(in) \in Nat
      BY <1>0
    <3>2. i \in 1..Len(in) \/ i = Len(in) + 1
          \/ (i = Len(in) + 2 /\ Len(in') = Len(in) + 2)
      BY <2>3, <3>1
    <3> QED
      BY <2>0, <2>3, <3>2
  <2>5. (cur <= sent)'
    BY <1>0, <2>0 DEF WireInv
  <2>6. \A r \in Reqs : r > sent' => Untouched(r)'
    BY <1>0, <2>0, <2>2 DEF WireInv, Reqs
  <2>7. ASSUME NEW i \in 1..Len(in'), in'[i].type = "header"
        PROVE  /\ in'[i].req \in 1..sent' /\ in'[i].req > cur'
               /\ Untouched(in[i].req)'
    <3>1. CASE i \in 1..Len(in)
      BY <1>0, <2>0, <2>2, <2>3, <2>7, <3>1 DEF WireInv
    <3>2. CASE i = Len(in) + 1 /\ in'[i].req = sent + 1
      BY <1>0, <2>0, <2>2, <3>2 DEF WireInv, Reqs
    <3> QED
      BY <2>4, <2>7, <3>1, <3>2
  <2>8. ASSUME NEW i \in 1..Len(in'), NEW j \in 1..Len(in'), i < j,
               in'[i].type = "header", in'[j].type = "header"
        PROVE  in'[i].req < in'[j].req
    <3>0. i \in 1..Len(in)
      BY <1>0, <2>3, <2>4, <2>8
    <3>1. CASE j \in 1..Len(in)
      BY <2>3, <2>8, <3>0, <3>1 DEF WireInv
    <3>2. CASE j = Len(in) + 1 /\ in'[j].req = sent + 1
      BY <1>0, <2>3, <2>8, <3>0, <3>2 DEF WireInv
    <3> QED
      BY <2>4, <2>8, <3>1, <3>2
  <2> QED
    BY <2>5, <2>6, <2>7, <2>8 DEF WireInv
<1>2. CASE ClientGarbage \/ ClientClose
  <2>1. /\ in' = in \/ in' = Append(in, Junk)
        /\ UNCHANGED <<cur, sent, main, child, herr, answered>>
    BY <1>2 DEF ClientGarbage, ClientClose
  <2>2. Shrinks(0)
    BY <1>0, <2>1 DEF Shrinks, Junk
  <2>3. \A r \in Reqs : Untouched(r) => Untouched(r)'
    BY <2>1 DEF Untouched
  <2> QED
    BY <2>1, <2>2, <2>3, WireRead
<1> QED
  BY <1>1, <1>2 DEF Client

LEMMA WireServe == TypeOK /\ TypeOK' /\ WireInv /\ ServeConn => WireInv'
PROOF
<1> SUFFICES ASSUME TypeOK, TypeOK', WireInv, ServeConn PROVE WireInv'
  OBVIOUS
<1> USE DEF Running, loopVars, envVars, reqVars, writeVars
<1>0. /\ main \in [Reqs -> MainPCs] /\ child \in [Reqs -> ChildPCs]
      /\ herr \in [Reqs -> Errs] /\ answered \in [Reqs -> Nat]
      /\ in \in Seq(InMsgs)
  BY DEF TypeOK
<1>1. CASE ReadOption
  <2>1. PICK k \in 0..Len(in) : Shrinks(k)
    BY <1>1, RestOfWire DEF ReadOption, Shrinks
  <2>2. UNCHANGED <<cur, sent, main, child, herr, answered>>
    BY <1>1 DEF ReadOption
  <2>3. \A r \in Reqs : Untouched(r) => Untouched(r)'
    BY <2>2 DEF Untouched
  <2> QED
    BY <1>0, <2>1, <2>2, <2>3, WireRead
<1>2. CASE ReadHeader \/ FindServiceFails \/ NewReplyvPanics
  <2>1. /\ in # <<>> /\ Head(in).type = "header" /\ in' = Tail(in)
        /\ sent' = sent /\ cur' \in {cur, Head(in).req}
        /\ UNCHANGED <<main, child, answered>>
    BY <1>2 DEF ReadHeader, FindServiceFails, NewReplyvPanics
  <2>2. herr' = herr \/ herr' = [herr EXCEPT ![Head(in).req] = "invalid"]
    BY <1>2 DEF ReadHeader, FindServiceFails, NewReplyvPanics
  <2>3. \A r \in Reqs : Untouched(r) /\ r # Head(in).req => Untouched(r)'
    BY <1>0, <2>1, <2>2 DEF Untouched
  <2> QED
    BY <2>1, <2>3, WireHeader
<1>3. CASE ReadHeaderFails \/ ReadBody \/ ReadBodyFails
  <2>1. /\ in' = in \/ (in # <<>> /\ in' = Tail(in))
        /\ sent' = sent /\ cur' \in {0, cur} /\ UNCHANGED answered
    BY <1>3 DEF ReadHeaderFails, ReadBody, ReadBodyFails
  <2>2. /\ main' = main \/ main' = [main EXCEPT ![cur] = "wait"]
        /\ child' = child \/ child' = [child EXCEPT ![cur] = "call"]
        /\ herr' = herr \/ herr' = [herr EXCEPT ![cur] = "invalid"]
    BY <1>3 DEF ReadHeaderFails, ReadBody, ReadBodyFails
  <2>3. \A r \in Reqs : Untouched(r) /\ r # cur => Untouched(r)'
    BY <1>0, <2>1, <2>2 DEF Untouched
  <2>4. PICK k \in {0, 1} : Shrinks(k)
    <3>1. CASE in' = in
      BY <1>0, <3>1 DEF Shrinks
    <3>2. CASE in # <<>> /\ in' = Tail(in)
      BY <1>0, <3>2, TailWire DEF Shrinks
    <3> QED
      BY <2>1, <3>1, <3>2
  <2> QED
    BY <2>1, <2>3, <2>4, WireRead
<1>4. CASE RejectOption \/ RejectBegin \/ RejectFails \/ RejectEnd
           \/ CloseCodec
  <2>1. /\ UNCHANGED <<in, sent, main, child, herr>> /\ cur' \in {0, cur}
    BY <1>4 DEF RejectOption, RejectBegin, RejectFails, RejectEnd, CloseCodec
  <2>2. answered' = answered \/ answered' = [answered EXCEPT ![cur] = @ + 1]
    BY <1>4 DEF RejectOption, RejectBegin, RejectFails, RejectEnd, CloseCodec,
       BeginWrite, FailWrite, EndWrite
  <2>3. \A r \in Reqs : Untouched(r) /\ r # cur => Untouched(r)'
    BY <1>0, <2>1, <2>2 DEF Untouched
  <2>4. Shrinks(0)
    BY <1>0, <2>1 DEF Shrinks
  <2> QED
    BY <2>1, <2>3, <2>4, WireRead
<1> QED
  BY <1>1, <1>2, <1>3, <1>4 DEF ServeConn

\* A handler leaves the wire and the requests of others alone; its own is
\* not untouched.
LEMMA HandlerFrame ==
    ASSUME TypeOK, NEW r \in Reqs,
           Main(r) \/ Child(r) \/ Meet(r) \/ MethodReturns(r)
    PROVE  /\ UNCHANGED <<in, sent, cur, loop>>
           /\ main[r] # "none" \/ child[r] # "none"
           /\ \A s \in Reqs \ {r} :
                 /\ main'[s] = main[s] /\ child'[s] = child[s]
                 /\ herr'[s] = herr[s] /\ answered'[s] = answered[s]
PROOF
<1> USE DEF TypeOK, Running, loopVars, envVars, reqVars, writeVars
<1>1. CASE MethodReturns(r)
  BY <1>1 DEF MethodReturns
<1>2. CASE Meet(r)
  BY <1>2 DEF Meet, Called, Sent
<1>3. CASE Main(r)
  BY <1>3 DEF Main, TimeoutFires, TimeoutBegin, TimeoutFails, TimeoutEnd,
     BeginWrite, FailWrite, EndWrite
<1>4. CASE Child(r)
  BY <1>4 DEF Child, ResultBegin, ResultFails, ResultEnd, ResultPanics,
     BeginWrite, FailWrite, EndWrite
<1> QED
  BY <1>1, <1>2, <1>3, <1>4

LEMMA WireNext == TypeOK /\ TypeOK' /\ WireInv /\ [Next]_vars => WireInv'
PROOF
<1> SUFFICES ASSUME TypeOK, TypeOK', WireInv, [Next]_vars PROVE WireInv'
  OBVIOUS
<1>1. ASSUME NEW r \in Reqs,
             Main(r) \/ Child(r) \/ Meet(r) \/ MethodReturns(r)
      PROVE  WireInv'
  <2>1. /\ UNCHANGED <<in, sent, cur>>
        /\ \A s \in Reqs : Untouched(s) => Untouched(s)'
    BY <1>1, HandlerFrame DEF Untouched
  <2>2. Shrinks(0)
    BY <2>1 DEF Shrinks, TypeOK
  <2> QED
    BY <2>1, <2>2, WireRead
<1>2. CASE OverflowPanics \/ UNCHANGED vars
  <2>1. /\ UNCHANGED <<in, sent, cur>>
        /\ \A s \in Reqs : Untouched(s) => Untouched(s)'
    BY <1>2 DEF Untouched, OverflowPanics, vars, loopVars, envVars, reqVars, writeVars
  <2>2. Shrinks(0)
    BY <2>1 DEF Shrinks, TypeOK
  <2> QED
    BY <2>1, <2>2, WireRead
<1> QED
  BY <1>1, <1>2, WireClient, WireServe DEF Next
-----------------------------------------------------------------------------
(* The loop and the handlers                                               *)

LEMMA LoopServe == TypeOK /\ WireInv /\ LoopInv /\ ServeConn => LoopInv'
PROOF
<1> SUFFICES ASSUME TypeOK, WireInv, LoopInv, ServeConn PROVE LoopInv'
  OBVIOUS
<1> USE DEF Running, loopVars, envVars, reqVars, writeVars
<1>0. /\ main \in [Reqs -> MainPCs] /\ child \in [Reqs -> ChildPCs]
      /\ herr \in [Reqs -> Errs] /\ answered \in [Reqs -> Nat]
      /\ cur # 0 => cur \in Reqs
  BY DEF TypeOK, Reqs
<1>1. CASE ReadOption \/ RejectOption \/ CloseCodec
  <2>1. /\ UNCHANGED <<cur, main>> /\ loop' \in {"header", "closed"}
        /\ loop \in {"option", "wait"}
        /\ loop' = "closed" => \A r \in Reqs : main[r] \in {"none", "done"}
    BY <1>1 DEF ReadOption, RejectOption, CloseCodec, LoopInv
  <2> QED
    BY <2>1 DEF LoopInv
<1>2. CASE ReadHeader
  <2>1. Untouched(Head(in).req) /\ Head(in).req \in Reqs /\ 0 \notin Reqs
    BY <1>2, HeadReq DEF ReadHeader, Reqs
  <2> QED
    BY <1>2, <2>1 DEF ReadHeader, LoopInv, Untouched
<1>3. CASE FindServiceFails
  <2>1. Untouched(Head(in).req) /\ Head(in).req \in Reqs /\ 0 \notin Reqs
    BY <1>3, HeadReq DEF FindServiceFails, Reqs
  <2> QED
    BY <1>0, <1>3, <2>1 DEF FindServiceFails, LoopInv, Untouched, Unhandled
<1>4. CASE NewReplyvPanics
  BY <1>4 DEF NewReplyvPanics, LoopInv
<1>5. CASE ReadHeaderFails
  BY <1>5 DEF ReadHeaderFails, LoopInv
<1>6. CASE ReadBody
  BY <1>6 DEF ReadBody, LoopInv
<1>7. CASE ReadBodyFails
  BY <1>0, <1>7 DEF ReadBodyFails, LoopInv, Untouched, Unhandled
<1>8. CASE RejectBegin
  BY <1>8 DEF RejectBegin, BeginWrite, LoopInv, Unhandled
<1>9. CASE RejectFails \/ RejectEnd
  BY <1>9 DEF RejectFails, RejectEnd, LoopInv
<1> QED
  BY <1>1, <1>2, <1>3, <1>4, <1>5, <1>6, <1>7, <1>8, <1>9 DEF ServeConn

\* A handler starts or ends no handler of another request.
LEMMA LoopHandler ==
    ASSUME TypeOK, LoopInv, HandlerInv, NEW r \in Reqs,
           Main(r) \/ Child(r) \/ Meet(r) \/ MethodReturns(r)
    PROVE  LoopInv'
PROOF
<1>0. /\ UNCHANGED <<cur, loop>>
      /\ main[r] # "none" \/ child[r] # "none"
      /\ \A s \in Reqs \ {r} :
            /\ main'[s] = main[s] /\ child'[s] = child[s]
            /\ herr'[s] = herr[s] /\ answered'[s] = answered[s]
  BY HandlerFrame
<1>1. cur # 0 => cur \in Reqs
  BY DEF TypeOK, Reqs
<1>2. main[r] # "none"
  BY <1>0 DEF HandlerInv
<1>3. main[r] = "done" => main'[r] = "done"
  BY DEF TypeOK, Main, TimeoutFires, TimeoutBegin, TimeoutFails, TimeoutEnd,
     Child, ResultBegin, ResultFails, ResultEnd, ResultPanics,
     Meet, Called, Sent, MethodReturns, reqVars
<1> QED
  BY <1>0, <1>1, <1>2, <1>3 DEF LoopInv, Untouched, Unhandled

\* The loop touches only requests that have no handler.
LEMMA HandlersServe ==
    TypeOK /\ WireInv /\ LoopInv /\ HandlerInv /\ ServeConn => HandlerInv'
PROOF
<1> SUFFICES ASSUME TypeOK, WireInv, LoopInv, HandlerInv, ServeConn
             PROVE  HandlerInv'
  OBVIOUS
<1> USE DEF Running, loopVars, envVars, reqVars, writeVars
<1>0. /\ main \in [Reqs -> MainPCs] /\ child \in [Reqs -> ChildPCs]
      /\ herr \in [Reqs -> Errs] /\ answered \in [Reqs -> Nat]
      /\ cur # 0 => cur \in Reqs
  BY DEF TypeOK, Reqs
<1>1. CASE ReadOption \/ RejectOption \/ ReadHeader \/ NewReplyvPanics
           \/ ReadHeaderFails \/ RejectBegin \/ CloseCodec
  <2>1. UNCHANGED <<main, child, herr, answered>>
    BY <1>1 DEF ReadOption, RejectOption, ReadHeader, NewReplyvPanics,
       ReadHeaderFails, RejectBegin, CloseCodec, BeginWrite
  <2> QED
    BY <2>1 DEF HandlerInv
<1>2. CASE FindServiceFails \/ ReadBodyFails
  <2>1. PICK r \in Reqs :
            /\ herr' = [herr EXCEPT ![r] = "invalid"]
            /\ main[r] = "none" /\ UNCHANGED <<main, child, answered>>
    <3>1. CASE FindServiceFails
      BY <3>1, HeadReq DEF FindServiceFails, Untouched
    <3>2. CASE ReadBodyFails
      BY <3>2, <1>0 DEF ReadBodyFails, LoopInv, Untouched
    <3> QED
      BY <1>2, <3>1, <3>2
  <2> QED
    BY <1>0, <2>1 DEF HandlerInv
<1>3. CASE ReadBody
  <2>1. cur \in Reqs /\ Untouched(cur)
    BY <1>0, <1>3 DEF ReadBody, LoopInv
  <2> QED
    BY <1>0, <1>3, <2>1 DEF ReadBody, HandlerInv, Untouched
<1>4. CASE RejectFails \/ RejectEnd
  <2>1. cur \in Reqs /\ Unhandled(cur) /\ answered[cur] = 0
    BY <1>0, <1>4 DEF RejectFails, RejectEnd, LoopInv
  <2>2. /\ answered' = [answered EXCEPT ![cur] = @ + 1]
        /\ UNCHANGED <<main, child, herr>>
    BY <1>4 DEF RejectFails, RejectEnd, FailWrite, EndWrite
  <2>3. answered' = [answered EXCEPT ![cur] = 1]
    BY <1>0, <2>1, <2>2
  <2> QED
    BY <1>0, <2>1, <2>2, <2>3 DEF HandlerInv, Unhandled
<1> QED
  BY <1>1, <1>2, <1>3, <1>4 DEF ServeConn

\* handleRequest and its child go on together.
LEMMA HandlersHandler ==
    ASSUME TypeOK, HandlerInv, NEW r \in Reqs,
           Main(r) \/ Child(r) \/ Meet(r) \/ MethodReturns(r)
    PROVE  HandlerInv'
PROOF
<1> USE DEF Running, loopVars, envVars, reqVars, writeVars
<1>0. /\ main \in [Reqs -> MainPCs] /\ child \in [Reqs -> ChildPCs]
      /\ herr \in [Reqs -> Errs] /\ answered \in [Reqs -> Nat]
  BY DEF TypeOK
<1>1. CASE MethodReturns(r)
  BY <1>0, <1>1 DEF MethodReturns, HandlerInv
<1>2. CASE Called(r)
  BY <1>0, <1>2 DEF Called, HandlerInv
<1>3. CASE Sent(r)
  BY <1>0, <1>3 DEF Sent, HandlerInv
<1>4. CASE TimeoutFires(r)
  BY <1>0, <1>4 DEF TimeoutFires, HandlerInv
<1>5. CASE TimeoutBegin(r)
  BY <1>0, <1>5 DEF TimeoutBegin, BeginWrite, HandlerInv
<1>6. CASE TimeoutFails(r) \/ TimeoutEnd(r)
  <2>1. /\ main[r] \in {"timeout", "timeoutBody"}
        /\ main' = [main EXCEPT ![r] = "done"]
        /\ answered' = [answered EXCEPT ![r] = @ + 1]
        /\ UNCHANGED <<child, herr>>
    BY <1>6 DEF TimeoutFails, TimeoutEnd, FailWrite, EndWrite
  <2> QED
    BY <1>0, <2>1 DEF HandlerInv
<1>7. CASE ResultBegin(r)
  BY <1>0, <1>7 DEF ResultBegin, BeginWrite, HandlerInv
<1>8. CASE ResultFails(r) \/ ResultEnd(r)
  <2>1. /\ child[r] \in {"send", "sendBody"}
        /\ child' = [child EXCEPT ![r] = "sent"]
        /\ answered' = [answered EXCEPT ![r] = @ + 1]
        /\ UNCHANGED <<main, herr>>
    BY <1>8 DEF ResultFails, ResultEnd, FailWrite, EndWrite
  <2>2. main[r] = "sent"
    BY <1>0, <2>1 DEF HandlerInv, MainPCs
  <2> QED
    BY <1>0, <2>1, <2>2 DEF HandlerInv
<1>9. CASE ResultPanics(r)
  BY <1>9 DEF ResultPanics, HandlerInv
<1> QED
  BY <1>1, <1>2, <1>3, <1>4, <1>5, <1>6, <1>7, <1>8, <1>9
     DEF Main, Child, Meet
-----------------------------------------------------------------------------
(* The sending mutex                                                       *)

\* Steps that neither take nor release the mutex keep its holder.
LEMMA MutexFrame ==
    ASSUME MutexInv, sending' = sending,
           (loop' = "rejectBody") <=> (loop = "rejectBody"),
           \A r \in Reqs :
              /\ (main'[r] = "timeoutBody") <=> (main[r] = "timeoutBody")
              /\ (child'[r] = "sendBody") <=> (child[r] = "sendBody")
    PROVE  MutexInv'
BY DEF MutexInv

LEMMA MutexServe == TypeOK /\ LoopInv /\ MutexInv /\ ServeConn => MutexInv'
PROOF
<1> SUFFICES ASSUME TypeOK, LoopInv, MutexInv, ServeConn PROVE MutexInv'
  OBVIOUS
<1> USE DEF Running, loopVars, envVars, reqVars, writeVars
<1>0. /\ main \in [Reqs -> MainPCs] /\ child \in [Reqs -> ChildPCs]
      /\ cur # 0 => cur \in Reqs
  BY DEF TypeOK, Reqs
<1>1. CASE ReadOption \/ RejectOption \/ ReadHeader \/ NewReplyvPanics
           \/ ReadHeaderFails \/ FindServiceFails \/ ReadBodyFails
           \/ RejectFails \/ CloseCodec
  <2>1. /\ UNCHANGED <<main, child, sending>>
        /\ loop # "rejectBody" /\ loop' # "rejectBody"
    BY <1>1 DEF ReadOption, RejectOption, ReadHeader, NewReplyvPanics,
       ReadHeaderFails, FindServiceFails, ReadBodyFails, RejectFails,
       CloseCodec, FailWrite
  <2> QED
    BY <2>1, MutexFrame
<1>2. CASE ReadBody
  BY <1>0, <1>2, MutexFrame DEF ReadBody, LoopInv, Untouched
<1>3. CASE RejectBegin
  BY <1>3 DEF RejectBegin, BeginWrite, MutexInv, Free
<1>4. CASE RejectEnd
  BY <1>4 DEF RejectEnd, EndWrite, MutexInv, Free
<1> QED
  BY <1>1, <1>2, <1>3, <1>4 DEF ServeConn

LEMMA MutexHandler ==
    ASSUME TypeOK, MutexInv, NEW r \in Reqs,
           Main(r) \/ Child(r) \/ Meet(r) \/ MethodReturns(r)
    PROVE  MutexInv'
PROOF
<1> USE DEF Running, loopVars, envVars, reqVars, writeVars
<1>0. /\ main \in [Reqs -> MainPCs] /\ child \in [Reqs -> ChildPCs]
  BY DEF TypeOK
<1>1. CASE MethodReturns(r) \/ Called(r) \/ Sent(r) \/ TimeoutFires(r)
           \/ TimeoutFails(r) \/ ResultFails(r) \/ ResultPanics(r)
  <2>1. UNCHANGED <<sending, loop>>
    BY <1>1 DEF MethodReturns, Called, Sent, TimeoutFires, TimeoutFails,
       ResultFails, ResultPanics, FailWrite
  <2>2. \A s \in Reqs :
            /\ (main'[s] = "timeoutBody") <=> (main[s] = "timeoutBody")
            /\ (child'[s] = "sendBody") <=> (child[s] = "sendBody")
    BY <1>0, <1>1 DEF MethodReturns, Called, Sent, TimeoutFires, TimeoutFails,
       ResultFails, ResultPanics
  <2> QED
    BY <2>1, <2>2, MutexFrame
<1>2. CASE TimeoutBegin(r)
  BY <1>0, <1>2 DEF TimeoutBegin, BeginWrite, MutexInv, Free
<1>3. CASE TimeoutEnd(r)
  BY <1>0, <1>3 DEF TimeoutEnd, EndWrite, MutexInv, Free
<1>4. CASE ResultBegin(r)
  BY <1>0, <1>4 DEF ResultBegin, BeginWrite, MutexInv, Free
<1>5. CASE ResultEnd(r)
  BY <1>0, <1>5 DEF ResultEnd, EndWrite, MutexInv, Free
<1> QED
  BY <1>1, <1>2, <1>3, <1>4, <1>5 DEF Main, Child, Meet
-----------------------------------------------------------------------------
(* The answers on the wire                                                 *)

\* A header after whole answers.
LEMMA FrameBegin ==
    ASSUME TypeOK, FramesPaired, Len(out) % 2 = 0, NEW r \in Reqs,
           NEW err \in Errs, out' = Append(out, Header(r, err))
    PROVE  FramesPaired' /\ Half(r, {err})'
PROOF
<1> DEFINE h == Header(r, err)
<1>a. out \in Seq(OutMsgs)
  BY DEF TypeOK
<1>0. out \in Seq(OutMsgs) /\ Len(out) \in Nat
  BY <1>a
<1>1. h.type = "header" /\ h.req = r /\ h.kind = err
  BY DEF Header
<1> HIDE DEF h
<1>2. /\ Len(out') = Len(out) + 1 /\ out'[Len(out) + 1] = h
      /\ \A i \in 1..Len(out) : out'[i] = out[i]
  BY <1>0 DEF h
<1>3. (Len(out) + 1) % 2 = 1
  BY <1>0
<1>4. ASSUME NEW i \in 1..Len(out')
      PROVE  /\ out'[i].type = (IF i % 2 = 1 THEN "header" ELSE "body")
             /\ i % 2 = 0 =>
                  /\ out'[i].req = out'[i - 1].req
                  /\ (out'[i].kind = "reply")
                         = (out'[i - 1].kind \in {"none", "call"})
  <2>1. CASE i = Len(out) + 1
    BY <1>1, <1>2, <1>3, <2>1
  <2>2. CASE i \in 1..Len(out)
    <3>1. i % 2 = 0 => i - 1 \in 1..Len(out)
      BY <1>0, <2>2
    <3> QED
      BY <1>2, <2>2, <3>1 DEF FramesPaired
  <2> QED
    BY <1>0, <1>2, <2>1, <2>2
<1>5. FramesPaired'
  BY <1>4 DEF FramesPaired
<1>6. Half(r, {err})'
  BY <1>1, <1>2, <1>3 DEF Half
<1> QED
  BY <1>5, <1>6

\* The body that belongs to the last header.
LEMMA FrameEnd ==
    ASSUME TypeOK, FramesPaired, NEW r \in Reqs, NEW kinds, Half(r, kinds),
           NEW body, out' = Append(out, BodyOf(r, body)),
           \A k \in kinds : (body = "reply") <=> (k \in {"none", "call"})
    PROVE  FramesPaired' /\ Len(out') % 2 = 0
PROOF
<1> DEFINE b == BodyOf(r, body)
<1>0. out \in Seq(OutMsgs) /\ Len(out) \in Nat
  BY DEF TypeOK
<1>1. b.type = "body" /\ b.req = r /\ b.kind = body
  BY DEF BodyOf
<1> HIDE DEF b
<1>2. /\ Len(out') = Len(out) + 1 /\ out'[Len(out) + 1] = b
      /\ \A i \in 1..Len(out) : out'[i] = out[i]
  BY <1>0 DEF b
<1>3. (Len(out) + 1) % 2 = 0 /\ Len(out) \in 1..Len(out)
  BY <1>0 DEF Half
<1>4. ASSUME NEW i \in 1..Len(out')
      PROVE  /\ out'[i].type = (IF i % 2 = 1 THEN "header" ELSE "body")
             /\ i % 2 = 0 =>
                  /\ out'[i].req = out'[i - 1].req
                  /\ (out'[i].kind = "reply")
                         = (out'[i - 1].kind \in {"none", "call"})
  <2>1. CASE i = Len(out) + 1
    <3>1. i - 1 = Len(out) /\ i % 2 = 0
      BY <1>0, <1>3, <2>1
    <3>2. out'[i] = b /\ out'[i - 1] = out[Len(out)]
      BY <1>2, <1>3, <2>1, <3>1
    <3>3. (body = "reply") <=> (out[Len(out)].kind \in {"none", "call"})
      BY DEF Half
    <3> QED
      BY <1>1, <3>1, <3>2, <3>3 DEF Half
  <2>2. CASE i \in 1..Len(out)
    <3>1. i % 2 = 0 => i - 1 \in 1..Len(out)
      BY <1>0, <2>2
    <3> QED
      BY <1>2, <2>2, <3>1 DEF FramesPaired
  <2> QED
    BY <1>0, <1>2, <2>1, <2>2
<1> QED
  BY <1>2, <1>3, <1>4 DEF FramesPaired

\* The state of the answers, as far as the loop and the handlers see it.
Answers == FramesPaired /\ OutInv

LEMMA AnswersFrame ==
    ASSUME Answers, out' = out, sending' = sending,
           sending = <<"loop", 0>> => cur' = cur
    PROVE  Answers'
BY DEF Answers, FramesPaired, OutInv, Half

\* The loop writes a header when the mutex is free, and then its body.
LEMMA AnswersServe ==
    TypeOK /\ LoopInv /\ MutexInv /\ Answers /\ ServeConn => Answers'
PROOF
<1> SUFFICES ASSUME TypeOK, LoopInv, MutexInv, Answers, ServeConn
             PROVE  Answers'
  OBVIOUS
<1> USE DEF Running, loopVars, envVars, reqVars, writeVars
<1>0. cur # 0 => cur \in Reqs
  BY DEF TypeOK, Reqs
<1>1. CASE ReadOption \/ RejectOption \/ ReadHeader \/ NewReplyvPanics
           \/ ReadHeaderFails \/ FindServiceFails \/ ReadBody \/ ReadBodyFails
           \/ RejectFails \/ CloseCodec
  <2>1. UNCHANGED <<out, sending>> /\ loop # "rejectBody"
    BY <1>1 DEF ReadOption, RejectOption, ReadHeader, NewReplyvPanics,
       ReadHeaderFails, FindServiceFails, ReadBody, ReadBodyFails,
       RejectFails, CloseCodec, FailWrite
  <2> QED
    BY <2>1, AnswersFrame DEF MutexInv
<1>2. CASE RejectBegin
  <2>1. /\ cur \in Reqs /\ herr[cur] = "invalid" /\ "invalid" \in Errs
        /\ sending = Free /\ sending' = <<"loop", 0>> /\ cur' = cur
        /\ out' = Append(out, Header(cur, "invalid"))
    BY <1>0, <1>2 DEF RejectBegin, BeginWrite, LoopInv, Errs
  <2>2. FramesPaired' /\ Half(cur, {"invalid"})'
    BY <2>1, FrameBegin DEF Answers, OutInv
  <2> QED
    BY <2>1, <2>2 DEF Answers, OutInv, Free
<1>3. CASE RejectEnd
  <2>1. /\ cur \in Reqs /\ sending = <<"loop", 0>> /\ sending' = Free
        /\ out' = Append(out, BodyOf(cur, "invalid"))
    BY <1>0, <1>3 DEF RejectEnd, EndWrite, LoopInv, MutexInv
  <2>2. FramesPaired' /\ Len(out') % 2 = 0
    BY <2>1, FrameEnd DEF Answers, OutInv
  <2> QED
    BY <2>1, <2>2 DEF Answers, OutInv, Free
<1> QED
  BY <1>1, <1>2, <1>3 DEF ServeConn

\* So do handleRequest, for a timeout, and its child, for a result.
LEMMA AnswersHandler ==
    ASSUME TypeOK, HandlerInv, MutexInv, Answers, NEW r \in Reqs,
           Main(r) \/ Child(r) \/ Meet(r) \/ MethodReturns(r)
    PROVE  Answers'
PROOF
<1> USE DEF Running, loopVars, envVars, reqVars, writeVars
<1>1. CASE MethodReturns(r) \/ Called(r) \/ Sent(r) \/ TimeoutFires(r)
           \/ TimeoutFails(r) \/ ResultFails(r) \/ ResultPanics(r)
  <2>1. UNCHANGED <<out, sending, cur>>
    BY <1>1 DEF MethodReturns, Called, Sent, TimeoutFires, TimeoutFails,
       ResultFails, ResultPanics, FailWrite
  <2> QED
    BY <2>1, AnswersFrame
<1>2. CASE TimeoutBegin(r)
  <2>1. /\ herr[r] = "timeout" /\ "timeout" \in Errs
        /\ sending = Free /\ sending' = <<"main", r>>
        /\ out' = Append(out, Header(r, "timeout"))
    BY <1>2 DEF TimeoutBegin, BeginWrite, HandlerInv, Errs
  <2>2. FramesPaired' /\ Half(r, {"timeout"})'
    BY <2>1, FrameBegin DEF Answers, OutInv
  <2> QED
    BY <2>1, <2>2 DEF Answers, OutInv, Free
<1>3. CASE TimeoutEnd(r)
  <2>1. /\ sending = <<"main", r>> /\ sending' = Free
        /\ out' = Append(out, BodyOf(r, "invalid"))
    BY <1>3 DEF TimeoutEnd, EndWrite, MutexInv
  <2>2. FramesPaired' /\ Len(out') % 2 = 0
    BY <2>1, FrameEnd DEF Answers, OutInv
  <2> QED
    BY <2>1, <2>2 DEF Answers, OutInv, Free
<1>4. CASE ResultBegin(r)
  <2>0. PICK err \in {"none", "call"} : herr[r] = err
    BY <1>4 DEF ResultBegin, HandlerInv, TypeOK, MainPCs
  <2>1. /\ err \in Errs /\ sending = Free /\ sending' = <<"child", r>>
        /\ out' = Append(out, Header(r, err))
    BY <1>4, <2>0 DEF ResultBegin, BeginWrite, Errs
  <2>2. FramesPaired' /\ Half(r, {err})'
    BY <2>1, FrameBegin DEF Answers, OutInv
  <2> QED
    BY <2>1, <2>2 DEF Answers, OutInv, Free, Half
<1>5. CASE ResultEnd(r)
  <2>1. /\ sending = <<"child", r>> /\ sending' = Free
        /\ out' = Append(out, BodyOf(r, "reply"))
    BY <1>5 DEF ResultEnd, EndWrite, MutexInv
  <2>2. FramesPaired' /\ Len(out') % 2 = 0
    BY <2>1, FrameEnd DEF Answers, OutInv
  <2> QED
    BY <2>1, <2>2 DEF Answers, OutInv, Free
<1> QED
  BY <1>1, <1>2, <1>3, <1>4, <1>5 DEF Main, Child, Meet
-----------------------------------------------------------------------------
(* The theorems                                                            *)

LEMMA InductiveInit == Init => IInv
PROOF
<1> SUFFICES ASSUME Init PROVE IInv
  OBVIOUS
<1>1. WireInv /\ LoopInv /\ HandlerInv
  BY ServerAssumption DEF Init, WireInv, LoopInv, HandlerInv, Untouched, Reqs
<1>2. MutexInv /\ OutInv /\ FramesPaired
  BY DEF Init, MutexInv, OutInv, FramesPaired, Free
<1> QED
  BY <1>1, <1>2, TypeInit DEF IInv

LEMMA InductiveNext == IInv /\ [Next]_vars => IInv'
PROOF
<1> SUFFICES ASSUME IInv, [Next]_vars PROVE IInv'
  OBVIOUS
<1>0. /\ TypeOK /\ WireInv /\ LoopInv /\ HandlerInv /\ MutexInv /\ Answers
      /\ TypeOK' /\ WireInv'
  BY TypeNext, WireNext DEF IInv, Answers
<1>1. CASE Client \/ OverflowPanics \/ UNCHANGED vars
  <2>1. UNCHANGED <<loop, cur, main, child, herr, answered, sending, out>>
    BY <1>1 DEF Client, ClientSend, ClientGarbage, ClientClose, Running,
       OverflowPanics, vars, loopVars, envVars, reqVars, writeVars
  <2>2. LoopInv' /\ HandlerInv' /\ MutexInv'
    BY <1>0, <2>1 DEF LoopInv, HandlerInv, MutexInv, Untouched, Unhandled
  <2>3. Answers'
    BY <1>0, <2>1, AnswersFrame
  <2> QED
    BY <1>0, <2>2, <2>3 DEF IInv, Answers
<1>2. CASE ServeConn
  BY <1>0, <1>2, LoopServe, HandlersServe, MutexServe, AnswersServe
     DEF IInv, Answers
<1>3. ASSUME NEW r \in Reqs,
             Main(r) \/ Child(r) \/ Meet(r) \/ MethodReturns(r)
      PROVE  IInv'
  BY <1>0, <1>3, LoopHandler, HandlersHandler, MutexHandler, AnswersHandler
     DEF IInv, Answers
<1> QED
  BY <1>1, <1>2, <1>3 DEF Next

\* The inductive invariant holds in every state of the server: the numbers on
\* the wire, what the loop reads, how far each handler and its child are, who
\* holds the mutex and what has been written all fit together.
THEOREM Inductive == Spec => []IInv
PROOF
<1> QED
  BY InductiveInit, InductiveNext, PTL DEF Spec

\* Whatever the race between a method's return and its timeout, sendResponse
\* is called at most once for a request.
THEOREM AnsweredAtMostOnce == Spec => []AnsweredOnce
PROOF
<1>1. IInv => AnsweredOnce
  <2> SUFFICES ASSUME IInv, NEW r \in Reqs PROVE answered[r] <= 1
    BY DEF AnsweredOnce
  <2>1. main[r] \in MainPCs /\ answered[r] \in Nat
    BY DEF IInv, TypeOK
  <2> QED
    BY <2>1 DEF IInv, HandlerInv, MainPCs
<1> QED
  BY <1>1, Inductive, PTL

\* Header and body of an answer are written without another between them, and
\* agree.
THEOREM AnswersStayWhole == Spec => []FramesPaired
PROOF
<1>1. IInv => FramesPaired
  BY DEF IInv
<1> QED
  BY <1>1, Inductive, PTL

\* serveCodec closes the connection when every handler has answered.
THEOREM CloseIsLast == Spec => []ClosedMeansAnswered
PROOF
<1>1. IInv => ClosedMeansAnswered
  BY DEF IInv, LoopInv, HandlerInv, ClosedMeansAnswered
<1> QED
  BY <1>1, Inductive, PTL

\* The child of a request that did not time out ends with its handler.
THEOREM OnlyTimeoutsLeak == Spec => []LeakOnlyOnTimeout
PROOF
<1>1. IInv => LeakOnlyOnTimeout
  BY DEF IInv, HandlerInv, LeakOnlyOnTimeout
<1> QED
  BY <1>1, Inductive, PTL
-----------------------------------------------------------------------------
(* No request is lost without a cause                                      *)

\* The messages q are headers and bodies in turn, with a body last, and the
\* first is a body if and only if the loop waits for one.
Framed(q, body) ==
    /\ \A i \in 1..Len(q) : q[i].type \in {"header", "body"}
    /\ \A i \in 2..Len(q) : q[i].type # q[i - 1].type
    /\ Len(q) = 0 => ~ body
    /\ Len(q) > 0 => /\ q[1].type = (IF body THEN "body" ELSE "header")
                     /\ q[Len(q)].type = "body"

OnWire(r) == \E i \in 1..Len(in) : in[i].type = "header" /\ in[i].req = r

\* Without a cause the loop goes on reading an open connection, and a request
\* that was sent is on the wire, being read, or with its handler.
LossInv == ~ Cause /\ ~ crashed =>
    /\ ~ closed /\ ~ bufErr
    /\ loop \in {"option", "header", "body"}
    /\ Framed(in, loop = "body")
    /\ \A r \in 1..sent :
          OnWire(r) \/ (loop = "body" /\ cur = r) \/ main[r] # "none"

\* A cause stays: an answer of a request is not invalid once its handler runs.
LEMMA CauseStays == IInv /\ [Next]_vars /\ Cause => Cause'
PROOF
<1> SUFFICES ASSUME IInv, [Next]_vars, Cause PROVE Cause'
  OBVIOUS
<1> USE DEF Running, loopVars, envVars, reqVars, writeVars
<1>0. TypeOK /\ WireInv /\ LoopInv /\ HandlerInv /\ herr \in [Reqs -> Errs]
  BY DEF IInv, TypeOK
<1>1. ASSUME NEW r \in Reqs,
             Main(r) \/ Child(r) \/ Meet(r) \/ MethodReturns(r)
      PROVE  Cause'
  <2>1. /\ UNCHANGED <<opt, eof, garbled, faults>>
        /\ herr'[r] = herr[r] \/ main[r] = "wait"
    BY <1>1 DEF MethodReturns, Meet, Called, Sent,
       Main, TimeoutFires, TimeoutBegin, TimeoutFails, TimeoutEnd,
       Child, ResultBegin, ResultFails, ResultEnd, ResultPanics
  <2>2. herr[r] = "invalid" => herr'[r] = "invalid"
    BY <1>0, <2>1 DEF HandlerInv
  <2>3. \A s \in Reqs \ {r} : herr'[s] = herr[s]
    BY <1>0, <1>1, HandlerFrame
  <2> QED
    BY <2>1, <2>2, <2>3 DEF Cause
<1>2. CASE Client \/ OverflowPanics \/ UNCHANGED vars
  <2>1. ASSUME NEW m \in Methods, NEW b \in BodyKinds, ClientSend(m, b)
        PROVE  Cause'
    <3>1. UNCHANGED <<opt, herr, eof, garbled>> /\ faults \subseteq faults'
      BY <2>1 DEF ClientSend
    <3> QED
      BY <3>1 DEF Cause
  <2>2. CASE ClientGarbage
    BY <2>2 DEF ClientGarbage, Cause
  <2>3. CASE ClientClose
    BY <2>3 DEF ClientClose, Cause
  <2>4. CASE OverflowPanics \/ UNCHANGED vars
    BY <2>4 DEF OverflowPanics, vars, Cause
  <2> QED
    BY <1>2, <2>1, <2>2, <2>3, <2>4 DEF Client
<1>3. CASE ServeConn
  <2>1. /\ UNCHANGED <<opt, eof, garbled>> /\ faults \subseteq faults'
        /\ \/ UNCHANGED herr
           \/ herr' = [herr EXCEPT ![cur] = "invalid"]
           \/ herr' = [herr EXCEPT ![Head(in).req] = "invalid"]
    <3>1. CASE ReadOption \/ RejectOption
      BY <3>1 DEF ReadOption, RejectOption
    <3>2. CASE ReadHeader \/ FindServiceFails \/ NewReplyvPanics
               \/ ReadHeaderFails
      BY <3>2 DEF ReadHeader, FindServiceFails, NewReplyvPanics,
         ReadHeaderFails
    <3>3. CASE ReadBody \/ ReadBodyFails
      BY <3>3 DEF ReadBody, ReadBodyFails
    <3>4. CASE RejectBegin \/ RejectFails \/ RejectEnd \/ CloseCodec
      BY <3>4 DEF RejectBegin, RejectFails, RejectEnd, CloseCodec
    <3> QED
      BY <1>3, <3>1, <3>2, <3>3, <3>4 DEF ServeConn
  <2>2. \A r \in Reqs : herr[r] = "invalid" => herr'[r] = "invalid"
    BY <1>0, <2>1
  <2> QED
    BY <2>1, <2>2 DEF Cause
<1> QED
  BY <1>1, <1>2, <1>3 DEF Next

\* The first message and the rest.
LEMMA FramedTail ==
    ASSUME NEW q \in Seq(InMsgs), NEW body \in BOOLEAN, Framed(q, body),
           q # <<>>
    PROVE  /\ Head(q).type = (IF body THEN "body" ELSE "header")
           /\ Framed(Tail(q), ~ body)
PROOF
<1> DEFINE t == Tail(q)
<1>1. /\ Len(q) \in Nat /\ Len(q) > 0 /\ Len(t) = Len(q) - 1
      /\ Head(q) = q[1] /\ \A i \in 1..Len(t) : t[i] = q[i + 1]
  BY HeadTailProperties
<1> HIDE DEF t
<1>2. Head(q).type = (IF body THEN "body" ELSE "header")
  BY <1>1 DEF Framed
<1>3. \A i \in 1..Len(t) : t[i].type \in {"header", "body"}
  <2>1. \A i \in 1..Len(t) : i + 1 \in 1..Len(q)
    BY <1>1
  <2> QED
    BY <1>1, <2>1 DEF Framed
<1>4. ASSUME NEW i \in 2..Len(t) PROVE t[i].type # t[i - 1].type
  <2>1. i \in 1..Len(t) /\ i - 1 \in 1..Len(t) /\ i + 1 \in 2..Len(q)
        /\ (i - 1) + 1 = (i + 1) - 1
    BY <1>1
  <2>2. t[i] = q[i + 1] /\ t[i - 1] = q[(i - 1) + 1]
    BY <1>1, <2>1
  <2>3. q[i + 1].type # q[(i + 1) - 1].type
    BY <2>1 DEF Framed
  <2> QED
    BY <2>1, <2>2, <2>3
<1>5. Len(t) = 0 => body
  <2> SUFFICES ASSUME Len(t) = 0 PROVE body
    OBVIOUS
  <2>1. Len(q) = 1
    BY <1>1
  <2> QED
    BY <2>1 DEF Framed
<1>6. ASSUME Len(t) > 0
      PROVE  /\ t[1].type = (IF body THEN "header" ELSE "body")
             /\ t[Len(t)].type = "body"
  <2>1. 1 \in 1..Len(t) /\ Len(t) \in 1..Len(t) /\ 2 \in 2..Len(q)
        /\ Len(t) + 1 = Len(q)
    BY <1>1, <1>6
  <2>2. t[1] = q[2] /\ t[Len(t)] = q[Len(q)]
    BY <1>1, <2>1
  <2>3. q[2].type # q[1].type /\ q[2].type \in {"header", "body"}
    BY <2>1 DEF Framed
  <2> QED
    BY <1>1, <2>2, <2>3 DEF Framed
<1>7. Framed(t, ~ body)
  BY <1>3, <1>4, <1>5, <1>6 DEF Framed
<1> QED
  BY <1>2, <1>7 DEF t

\* A whole request is added.
LEMMA FramedSend ==
    ASSUME NEW q \in Seq(InMsgs), NEW body \in BOOLEAN, Framed(q, body),
           NEW p, Len(p) = Len(q) + 2, \A i \in 1..Len(q) : p[i] = q[i],
           p[Len(q) + 1].type = "header", p[Len(q) + 2].type = "body"
    PROVE  Framed(p, body)
PROOF
<1>1. /\ Len(q) \in Nat /\ Len(p) = Len(q) + 2
      /\ \A i \in 1..Len(q) : p[i] = q[i]
      /\ p[Len(q) + 1].type = "header" /\ p[Len(q) + 2].type = "body"
  OBVIOUS
<1>2. \A i \in 1..Len(p) :
          i \in 1..Len(q) \/ i = Len(q) + 1 \/ i = Len(q) + 2
  BY <1>1
<1>3. \A i \in 1..Len(p) : p[i].type \in {"header", "body"}
  BY <1>1, <1>2 DEF Framed
<1>4. ASSUME NEW i \in 2..Len(p) PROVE p[i].type # p[i - 1].type
  <2>1. CASE i \in 2..Len(q)
    <3>1. i \in 1..Len(q) /\ i - 1 \in 1..Len(q)
      BY <1>1, <2>1
    <3> QED
      BY <1>1, <2>1, <3>1 DEF Framed
  <2>2. CASE i = Len(q) + 1
    <3>1. Len(q) > 0 /\ i - 1 = Len(q) /\ Len(q) \in 1..Len(q)
      BY <1>1, <2>2
    <3>2. p[i].type = "header" /\ p[i - 1].type = "body"
      BY <1>1, <2>2, <3>1 DEF Framed
    <3> QED
      BY <3>2
  <2>3. CASE i = Len(q) + 2
    <3>1. i - 1 = Len(q) + 1
      BY <1>1, <2>3
    <3> QED
      BY <1>1, <2>3, <3>1
  <2> QED
    BY <1>1, <2>1, <2>2, <2>3
<1>5. p[1].type = (IF body THEN "body" ELSE "header")
  <2>1. CASE Len(q) = 0
    BY <1>1, <2>1 DEF Framed
  <2>2. CASE Len(q) > 0
    BY <1>1, <2>2 DEF Framed
  <2> QED
    BY <1>1, <2>1, <2>2
<1>6. p[Len(p)].type = "body" /\ Len(p) # 0
  BY <1>1
<1> QED
  BY <1>3, <1>4, <1>5, <1>6 DEF Framed

\* A handler writes without an error as long as the connection is whole, and
\* does not go back to the start.
LEMMA HandlerWrites ==
    ASSUME TypeOK, ~ closed, ~ bufErr, ~ eof, NEW r \in Reqs,
           Main(r) \/ Child(r) \/ Meet(r) \/ MethodReturns(r)
    PROVE  ~ closed' /\ ~ bufErr' /\ (main[r] # "none" => main'[r] # "none")
PROOF
<1> USE DEF TypeOK, Running, loopVars, envVars, reqVars, writeVars
<1>1. CASE MethodReturns(r) \/ Meet(r)
  BY <1>1 DEF MethodReturns, Meet, Called, Sent
<1>2. CASE Main(r)
  BY <1>2 DEF Main, TimeoutFires, TimeoutBegin, TimeoutFails, TimeoutEnd,
     BeginWrite, FailWrite, EndWrite, Gone
<1>3. CASE Child(r)
  BY <1>3 DEF Child, ResultBegin, ResultFails, ResultEnd, ResultPanics,
     BeginWrite, FailWrite, EndWrite, Gone
<1> QED
  BY <1>1, <1>2, <1>3

\* A message is read: only its own request leaves the wire.
LEMMA OnWireTail ==
    ASSUME TypeOK, in # <<>>, in' = Tail(in), NEW r, OnWire(r),
           ~ (Head(in).type = "header" /\ Head(in).req = r)
    PROVE  OnWire(r)'
PROOF
<1>1. PICK i \in 1..Len(in) : in[i].type = "header" /\ in[i].req = r
  BY DEF OnWire
<1>2. i # 1 /\ Len(in) \in Nat /\ Len(in') = Len(in) - 1
  BY <1>1, TailWire DEF TypeOK
<1>3. i - 1 \in 1..Len(in') /\ (i - 1) + 1 = i
  BY <1>2
<1>4. in'[i - 1] = in[(i - 1) + 1]
  BY <1>3, TailWire
<1> QED
  BY <1>1, <1>3, <1>4 DEF OnWire

LEMMA WholeSeq ==
    ASSUME NEW S, NEW q \in Seq(S) PROVE SubSeq(q, 1, Len(q)) = q
OBVIOUS

LEMMA LossNext == IInv /\ IInv' /\ LossInv /\ [Next]_vars => LossInv'
PROOF
<1> SUFFICES ASSUME IInv, IInv', LossInv, [Next]_vars, ~ Cause', ~ crashed'
             PROVE  /\ ~ closed' /\ ~ bufErr'
                    /\ loop' \in {"option", "header", "body"}
                    /\ Framed(in', loop' = "body")
                    /\ \A r \in 1..sent' :
                          \/ OnWire(r)' \/ (loop' = "body" /\ cur' = r)
                          \/ main'[r] # "none"
  BY DEF LossInv
<1> DEFINE Goal == /\ ~ closed' /\ ~ bufErr'
                   /\ loop' \in {"option", "header", "body"}
                   /\ Framed(in', loop' = "body")
                   /\ \A r \in 1..sent' :
                         \/ OnWire(r)' \/ (loop' = "body" /\ cur' = r)
                         \/ main'[r] # "none"
<1>1. ~ Cause /\ ~ crashed
  <2>1. ~ Cause
    BY CauseStays
  <2>2. crashed => UNCHANGED vars
    BY DEF Next, Client, ServeConn, Main, Child, Meet, ClientSend,
       ClientGarbage, ClientClose, ReadOption, RejectOption, ReadHeader,
       FindServiceFails, NewReplyvPanics, ReadHeaderFails, ReadBody,
       ReadBodyFails, RejectBegin,
       RejectFails, RejectEnd, CloseCodec, MethodReturns, Called, Sent,
       TimeoutFires, TimeoutBegin, TimeoutFails, TimeoutEnd, ResultBegin,
       ResultFails, ResultEnd, ResultPanics, OverflowPanics, Running
  <2> QED
    BY <2>1, <2>2 DEF vars
<1>2. /\ ~ closed /\ ~ bufErr /\ loop \in {"option", "header", "body"}
      /\ Framed(in, loop = "body")
      /\ \A r \in 1..sent :
            OnWire(r) \/ (loop = "body" /\ cur = r) \/ main[r] # "none"
  BY <1>1 DEF LossInv
<1>3. /\ TypeOK /\ WireInv /\ LoopInv /\ in \in Seq(InMsgs)
      /\ sent \in 0..MaxReqs /\ sent' \in 0..MaxReqs
      /\ 1..sent \subseteq Reqs /\ main \in [Reqs -> MainPCs]
  BY ServerAssumption DEF IInv, TypeOK, Reqs
<1>4. ~ eof /\ ~ garbled /\ faults = {}
  BY <1>1 DEF Cause
<1>5. /\ ~ eof' /\ ~ garbled' /\ faults' = {}
      /\ \A r \in Reqs : herr'[r] # "invalid"
  BY DEF Cause
<1>6. CASE OverflowPanics \/ UNCHANGED vars
  BY <1>2, <1>6 DEF OnWire, OverflowPanics, vars, loopVars, envVars, reqVars, writeVars
<1>7. ASSUME NEW r \in Reqs,
             Main(r) \/ Child(r) \/ Meet(r) \/ MethodReturns(r)
      PROVE  Goal
  <2>1. /\ UNCHANGED <<in, sent, cur, loop>>
        /\ \A s \in Reqs \ {r} : main'[s] = main[s]
    BY <1>3, <1>7, HandlerFrame
  <2>2. ~ closed' /\ ~ bufErr' /\ (main[r] # "none" => main'[r] # "none")
    BY <1>2, <1>3, <1>4, <1>7, HandlerWrites
  <2>3. \A s \in 1..sent : main[s] # "none" => main'[s] # "none"
    BY <1>3, <2>1, <2>2
  <2> QED
    BY <1>2, <2>1, <2>2, <2>3 DEF OnWire
<1> USE DEF Running, loopVars, envVars, reqVars, writeVars
<1>8. CASE Client
  <2>1. PICK m \in Methods, b \in BodyKinds : ClientSend(m, b)
    BY <1>5, <1>8 DEF Client, ClientGarbage, ClientClose
  <2> DEFINE h == Header(sent + 1, m)
             t == BodyOf(sent + 1, b)
  <2>2. b # "missing"
    BY <1>5, <2>1 DEF ClientSend
  <2>3. /\ h \in InMsgs /\ h.type = "header" /\ h.req = sent + 1
        /\ t \in InMsgs /\ t.type = "body"
    <3>1. sent + 1 \in 0..MaxReqs
      BY <1>3, <2>1, ServerAssumption DEF ClientSend
    <3> QED
      BY <2>2, <3>1, ServerAssumption DEF Header, BodyOf, InMsgs
  <2>4. /\ in' = in \o <<h, t>> /\ sent' = sent + 1
        /\ UNCHANGED <<loop, cur, main, closed, bufErr>>
    BY <2>1, <2>2 DEF ClientSend
  <2> HIDE DEF h, t
  <2>5. /\ Framed(in', loop = "body") /\ Len(in') = Len(in) + 2
        /\ Len(in) \in Nat
        /\ \A i \in 1..Len(in) : in'[i] = in[i]
        /\ in'[Len(in) + 1] = h
    <3>1. /\ Len(in') = Len(in) + 2 /\ Len(in) \in Nat
          /\ \A i \in 1..Len(in) : in'[i] = in[i]
          /\ in'[Len(in) + 1] = h /\ in'[Len(in) + 2] = t
      BY <1>3, <2>4
    <3>2. in'[Len(in) + 1].type = "header" /\ in'[Len(in) + 2].type = "body"
      BY <2>3, <3>1
    <3>3. Framed(in', loop = "body")
      BY <1>2, <1>3, <3>1, <3>2, FramedSend
    <3> QED
      BY <3>1, <3>3
  <2>6. ASSUME NEW r \in 1..sent'
        PROVE  \/ OnWire(r)' \/ (loop' = "body" /\ cur' = r)
               \/ main'[r] # "none"
    <3>1. CASE r = sent + 1
      <4>1. Len(in) + 1 \in 1..Len(in')
        BY <2>5
      <4> QED
        BY <2>3, <2>5, <3>1, <4>1 DEF OnWire
    <3>2. CASE r \in 1..sent
      <4>1. OnWire(r) => OnWire(r)'
        <5>1. 1..Len(in) \subseteq 1..Len(in')
          BY <2>5
        <5> QED
          BY <2>5, <5>1 DEF OnWire
      <4> QED
        BY <1>2, <2>4, <3>2, <4>1
    <3> QED
      BY <1>3, <2>4, <3>1, <3>2
  <2> QED
    BY <1>2, <2>4, <2>5, <2>6
<1>9. CASE ServeConn
  <2>1. CASE ReadOption
    <3>1. PICK k \in 0..Len(in), torn \in BOOLEAN :
              /\ in' = IF torn THEN <<Junk>> \o SubSeq(in, k + 2, Len(in))
                              ELSE SubSeq(in, k + 1, Len(in))
              /\ faults' = faults \cup
                     (IF k > 0 \/ torn THEN {"overread"} ELSE {})
      BY <2>1 DEF ReadOption
    <3>2. ~ torn /\ k = 0
      <4>1. ~ (k > 0 \/ torn)
        BY <1>5, <3>1
      <4> QED
        BY <4>1
    <3>3. in' = SubSeq(in, 1, Len(in))
      BY <3>1, <3>2
    <3>4. in' = in
      BY <1>3, <3>3, WholeSeq
    <3>5. loop = "option" /\ loop' = "header"
          /\ UNCHANGED <<cur, sent, main, closed, bufErr>>
      BY <2>1 DEF ReadOption
    <3> QED
      BY <1>2, <3>4, <3>5 DEF OnWire
  <2>2. CASE ReadHeader
    <3>1. /\ loop = "header" /\ loop' = "body" /\ in # <<>> /\ in' = Tail(in)
          /\ cur' = Head(in).req /\ UNCHANGED <<sent, main, closed, bufErr>>
      BY <2>2 DEF ReadHeader
    <3>2. Framed(in', TRUE)
      BY <1>2, <1>3, <3>1, FramedTail
    <3>3. \A r \in 1..sent : OnWire(r) => OnWire(r)' \/ cur' = r
      BY <1>3, <3>1, OnWireTail
    <3> QED
      BY <1>2, <3>1, <3>2, <3>3
  <2>3. CASE ReadBody
    <3>1. /\ loop = "body" /\ loop' = "header" /\ in # <<>> /\ in' = Tail(in)
          /\ main' = [main EXCEPT ![cur] = "wait"] /\ Head(in).type = "body"
          /\ UNCHANGED <<sent, closed, bufErr>>
      BY <2>3 DEF ReadBody
    <3>2. Framed(in', FALSE)
      BY <1>2, <1>3, <3>1, FramedTail
    <3>3. \A r \in 1..sent : OnWire(r) => OnWire(r)'
      BY <1>3, <3>1, OnWireTail
    <3>4. \A r \in 1..sent : cur = r \/ main[r] # "none" => main'[r] # "none"
      BY <1>3, <3>1
    <3> QED
      BY <1>2, <3>1, <3>2, <3>3, <3>4
  <2>4. CASE FindServiceFails
    <3>1. herr'[Head(in).req] = "invalid" /\ Head(in).req \in Reqs
      BY <1>3, <2>4, HeadReq DEF FindServiceFails, TypeOK
    <3> QED
      BY <1>5, <3>1
  <2>5. CASE ReadBodyFails
    <3>1. herr'[cur] = "invalid" /\ cur \in Reqs
      BY <1>3, <2>5 DEF ReadBodyFails, TypeOK, Reqs
    <3> QED
      BY <1>5, <3>1
  <2>6. CASE ReadHeaderFails
    <3>1. loop = "header" /\ in # <<>> /\ Head(in).type # "header"
      BY <1>2, <1>4, <2>6 DEF ReadHeaderFails
    <3> QED
      BY <1>2, <1>3, <3>1, FramedTail
  <2>7. CASE RejectOption
    BY <1>1, <2>7 DEF RejectOption, Cause
  <2>8. CASE NewReplyvPanics
    BY <2>8 DEF NewReplyvPanics
  <2>9. CASE RejectBegin \/ RejectFails \/ RejectEnd \/ CloseCodec
    BY <1>2, <2>9 DEF RejectBegin, RejectFails, RejectEnd, CloseCodec
  <2> QED
    BY <1>9, <2>1, <2>2, <2>3, <2>4, <2>5, <2>6, <2>7, <2>8, <2>9
       DEF ServeConn
<1> QED
  BY <1>6, <1>7, <1>8, <1>9 DEF Next

\* As long as nothing is wrong with what the client sends, ServeConn keeps
\* the connection open and reads on, and every request that was sent is on
\* the wire, being read, with a handler that has not answered, or answered.
NothingLost == ~ Cause /\ ~ crashed =>
    /\ ~ closed /\ loop \in {"option", "header", "body"}
    /\ \A r \in 1..sent :
          \/ OnWire(r) \/ cur = r \/ answered[r] = 1
          \/ main[r] \in {"wait", "timeout", "timeoutBody", "sent"}

\* serveCodec and readRequest (server.go:74-156) neither skip a request nor
\* take a body for a header, however many requests and handlers there are:
\* the safety part of SentIsAnswered.
THEOREM LosesNothing == Spec => []NothingLost
PROOF
<1>1. Init => LossInv
  <2> SUFFICES ASSUME Init PROVE LossInv
    OBVIOUS
  <2>1. /\ Len(in) = 0 /\ loop = "option" /\ sent = 0 /\ ~ closed /\ ~ bufErr
    BY DEF Init
  <2>2. Framed(in, loop = "body")
    BY <2>1 DEF Framed
  <2> QED
    BY <2>1, <2>2 DEF LossInv
<1>2. IInv /\ LossInv => NothingLost
  <2> SUFFICES ASSUME IInv, LossInv, ~ Cause, ~ crashed, NEW r \in 1..sent
               PROVE  \/ OnWire(r) \/ cur = r \/ answered[r] = 1
                      \/ main[r] \in {"wait", "timeout", "timeoutBody", "sent"}
    BY DEF LossInv, NothingLost
  <2>1. OnWire(r) \/ (loop = "body" /\ cur = r) \/ main[r] # "none"
    BY DEF LossInv
  <2>2. r \in Reqs /\ main[r] \in MainPCs
    BY ServerAssumption DEF IInv, TypeOK, Reqs
  <2>3. main[r] = "done" => answered[r] = 1
    BY <2>2 DEF IInv, HandlerInv
  <2> QED
    BY <2>1, <2>2, <2>3 DEF MainPCs
<1> QED
  BY <1>1, <1>2, Inductive, LossNext, PTL DEF Spec
=============================================================================
