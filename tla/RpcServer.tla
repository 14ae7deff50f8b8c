------------------------------ MODULE RpcServer ------------------------------
(***************************************************************************)
(* One connection of a geerpc Server (src/geerpc/server.go): ServeConn     *)
(* reads the option, serveCodec reads requests, and every request has two  *)
(* goroutines: handleRequest, which waits for the method or its timeout,   *)
(* and its child, which runs the method and sends the result.              *)
(*                                                                         *)
(* The wire carries gob messages.  A request is a header message followed  *)
(* by a body message; Decode consumes one message whether or not its type  *)
(* fits.  The client is the environment: it numbers its requests 1, 2, ... *)
(* and may stop after a header (its codec panicked), send garbage and hang *)
(* up at any time.                                                         *)
(***************************************************************************)
EXTENDS Naturals, Sequences

CONSTANTS
    MaxReqs,   \* bound on the requests the client sends
    Options,   \* the options it may open with (see OptionKinds)
    Methods,   \* what ServiceMethod may name (see MethodKinds)
    BodyKinds, \* how bodies may arrive: "match", "mismatch", "missing"
    Eager,     \* TRUE if the client may send before the option is read
    Garbage    \* TRUE if the client may send bytes that are no message

\* A good option without and with a HandleTimeout; no JSON, a wrong magic
\* number, an unknown codec.
OptionKinds == {"good", "timed", "json", "magic", "codec"}

\* A method that answers; none at all (findService fails); a registered one
\* whose reply parameter is not a pointer; one whose reply gob cannot encode.
MethodKinds == {"ok", "unknown", "nonptr", "badreply"}

ASSUME ServerAssumption ==
    /\ MaxReqs \in Nat
    /\ Options \subseteq OptionKinds
    /\ Methods \subseteq MethodKinds
    /\ BodyKinds \subseteq {"match", "mismatch", "missing"}
    /\ Eager \in BOOLEAN
    /\ Garbage \in BOOLEAN

Reqs == 1..MaxReqs

VARIABLES
    opt,      \* the option the client opened with
    loop,     \* where ServeConn / serveCodec is
    cur,      \* the request serveCodec is reading, 0 if none
    in,       \* messages on their way to the server
    sent,     \* number of requests the client has sent
    eof,      \* the client closed its end
    garbled,  \* history: the client sent garbage
    faults,   \* history: what else was wrong with what it sent
    main,     \* main[r]: where handleRequest of request r is
    child,    \* child[r]: where its child goroutine is
    method,   \* method[r]: the kind of method request r names
    failed,   \* failed[r]: the method returned an error
    herr,     \* herr[r]: req.h.Error, shared by both goroutines
    sending,  \* holder of the connection's sending mutex
    out,      \* messages encoded for the client
    bufErr,   \* sticky error of the codec's bufio.Writer
    closed,   \* the connection is closed on this side
    crashed,  \* a goroutine panicked: the process is gone
    answered  \* history: how often sendResponse wrote for request r

loopVars  == <<opt, loop, cur>>
envVars   == <<in, sent, eof, garbled, faults>>
reqVars   == <<main, child, method, failed, herr>>
writeVars == <<sending, out, bufErr, closed, answered>>
vars == <<loopVars, envVars, reqVars, writeVars, crashed>>

HandleTimeout == opt = "timed"

Header(r, m) == [type |-> "header", req |-> r, kind |-> m]
BodyOf(r, b) == [type |-> "body", req |-> r, kind |-> b]
Junk         == [type |-> "junk", req |-> 0, kind |-> "junk"]

Free == <<"free", 0>>

Errs == {"none", "call", "invalid", "timeout"}
LoopPCs == {"option", "header", "body", "reject", "rejectBody", "wait",
            "closed"}
MainPCs == {"none", "wait", "timeout", "timeoutBody", "sent", "done"}
ChildPCs == {"none", "call", "called", "send", "sendBody", "sent", "exit"}

Init ==
    /\ opt \in Options
    /\ loop = "option"
    /\ cur = 0
    /\ in = <<>>
    /\ sent = 0
    /\ eof = FALSE
    /\ garbled = FALSE
    /\ faults = {}
    /\ main = [r \in Reqs |-> "none"]
    /\ child = [r \in Reqs |-> "none"]
    /\ method = [r \in Reqs |-> "ok"]
    /\ failed = [r \in Reqs |-> FALSE]
    /\ herr = [r \in Reqs |-> "none"]
    /\ sending = Free
    /\ out = <<>>
    /\ bufErr = FALSE
    /\ closed = FALSE
    /\ crashed = FALSE
    /\ answered = [r \in Reqs |-> 0]

\* The process is up and this step does not bring it down.
Running == ~crashed /\ UNCHANGED crashed

-----------------------------------------------------------------------------
(* The client                                                              *)

\* NewClient sends the option and starts at once; an eager client's first
\* requests reach the server's socket before it has decoded the option.
MaySend == ~eof /\ ~closed /\ ~garbled /\ (Eager \/ loop # "option")

\* The client's codec flushes a request, or only its header.
ClientSend(m, b) ==
    /\ Running
    /\ MaySend /\ sent < MaxReqs
    /\ sent' = sent + 1
    /\ in' = in \o (IF b = "missing" THEN <<Header(sent + 1, m)>>
                    ELSE <<Header(sent + 1, m), BodyOf(sent + 1, b)>>)
    /\ faults' = faults \cup (IF b = "missing" THEN {"partial"} ELSE {})
    /\ UNCHANGED <<loopVars, eof, garbled, reqVars, writeVars>>

\* The peer sends bytes that are no gob message.
ClientGarbage ==
    /\ Running
    /\ MaySend /\ Garbage
    /\ garbled' = TRUE
    /\ in' = Append(in, Junk)
    /\ UNCHANGED <<loopVars, sent, eof, faults, reqVars, writeVars>>

\* The client hangs up; what it sent can still be read.
ClientClose ==
    /\ Running
    /\ ~eof
    /\ eof' = TRUE
    /\ UNCHANGED <<loopVars, in, sent, garbled, faults, reqVars, writeVars>>

-----------------------------------------------------------------------------
(* ServeConn                                                               *)

\* The option is well-formed.  json.Decoder reads from the connection into a
\* buffer of its own, which is dropped with it: whatever arrived in the same
\* read is lost, k whole messages and perhaps part of the next.
ReadOption ==
    /\ Running
    /\ loop = "option" /\ opt \in {"good", "timed"}
    /\ \E k \in 0..Len(in), torn \in BOOLEAN :
         /\ torn => k < Len(in)
         /\ in' = IF torn THEN <<Junk>> \o SubSeq(in, k + 2, Len(in))
                          ELSE SubSeq(in, k + 1, Len(in))
         /\ faults' = faults \cup
                (IF k > 0 \/ torn THEN {"overread"} ELSE {})
    /\ loop' = "header"
    /\ UNCHANGED <<opt, cur, sent, eof, garbled, reqVars, writeVars>>

\* Bad JSON, a wrong magic number, an unknown codec: ServeConn returns and
\* its deferred function closes the connection.
RejectOption ==
    /\ Running
    /\ loop = "option" /\ opt \notin {"good", "timed"}
    /\ loop' = "closed"
    /\ closed' = TRUE
    /\ UNCHANGED <<opt, cur, envVars, reqVars, sending, out, bufErr, answered>>

-----------------------------------------------------------------------------
(* serveCodec and readRequest                                              *)

\* ReadHeader and findService succeed.
ReadHeader ==
    /\ Running
    /\ loop = "header" /\ in # <<>>
    /\ Head(in).type = "header" /\ Head(in).kind \in {"ok", "badreply"}
    /\ cur' = Head(in).req
    /\ method' = [method EXCEPT ![Head(in).req] = Head(in).kind]
    /\ in' = Tail(in)
    /\ loop' = "body"
    /\ UNCHANGED <<opt, sent, eof, garbled, faults, main, child, failed, herr,
                   writeVars>>

\* findService fails: readRequest returns before it reads the body, and the
\* request is answered with an error.
FindServiceFails ==
    /\ Running
    /\ loop = "header" /\ in # <<>>
    /\ Head(in).type = "header" /\ Head(in).kind = "unknown"
    /\ cur' = Head(in).req
    /\ herr' = [herr EXCEPT ![Head(in).req] = "invalid"]
    /\ in' = Tail(in)
    /\ loop' = "reject"
    /\ UNCHANGED <<opt, sent, eof, garbled, faults, main, child, method,
                   failed, writeVars>>

\* newReplyv takes Elem() of a reply type that is no pointer and panics.
NewReplyvPanics ==
    /\ ~crashed
    /\ loop = "header" /\ in # <<>>
    /\ Head(in).type = "header" /\ Head(in).kind = "nonptr"
    /\ in' = Tail(in)
    /\ method' = [method EXCEPT ![Head(in).req] = "nonptr"]
    /\ crashed' = TRUE
    /\ UNCHANGED <<loopVars, sent, eof, garbled, faults, main, child, failed,
                   herr, writeVars>>

\* What is next on the wire does not decode into a header, or the stream has
\* ended or this side closed it: the loop breaks and waits for the handlers.
ReadHeaderFails ==
    /\ Running
    /\ loop = "header"
    /\ \/ in # <<>> /\ Head(in).type # "header" /\ in' = Tail(in)
       \/ (closed \/ (in = <<>> /\ eof)) /\ in' = in
    /\ cur' = 0
    /\ loop' = "wait"
    /\ UNCHANGED <<opt, sent, eof, garbled, faults, reqVars, writeVars>>

\* Faulty variant: the loop does not go on to the next request.
ReadBodyOnce ==
    /\ Running
    /\ loop = "body" /\ in # <<>>
    /\ Head(in).type = "body" /\ Head(in).kind = "match"
    /\ in' = Tail(in)
    /\ main' = [main EXCEPT ![cur] = "wait"]
    /\ child' = [child EXCEPT ![cur] = "call"]
    /\ UNCHANGED <<loopVars, sent, eof, garbled, faults, method, failed, herr,
                   writeVars>>

\* ReadBody succeeds: wg.Add(1) and a handleRequest goroutine, which starts
\* its child.
ReadBody ==
    /\ Running
    /\ loop = "body" /\ in # <<>>
    /\ Head(in).type = "body" /\ Head(in).kind = "match"
    /\ in' = Tail(in)
    /\ main' = [main EXCEPT ![cur] = "wait"]
    /\ child' = [child EXCEPT ![cur] = "call"]
    /\ cur' = 0
    /\ loop' = "header"
    /\ UNCHANGED <<opt, sent, eof, garbled, faults, method, failed, herr,
                   writeVars>>

\* ReadBody fails: the message has another type, is a header (the client
\* sent no body), is garbage, or the stream has ended
\* or was closed.
ReadBodyFails ==
    /\ Running
    /\ loop = "body"
    /\ \/ /\ in # <<>>
          /\ ~(Head(in).type = "body" /\ Head(in).kind = "match")
          /\ in' = Tail(in)
       \/ (closed \/ (in = <<>> /\ eof)) /\ in' = in
    /\ herr' = [herr EXCEPT ![cur] = "invalid"]
    /\ loop' = "reject"
    /\ UNCHANGED <<opt, cur, sent, eof, garbled, faults, main, child, method,
                   failed, writeVars>>

-----------------------------------------------------------------------------
(* sendResponse: cc.Write under the sending mutex, header then body        *)

\* Faulty variant: the response is encoded without the mutex.
BeginWriteUnlocked(who, r) ==
    /\ ~bufErr
    /\ sending' = sending
    /\ out' = Append(out, Header(r, herr[r]))
    /\ UNCHANGED <<bufErr, closed, answered>>

\* Encode(header) succeeds.
BeginWrite(who, r) ==
    /\ sending = Free /\ ~bufErr
    /\ sending' = who
    /\ out' = Append(out, Header(r, herr[r]))
    /\ UNCHANGED <<bufErr, closed, answered>>

\* The connection is gone: what does not fit the codec's buffer fails at once.
Gone == closed \/ eof

\* Encode(header) fails, on a broken buffer or because a long header overflows
\* it: Write closes the connection and sendResponse logs the error.
FailWrite(r) ==
    /\ sending = Free /\ (bufErr \/ Gone)
    /\ bufErr' = TRUE
    /\ closed' = TRUE
    /\ answered' = [answered EXCEPT ![r] = @ + 1]
    /\ UNCHANGED <<sending, out>>

\* Encode(body) and Flush.  If the connection is gone the error of Flush is
\* dropped and stays in the buffer.
EndWrite(r, body) ==
    /\ out' = Append(out, BodyOf(r, body))
    /\ sending' = Free
    /\ answered' = [answered EXCEPT ![r] = @ + 1]
    /\ \E e \in BOOLEAN : /\ closed => e
                          /\ ~Gone => ~e
                          /\ bufErr' = e
    /\ UNCHANGED closed

\* Encode(body) overflows the buffer and fails: Write panics and takes the
\* process down.
OverflowPanics ==
    /\ ~crashed
    /\ sending # Free /\ Gone
    /\ crashed' = TRUE
    /\ UNCHANGED <<loopVars, envVars, reqVars, writeVars>>

\* serveCodec answers a request it could not read.
RejectBegin ==
    /\ Running
    /\ loop = "reject"
    /\ BeginWrite(<<"loop", 0>>, cur)
    /\ loop' = "rejectBody"
    /\ UNCHANGED <<opt, cur, envVars, reqVars>>

RejectFails ==
    /\ Running
    /\ loop = "reject"
    /\ FailWrite(cur)
    /\ cur' = 0
    /\ loop' = "header"
    /\ UNCHANGED <<opt, envVars, reqVars>>

RejectEnd ==
    /\ Running
    /\ loop = "rejectBody"
    /\ EndWrite(cur, "invalid")
    /\ cur' = 0
    /\ loop' = "header"
    /\ UNCHANGED <<opt, envVars, reqVars>>

-----------------------------------------------------------------------------
(* handleRequest and its child                                             *)

\* The method returns, with or without an error.
MethodReturns(r) ==
    /\ Running
    /\ child[r] = "call"
    /\ child' = [child EXCEPT ![r] = "called"]
    /\ \E e \in BOOLEAN : failed' = [failed EXCEPT ![r] = e]
    /\ UNCHANGED <<loopVars, envVars, main, method, herr, writeVars>>

\* Faulty variant: `called` is buffered, so the child does not wait for
\* handleRequest to receive from it.
CalledBuffered(r) ==
    /\ Running
    /\ child[r] = "called"
    /\ child' = [child EXCEPT ![r] = "send"]
    /\ main' = [main EXCEPT ![r] = IF @ = "wait" THEN "sent" ELSE @]
    /\ herr' = [herr EXCEPT ![r] = IF failed[r] THEN "call" ELSE @]
    /\ UNCHANGED <<loopVars, envVars, method, failed, writeVars>>

\* The rendezvous on `called`: handleRequest goes on to wait for `sent`, the
\* child sets h.Error if the method failed and goes on to send.
Called(r) ==
    /\ Running
    /\ child[r] = "called" /\ main[r] = "wait"
    /\ child' = [child EXCEPT ![r] = "send"]
    /\ main' = [main EXCEPT ![r] = "sent"]
    /\ herr' = [herr EXCEPT ![r] = IF failed[r] THEN "call" ELSE @]
    /\ UNCHANGED <<loopVars, envVars, method, failed, writeVars>>

\* time.After(timeout) wins the select.
TimeoutFires(r) ==
    /\ Running
    /\ HandleTimeout /\ main[r] = "wait"
    /\ main' = [main EXCEPT ![r] = "timeout"]
    /\ herr' = [herr EXCEPT ![r] = "timeout"]
    /\ UNCHANGED <<loopVars, envVars, child, method, failed, writeVars>>

TimeoutBegin(r) ==
    /\ Running
    /\ main[r] = "timeout"
    /\ BeginWrite(<<"main", r>>, r)
    /\ main' = [main EXCEPT ![r] = "timeoutBody"]
    /\ UNCHANGED <<loopVars, envVars, child, method, failed, herr>>

TimeoutFails(r) ==
    /\ Running
    /\ main[r] = "timeout"
    /\ FailWrite(r)
    /\ main' = [main EXCEPT ![r] = "done"]
    /\ UNCHANGED <<loopVars, envVars, child, method, failed, herr>>

TimeoutEnd(r) ==
    /\ Running
    /\ main[r] = "timeoutBody"
    /\ EndWrite(r, "invalid")
    /\ main' = [main EXCEPT ![r] = "done"]
    /\ UNCHANGED <<loopVars, envVars, child, method, failed, herr>>

ResultBegin(r) ==
    /\ Running
    /\ child[r] = "send"
    /\ BeginWrite(<<"child", r>>, r)
    /\ child' = [child EXCEPT ![r] = "sendBody"]
    /\ UNCHANGED <<loopVars, envVars, main, method, failed, herr>>

ResultFails(r) ==
    /\ Running
    /\ child[r] = "send"
    /\ FailWrite(r)
    /\ child' = [child EXCEPT ![r] = "sent"]
    /\ UNCHANGED <<loopVars, envVars, main, method, failed, herr>>

ResultEnd(r) ==
    /\ Running
    /\ child[r] = "sendBody" /\ method[r] = "ok"
    /\ EndWrite(r, "reply")
    /\ child' = [child EXCEPT ![r] = "sent"]
    /\ UNCHANGED <<loopVars, envVars, main, method, failed, herr>>

\* gob cannot encode the reply: Write panics and takes the process down.
ResultPanics(r) ==
    /\ ~crashed
    /\ child[r] = "sendBody" /\ method[r] = "badreply"
    /\ crashed' = TRUE
    /\ UNCHANGED <<loopVars, envVars, reqVars, writeVars>>

\* Faulty variant: wg.Done() is forgotten on this path.
SentNoDone(r) ==
    /\ Running
    /\ child[r] = "sent" /\ main[r] = "sent"
    /\ child' = [child EXCEPT ![r] = "exit"]
    /\ UNCHANGED <<loopVars, envVars, main, method, failed, herr, writeVars>>

\* The rendezvous on `sent`: both goroutines end, wg.Done().
Sent(r) ==
    /\ Running
    /\ child[r] = "sent" /\ main[r] = "sent"
    /\ child' = [child EXCEPT ![r] = "exit"]
    /\ main' = [main EXCEPT ![r] = "done"]
    /\ UNCHANGED <<loopVars, envVars, method, failed, herr, writeVars>>

\* Faulty variant: the connection is closed without wg.Wait().
CloseCodecNoWait ==
    /\ Running
    /\ loop = "wait"
    /\ loop' = "closed"
    /\ closed' = TRUE
    /\ UNCHANGED <<opt, cur, envVars, reqVars, sending, out, bufErr, answered>>

\* wg.Wait(), then cc.Close().
CloseCodec ==
    /\ Running
    /\ loop = "wait"
    /\ \A r \in Reqs : main[r] \in {"none", "done"}
    /\ loop' = "closed"
    /\ closed' = TRUE
    /\ UNCHANGED <<opt, cur, envVars, reqVars, sending, out, bufErr, answered>>

-----------------------------------------------------------------------------
Client ==
    \/ \E m \in Methods, b \in BodyKinds : ClientSend(m, b)
    \/ ClientGarbage \/ ClientClose

ServeConn ==
    \/ ReadOption \/ RejectOption
    \/ ReadHeader \/ FindServiceFails \/ NewReplyvPanics \/ ReadHeaderFails
    \/ ReadBody \/ ReadBodyFails
    \/ RejectBegin \/ RejectFails \/ RejectEnd \/ CloseCodec

Main(r) == TimeoutFires(r) \/ TimeoutBegin(r) \/ TimeoutFails(r)
           \/ TimeoutEnd(r)

Child(r) == ResultBegin(r) \/ ResultFails(r) \/ ResultEnd(r)
            \/ ResultPanics(r)

Meet(r) == Called(r) \/ Sent(r)

Next ==
    \/ Client
    \/ ServeConn
    \/ OverflowPanics
    \/ \E r \in Reqs : Main(r) \/ Child(r) \/ Meet(r) \/ MethodReturns(r)

Spec == Init /\ [][Next]_vars

\* Go schedules every runnable goroutine, timers fire, and a waiter gets a
\* mutex that is released again and again.  A method owes its return only
\* when no timeout stands in for it.
Fairness ==
    /\ WF_vars(ServeConn)
    /\ SF_vars((RejectBegin \/ RejectFails))
    /\ \A r \in Reqs :
         /\ WF_vars(Main(r))
         /\ SF_vars((TimeoutBegin(r) \/ TimeoutFails(r)))
         /\ WF_vars(Child(r))
         /\ SF_vars((ResultBegin(r) \/ ResultFails(r)))
         /\ WF_vars(Meet(r))
         /\ WF_vars(~HandleTimeout /\ MethodReturns(r))

FairSpec == Spec /\ Fairness
-----------------------------------------------------------------------------
(* Properties                                                              *)

Writers == {"free", "loop", "main", "child"} \X (0..MaxReqs)
InMsgs == [type : {"header", "body", "junk"}, req : 0..MaxReqs,
           kind : MethodKinds \cup {"match", "mismatch", "junk"}]
OutMsgs == [type : {"header"}, req : Reqs, kind : Errs]
           \cup [type : {"body"}, req : Reqs, kind : {"reply", "invalid"}]

\* Types of the variables.
TypeOK ==
    /\ opt \in Options
    /\ loop \in LoopPCs
    /\ cur \in 0..MaxReqs
    /\ (loop \in {"body", "reject", "rejectBody"}) => cur # 0
    /\ in \in Seq(InMsgs)
    /\ sent \in 0..MaxReqs
    /\ eof \in BOOLEAN /\ garbled \in BOOLEAN
    /\ faults \subseteq {"partial", "overread"}
    /\ main \in [Reqs -> MainPCs]
    /\ child \in [Reqs -> ChildPCs]
    /\ method \in [Reqs -> MethodKinds]
    /\ failed \in [Reqs -> BOOLEAN]
    /\ herr \in [Reqs -> Errs]
    /\ sending \in Writers
    /\ out \in Seq(OutMsgs)
    /\ bufErr \in BOOLEAN /\ closed \in BOOLEAN /\ crashed \in BOOLEAN
    /\ answered \in [Reqs -> Nat]

\* A request is answered at most once: the child cannot pass the unbuffered
\* `called` once the timeout has won handleRequest's select, however the
\* method's return and the timer race.
AnsweredOnce == \A r \in Reqs : answered[r] <= 1

\* The two messages of a response stay together on the wire and agree with
\* each other (server.go:75 "make sure to send a complete response"): no
\* other response comes between, and a timeout is never paired with a reply.
FramesPaired ==
    \A i \in 1..Len(out) :
        /\ out[i].type = (IF i % 2 = 1 THEN "header" ELSE "body")
        /\ i % 2 = 0 =>
             /\ out[i].req = out[i - 1].req
             /\ (out[i].kind = "reply") = (out[i - 1].kind \in {"none", "call"})

\* The loop closes the connection only when every request it handed to a
\* handler has been answered (server.go:76 "wait until all request are
\* handled").
ClosedMeansAnswered ==
    loop = "closed" =>
        \A r \in Reqs : main[r] # "none" => answered[r] = 1

\* A child outlives its handleRequest only if its request timed out: that
\* child is stuck on `called` for ever, any other one ends.
LeakOnlyOnTimeout ==
    \A r \in Reqs : main[r] = "done" /\ child[r] # "exit" =>
        herr[r] = "timeout" /\ child[r] \in {"call", "called"}

\* When the client hangs up, ServeConn ends and closes the connection
\* (server.go:51 "serving the connection until the client hangs up").
HangupEndsServeConn == eof ~> loop = "closed" \/ crashed

\* The client or the network has given the loop a reason to end, or a request
\* nobody answers: it hung up, sent garbage, half a request, a bad option or a
\* request that is answered as invalid; or it sent so early that the option's
\* decoder took some of it (server.go:55).
Cause == \/ eof \/ garbled \/ faults # {} \/ opt \notin {"good", "timed"}
         \/ \E r \in Reqs : herr[r] = "invalid"

\* Without such a cause every request that was sent is answered (README.md:184:
\* the option is decoded first, then the headers and bodies that follow it).
SentIsAnswered ==
    \A r \in Reqs : sent >= r ~> answered[r] > 0 \/ crashed \/ Cause
=============================================================================
