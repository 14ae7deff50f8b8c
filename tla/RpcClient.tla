------------------------------ MODULE RpcClient ------------------------------
(***************************************************************************)
(* One geerpc Client on one connection (src/geerpc/client.go), with the    *)
(* gob codec it writes through (src/geerpc/codec/god.go).                  *)
(*                                                                         *)
(* Goroutines: one per Call object (the user goroutine inside Client.Go or *)
(* Client.Call), the receive goroutine started by newClientCodec, and a    *)
(* user who may call Close.  The mutex `sending` is a variable.  The mutex *)
(* `mu` is held across a step only by terminateCalls, so it is free        *)
(* exactly when the receiver is not in that loop (MuFree); every other     *)
(* critical section of `mu` is one step.                                   *)
(*                                                                         *)
(* The peer is the environment: it may answer any sequence number, in any  *)
(* order, more than once, and may close the connection at any moment.      *)
(***************************************************************************)
EXTENDS Naturals, Sequences

CONSTANTS
    Calls,     \* the Call objects, each issued at most once
    NoCall,    \* the nil *Call a Go map returns for a missing key
    Sync,      \* the calls issued by Client.Call; the others by Client.Go
    Deadline,  \* the calls of Sync whose ctx can expire
    Body,      \* Body[c]: how Encode(body) fares: "small", "large", "bad"
    Chans,     \* the Done channels
    ChanOf,    \* ChanOf[c]: the Done channel of call c
    Cap,       \* Cap[ch]: the capacity of a channel
    MaxSeq,    \* bound on sequence numbers (one per call suffices)
    Answers,   \* the responses the peer may send: [seq, error, body]
    MaxAnswers \* bound on the number of responses the peer sends

Bodies == {"small", "large", "bad"}
Headers == [seq : 0..MaxSeq, error : BOOLEAN,
            body : {"whole", "mismatch", "torn"}]
Requests == [seq : 0..MaxSeq, whole : BOOLEAN]

\* The code rejects unbuffered channels (client.go:233) and gives every
\* Client.Call a channel of its own of capacity 1 (client.go:252).
ASSUME ClientAssumption ==
    /\ Calls \cap {NoCall, "free", "receiver"} = {}
    /\ Sync \subseteq Calls
    /\ Deadline \subseteq Sync
    /\ Body \in [Calls -> Bodies]
    /\ ChanOf \in [Calls -> Chans]
    /\ Cap \in [Chans -> Nat \ {0}]
    /\ MaxSeq \in Nat \ {0}
    /\ Answers \subseteq Headers
    /\ MaxAnswers \in Nat

ASSUME SyncChanAssumption ==
    \A c \in Sync : /\ Cap[ChanOf[c]] = 1
                    /\ \A d \in Calls : ChanOf[d] = ChanOf[c] => d = c

VARIABLES
    pc,        \* pc[c]: where the goroutine of call c is
    sending,   \* holder of client.sending: a call, "receiver" or "free"
    seq,       \* client.seq
    pending,   \* client.pending; NoCall where the map has no entry
    closing,   \* client.closing
    shutdown,  \* client.shutdown
    callSeq,   \* callSeq[c]: Call.Seq, 0 until registered
    callErr,   \* callErr[c]: Call.Error; "unset" before the call completes
    queue,     \* queue[ch]: the contents of a Done channel
    ctxDone,   \* ctxDone[c]: ctx.Done() of call c is closed
    recv,      \* where the receive goroutine is
    header,    \* the header of this iteration; NoHeader once it is used
    rcall,     \* the call it removed from pending
    rerr,      \* its local err # nil
    todo,      \* calls terminateCalls has still to notify
    reqs,      \* requests flushed to the peer: [seq, whole]
    resps,     \* responses in flight to the client
    answers,   \* number of responses the peer has sent
    lclosed,   \* this side closed the connection
    rclosed,   \* the peer closed the connection
    bufErr,    \* sticky error of the codec's bufio.Writer
    notified   \* history: how often done() completed for a call

callVars == <<pc, callSeq, callErr, ctxDone>>
recvVars == <<recv, header, rcall, rerr, todo>>
wireVars == <<reqs, resps, answers, lclosed, rclosed, bufErr>>
mapVars  == <<seq, pending, closing, shutdown>>
vars == <<callVars, recvVars, wireVars, mapVars, sending, queue, notified>>

PCs == {"idle", "send", "write", "failed", "complete", "returned",
        "await", "select", "panicked"}
RecvPCs == {"read", "remove", "body", "done", "lock", "terminate", "exit"}
CallErrs == {"unset", "nil", "shutdown", "server", "body", "write", "conn"}
NoHeader == [seq |-> 0, error |-> FALSE, body |-> "whole"]

Init ==
    /\ pc = [c \in Calls |-> "idle"]
    /\ sending = "free"
    /\ seq = 1
    /\ pending = [s \in 0..MaxSeq |-> NoCall]
    /\ closing = FALSE
    /\ shutdown = FALSE
    /\ callSeq = [c \in Calls |-> 0]
    /\ callErr = [c \in Calls |-> "unset"]
    /\ queue = [ch \in Chans |-> <<>>]
    /\ ctxDone = [c \in Calls |-> FALSE]
    /\ recv = "read"
    /\ header = NoHeader
    /\ rcall = NoCall
    /\ rerr = FALSE
    /\ todo = {}
    /\ reqs = <<>>
    /\ resps = <<>>
    /\ answers = 0
    /\ lclosed = FALSE
    /\ rclosed = FALSE
    /\ bufErr = FALSE
    /\ notified = [c \in Calls |-> 0]

MuFree == recv # "terminate"
Up == ~lclosed /\ ~rclosed

\* Where Go leaves the goroutine: back in the user's code, or in the first
\* receive of Client.Call.
AfterGo(c) == IF c \in Sync THEN "await" ELSE "returned"

\* Call.done(): a blocking send on the call's channel.
done(c) ==
    /\ Len(queue[ChanOf[c]]) < Cap[ChanOf[c]]
    /\ queue' = [queue EXCEPT ![ChanOf[c]] = Append(@, c)]
    /\ notified' = [notified EXCEPT ![c] = @ + 1]

-----------------------------------------------------------------------------
(* Client.Go and Client.send                                               *)

\* A user creates the Call and enters send.
Go(c) ==
    /\ pc[c] = "idle"
    /\ pc' = [pc EXCEPT ![c] = "send"]
    /\ UNCHANGED <<callSeq, callErr, ctxDone, recvVars, wireVars, mapVars,
                   sending, queue, notified>>

\* Faulty variant of registerCall: the call is filed after seq++.
registerCallPreIncrement(c) ==
    /\ ~closing /\ ~shutdown
    /\ seq <= MaxSeq
    /\ callSeq' = [callSeq EXCEPT ![c] = seq + 1]
    /\ pending' = [pending EXCEPT ![seq + 1] = c]
    /\ seq' = seq + 1
    /\ UNCHANGED <<closing, shutdown>>

\* Faulty variant of registerCall: the sequence number is not advanced.
registerCallSameSeq(c) ==
    /\ ~closing /\ ~shutdown
    /\ seq <= MaxSeq
    /\ callSeq' = [callSeq EXCEPT ![c] = seq]
    /\ pending' = [pending EXCEPT ![seq] = c]
    /\ UNCHANGED <<seq, closing, shutdown>>

\* registerCall's success path, run under mu.
registerCall(c) ==
    /\ ~closing /\ ~shutdown
    /\ seq <= MaxSeq
    /\ callSeq' = [callSeq EXCEPT ![c] = seq]
    /\ pending' = [pending EXCEPT ![seq] = c]
    /\ seq' = seq + 1
    /\ UNCHANGED <<closing, shutdown>>

\* send takes `sending` and registers the call.
SendRegister(c) ==
    /\ pc[c] = "send"
    /\ sending = "free" /\ MuFree
    /\ registerCall(c)
    /\ sending' = c
    /\ pc' = [pc EXCEPT ![c] = "write"]
    /\ UNCHANGED <<callErr, ctxDone, recvVars, wireVars, queue, notified>>

\* send takes `sending`; registerCall refuses with ErrShutdown.
SendRefused(c) ==
    /\ pc[c] = "send"
    /\ sending = "free" /\ MuFree
    /\ closing \/ shutdown
    /\ sending' = c
    /\ callErr' = [callErr EXCEPT ![c] = "shutdown"]
    /\ pc' = [pc EXCEPT ![c] = "complete"]
    /\ UNCHANGED <<callSeq, ctxDone, recvVars, wireVars, mapVars, queue,
                   notified>>

\* cc.Write encodes both parts and flushes them on a live connection.
WriteDelivered(c) ==
    /\ pc[c] = "write" /\ ~bufErr /\ Up
    /\ Body[c] # "bad"
    /\ reqs' = Append(reqs, [seq |-> callSeq[c], whole |-> TRUE])
    /\ sending' = "free"
    /\ pc' = [pc EXCEPT ![c] = AfterGo(c)]
    /\ UNCHANGED <<callSeq, callErr, ctxDone, recvVars, mapVars, resps,
                   answers, lclosed, rclosed, bufErr, queue, notified>>

\* On a dead connection both parts fit the buffer, the error of Flush is
\* dropped and Write reports success.  A socket this side closed always
\* fails; one the peer closed may still accept the bytes.
WriteLost(c) ==
    /\ pc[c] = "write" /\ ~bufErr /\ ~Up
    /\ Body[c] # "bad"
    /\ \E e \in BOOLEAN : /\ lclosed => e
                          /\ Body[c] = "large" => ~e
                          /\ bufErr' = e
    /\ sending' = "free"
    /\ pc' = [pc EXCEPT ![c] = AfterGo(c)]
    /\ UNCHANGED <<callSeq, callErr, ctxDone, recvVars, mapVars, reqs, resps,
                   answers, lclosed, rclosed, queue, notified>>

\* Encode(body) fails and log.Panicln unwinds through send: the deferred
\* functions flush the header and release `sending`, the call stays in
\* pending.  Either the arguments cannot be encoded, or they overflow the
\* buffer onto a dead connection.
WritePanics(c) ==
    /\ pc[c] = "write" /\ ~bufErr
    /\ Body[c] = "bad" \/ (Body[c] = "large" /\ ~Up)
    /\ reqs' = IF Up THEN Append(reqs, [seq |-> callSeq[c], whole |-> FALSE])
                     ELSE reqs
    /\ \E e \in BOOLEAN : /\ Up => ~e
                          /\ lclosed \/ Body[c] = "large" => e
                          /\ bufErr' = e
    /\ sending' = "free"
    /\ pc' = [pc EXCEPT ![c] = "panicked"]
    /\ UNCHANGED <<callSeq, callErr, ctxDone, recvVars, mapVars, resps,
                   answers, lclosed, rclosed, queue, notified>>

\* The buffer is already broken: Encode(header) fails, Write closes the
\* connection and returns the error.
WriteFails(c) ==
    /\ pc[c] = "write" /\ bufErr
    /\ lclosed' = TRUE
    /\ pc' = [pc EXCEPT ![c] = "failed"]
    /\ UNCHANGED <<callSeq, callErr, ctxDone, recvVars, mapVars, reqs, resps,
                   answers, rclosed, bufErr, sending, queue, notified>>

\* Faulty variant of removeCall: the entry is read but not deleted.
removeCallKeeps(s) ==
    /\ s \in DOMAIN pending
    /\ UNCHANGED <<seq, pending, closing, shutdown>>

\* removeCall's effect on the map; its result is pending[s] before the step.
removeCall(s) ==
    /\ s \in DOMAIN pending
    /\ pending' = [pending EXCEPT ![s] = NoCall]
    /\ UNCHANGED <<seq, closing, shutdown>>

\* send removes the call it could not write, unless the receiver already
\* did.
SendRemove(c) ==
    /\ pc[c] = "failed" /\ MuFree
    /\ removeCall(callSeq[c])
    /\ LET found == pending[callSeq[c]] # NoCall IN
         /\ callErr' = [callErr EXCEPT ![c] = IF found THEN "write" ELSE @]
         /\ pc' = [pc EXCEPT ![c] = IF found THEN "complete" ELSE AfterGo(c)]
         /\ sending' = IF found THEN sending ELSE "free"
    /\ UNCHANGED <<callSeq, ctxDone, recvVars, wireVars, queue, notified>>

\* send completes a refused or unwritten call and releases `sending`.
SendDone(c) ==
    /\ pc[c] = "complete"
    /\ done(c)
    /\ sending' = "free"
    /\ pc' = [pc EXCEPT ![c] = AfterGo(c)]
    /\ UNCHANGED <<callSeq, callErr, ctxDone, recvVars, wireVars, mapVars>>

-----------------------------------------------------------------------------
(* Client.Call after Go, and the users                                     *)

\* call := <-client.Go(...).Done
CallAwait(c) ==
    /\ pc[c] = "await"
    /\ queue[ChanOf[c]] # <<>>
    /\ queue' = [queue EXCEPT ![ChanOf[c]] = Tail(@)]
    /\ pc' = [pc EXCEPT ![c] = "select"]
    /\ UNCHANGED <<callSeq, callErr, ctxDone, recvVars, wireVars, mapVars,
                   sending, notified>>

\* The cases of Call's select that are ready.
Ready(c) == {k \in {"ctx", "done"} :
                 \/ k = "ctx" /\ ctxDone[c]
                 \/ k = "done" /\ queue[ChanOf[c]] # <<>>}

\* The select: ctx.Done() removes the call and returns its error, the
\* second receive from the same Done channel returns call.Error.
CallSelect(c) ==
    /\ pc[c] = "select" /\ MuFree
    /\ \E k \in Ready(c) :
         /\ pending' = IF k = "ctx" THEN [pending EXCEPT ![callSeq[c]] = NoCall]
                                    ELSE pending
         /\ queue' = IF k = "done" THEN [queue EXCEPT ![ChanOf[c]] = Tail(@)]
                                   ELSE queue
    /\ pc' = [pc EXCEPT ![c] = "returned"]
    /\ UNCHANGED <<callSeq, callErr, ctxDone, recvVars, wireVars, seq,
                   closing, shutdown, sending, notified>>

\* The context of a Call expires.
CtxExpire(c) ==
    /\ c \in Deadline /\ ~ctxDone[c]
    /\ ctxDone' = [ctxDone EXCEPT ![c] = TRUE]
    /\ UNCHANGED <<pc, callSeq, callErr, recvVars, wireVars, mapVars,
                   sending, queue, notified>>

\* A user takes a completed call from a channel passed to Go.
Collect(ch) ==
    /\ \E c \in Calls \ Sync : ChanOf[c] = ch
    /\ queue[ch] # <<>>
    /\ queue' = [queue EXCEPT ![ch] = Tail(@)]
    /\ UNCHANGED <<callVars, recvVars, wireVars, mapVars, sending, notified>>

\* Client.Close: marks the client and closes the codec's connection; the
\* receiver finds out by its read error.
Close ==
    /\ MuFree /\ ~closing
    /\ closing' = TRUE
    /\ lclosed' = TRUE
    /\ UNCHANGED <<callVars, recvVars, seq, pending, shutdown, reqs, resps,
                   answers, rclosed, bufErr, sending, queue, notified>>

-----------------------------------------------------------------------------
(* The peer                                                                *)

\* The peer sends a response; a torn one is cut off after its header.
PeerAnswer(r) ==
    /\ ~rclosed /\ answers < MaxAnswers
    /\ resps' = Append(resps, r)
    /\ answers' = answers + 1
    /\ rclosed' = (r.body = "torn")
    /\ UNCHANGED <<callVars, recvVars, mapVars, reqs, lclosed, bufErr,
                   sending, queue, notified>>

\* The peer closes the connection.
PeerClose ==
    /\ ~rclosed
    /\ rclosed' = TRUE
    /\ UNCHANGED <<callVars, recvVars, mapVars, reqs, resps, answers, lclosed,
                   bufErr, sending, queue, notified>>

-----------------------------------------------------------------------------
(* Client.receive and Client.terminateCalls                                *)

\* ReadHeader succeeds.  The decoder reads ahead, so a response that has
\* arrived may be decoded even after this side closed the connection.
ReadHeader ==
    /\ recv = "read" /\ resps # <<>>
    /\ header' = Head(resps)
    /\ resps' = Tail(resps)
    /\ recv' = "remove"
    /\ UNCHANGED <<callVars, rcall, rerr, todo, reqs, answers, lclosed,
                   rclosed, bufErr, mapVars, sending, queue, notified>>

\* Faulty variant: the goroutine returns without terminateCalls.
ReadHeaderFailsSilent ==
    /\ recv = "read"
    /\ lclosed \/ (rclosed /\ resps = <<>>)
    /\ rerr' = TRUE
    /\ recv' = "exit"
    /\ UNCHANGED <<callVars, header, rcall, todo, wireVars, mapVars, sending,
                   queue, notified>>

\* ReadHeader fails: the stream ended or this side closed it.
ReadHeaderFails ==
    /\ recv = "read"
    /\ lclosed \/ (rclosed /\ resps = <<>>)
    /\ rerr' = TRUE
    /\ recv' = "lock"
    /\ UNCHANGED <<callVars, header, rcall, todo, wireVars, mapVars, sending,
                   queue, notified>>

\* call := client.removeCall(h.Seq)
RecvRemove ==
    /\ recv = "remove" /\ MuFree
    /\ removeCall(header.seq)
    /\ rcall' = pending[header.seq]
    /\ recv' = "body"
    /\ UNCHANGED <<callVars, header, rerr, todo, wireVars, sending, queue,
                   notified>>

\* ReadBody's error: a torn body always fails, a body of the wrong type
\* only when it is decoded into call.Reply.
BodyFails == \/ header.body = "torn"
             \/ header.body = "mismatch" /\ rcall # NoCall /\ ~header.error

\* The three cases of receive's switch, up to call.done().
ReadBody ==
    /\ recv = "body"
    /\ rerr' = BodyFails
    /\ callErr' = IF rcall = NoCall THEN callErr
                  ELSE [callErr EXCEPT ![rcall] = IF header.error THEN "server"
                                             ELSE IF BodyFails THEN "body"
                                             ELSE "nil"]
    /\ recv' = IF rcall # NoCall THEN "done"
               ELSE IF BodyFails THEN "lock" ELSE "read"
    /\ header' = NoHeader
    /\ UNCHANGED <<pc, callSeq, ctxDone, rcall, todo, wireVars, mapVars,
                   sending, queue, notified>>

\* call.done(), then the loop test `for err == nil`.
RecvDone ==
    /\ recv = "done"
    /\ done(rcall)
    /\ rcall' = NoCall
    /\ recv' = IF rerr THEN "lock" ELSE "read"
    /\ UNCHANGED <<callVars, header, rerr, todo, wireVars, mapVars, sending>>

Registered == {c \in Calls : \E s \in 0..MaxSeq : pending[s] = c}

\* Faulty variant of terminateCalls: it does not take `sending`.
terminateCallsNoSending ==
    /\ recv = "lock"
    /\ shutdown' = TRUE
    /\ todo' = Registered
    /\ recv' = "terminate"
    /\ UNCHANGED <<callVars, header, rcall, rerr, wireVars, seq, pending,
                   closing, sending, queue, notified>>

\* terminateCalls takes both locks and marks the client shut down.
terminateCalls ==
    /\ recv = "lock"
    /\ sending = "free"
    /\ sending' = "receiver"
    /\ shutdown' = TRUE
    /\ todo' = Registered
    /\ recv' = "terminate"
    /\ UNCHANGED <<callVars, header, rcall, rerr, wireVars, seq, pending,
                   closing, queue, notified>>

\* One iteration of its loop; a Go map is ranged over in any order.
TerminateOne(c) ==
    /\ recv = "terminate" /\ c \in todo
    /\ callErr' = [callErr EXCEPT ![c] = "conn"]
    /\ done(c)
    /\ todo' = todo \ {c}
    /\ UNCHANGED <<pc, callSeq, ctxDone, recv, header, rcall, rerr, wireVars,
                   mapVars, sending>>

\* Faulty variant: the loop may be left before every call is notified.
TerminateEndEarly ==
    /\ recv = "terminate"
    /\ sending' = "free"
    /\ recv' = "exit"
    /\ UNCHANGED <<callVars, header, rcall, rerr, todo, wireVars, mapVars,
                   queue, notified>>

\* The loop is over: both locks are released and the goroutine ends.
TerminateEnd ==
    /\ recv = "terminate" /\ todo = {}
    /\ sending' = "free"
    /\ recv' = "exit"
    /\ UNCHANGED <<callVars, header, rcall, rerr, todo, wireVars, mapVars,
                   queue, notified>>

-----------------------------------------------------------------------------
\* The steps of the goroutine of call c after the user issued it.
CallStep(c) ==
    \/ SendRegister(c) \/ SendRefused(c)
    \/ WriteDelivered(c) \/ WriteLost(c) \/ WritePanics(c) \/ WriteFails(c)
    \/ SendRemove(c) \/ SendDone(c)
    \/ CallAwait(c) \/ CallSelect(c)

Receive ==
    \/ ReadHeader \/ ReadHeaderFails \/ RecvRemove \/ ReadBody \/ RecvDone
    \/ terminateCalls \/ (\E c \in Calls : TerminateOne(c)) \/ TerminateEnd

Next ==
    \/ \E c \in Calls : Go(c) \/ CallStep(c) \/ CtxExpire(c)
    \/ \E ch \in Chans : Collect(ch)
    \/ Close
    \/ \E r \in Answers : PeerAnswer(r)
    \/ PeerClose
    \/ Receive

Spec == Init /\ [][Next]_vars

\* The goroutine that passes channel ch to Go is not inside Go.
OutsideGo(ch) ==
    \A c \in Calls \ Sync :
        ChanOf[c] = ch => pc[c] \in {"idle", "returned", "panicked"}

\* Go schedules every runnable goroutine, and a mutex does not starve its
\* waiters.  The goroutine that issues calls on a channel also collects them,
\* as in TestClient_async (test/rpc_test.go:51-63), so it owes a Collect only
\* outside Go.  Nobody owes a new call, an answer or a Close.
Fairness ==
    /\ \A c \in Calls : WF_vars(CallStep(c))
    /\ \A ch \in Chans : WF_vars(OutsideGo(ch) /\ Collect(ch))
    /\ WF_vars(Receive)

FairSpec == Spec /\ Fairness
-----------------------------------------------------------------------------
(* Properties                                                              *)

\* Types of the variables.
TypeOK ==
    /\ pc \in [Calls -> PCs]
    /\ sending \in Calls \cup {"free", "receiver"}
    /\ seq \in 1..(MaxSeq + 1)
    /\ pending \in [0..MaxSeq -> Calls \cup {NoCall}]
    /\ closing \in BOOLEAN /\ shutdown \in BOOLEAN
    /\ callSeq \in [Calls -> 0..MaxSeq]
    /\ callErr \in [Calls -> CallErrs]
    /\ queue \in [Chans -> Seq(Calls)]
    /\ ctxDone \in [Calls -> BOOLEAN]
    /\ recv \in RecvPCs
    /\ header \in Headers
    /\ rcall \in Calls \cup {NoCall}
    /\ recv = "done" => rcall # NoCall
    /\ rerr \in BOOLEAN
    /\ todo \subseteq Calls
    /\ reqs \in Seq(Requests)
    /\ resps \in Seq(Headers)
    /\ answers \in 0..MaxAnswers
    /\ lclosed \in BOOLEAN /\ rclosed \in BOOLEAN /\ bufErr \in BOOLEAN
    /\ notified \in [Calls -> Nat]

\* No call is completed twice: whatever the peer answers and however a
\* failing write, a late response and terminateCalls interleave, done() runs
\* at most once per Call (a second send would block terminateCalls for ever
\* on Call's channel of capacity 1, with both mutexes held).
NotifiedOnce == \A c \in Calls : notified[c] <= 1

\* No registered call is forgotten: until it is notified, it is in pending
\* under its own number, or the receiver or its own send holds it.
NoCallLost ==
    \A c \in Calls :
        callSeq[c] # 0 /\ notified[c] = 0 =>
            \/ pending[callSeq[c]] = c
            \/ rcall = c
            \/ pc[c] = "complete"

\* terminateCalls reaches everyone: once the receive goroutine is gone, every
\* call that was ever registered has been notified, since nobody is left to
\* notify it.
ExitNotifiesAll ==
    recv = "exit" => \A c \in Calls : callSeq[c] # 0 => notified[c] = 1

\* Once the client is shut down it writes nothing more: terminateCalls takes
\* `sending` so that no send is between registerCall and Write.
NoWriteAfterShutdown == [][shutdown => reqs' = reqs]_vars

\* After Close, after the peer closed, or after a response that cannot be
\* decoded, every call a user has issued is completed: the error reaches the
\* receiver and it terminates them, and later ones are refused.  It takes
\* room in the Done channels: terminateCalls blocks in done() on a full one,
\* with both mutexes held (client.go:98).
ClosedCompletes ==
    \A c \in Calls :
        (lclosed \/ rclosed \/ rerr) /\ pc[c] # "idle" ~> notified[c] > 0

\* Client.Call returns once its call is complete (client.go:250, "synchronous
\* interface"; timeout_test.go:83-84 expects the error of a completed call).
SyncReturns == \A c \in Sync : notified[c] > 0 ~> pc[c] = "returned"

\* A Client.Call that returned was completed and its context had expired: the
\* context alone does not end the first receive (client.go:252), and the
\* second one (client.go:258) never finds a completion to return.
ReturnsByContext ==
    \A c \in Sync : pc[c] = "returned" => notified[c] = 1 /\ ctxDone[c]
=============================================================================
