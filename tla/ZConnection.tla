----------------------------- MODULE ZConnection -----------------------------
(***************************************************************************)
(* One zinx connection (src/myzinx/znet/connection.go) with the framing of *)
(* datapack.go and the worker that handles its requests (msghandler.go).   *)
(*                                                                         *)
(* Goroutines: the starter (Connection.Start), the reader, the writer and  *)
(* the worker.  They meet on ExitChan (capacity 1), the unbuffered msgChan *)
(* and the worker's task queue.  The pool is open before the server        *)
(* listens (server.go:56), so requests always go through the queue.        *)
(*                                                                         *)
(* The peer and the handlers are the environment: the peer sends messages  *)
(* or oversized ones, reads what is written or not, and ends the stream in *)
(* any way; a handler may answer, return, stop its connection, or stay     *)
(* where it is.                                                            *)
(***************************************************************************)
EXTENDS Naturals, Sequences

CONSTANTS
    MaxMsgs,   \* bound on the messages the peer sends
    Kinds,     \* the messages it may send: "msg", "big"
    Ends,      \* how the stream may end: "fin", "mid" (in a message), "rst"
    Handlers,  \* what handlers do: "reply", "quiet", "stop"
    MaxTasks   \* MaxWorkerTaskLen

ASSUME ConnectionAssumption ==
    /\ MaxMsgs \in Nat /\ MaxTasks \in Nat \ {0}
    /\ Kinds \subseteq {"msg", "big"}
    /\ Ends \subseteq {"fin", "mid", "rst"}
    /\ Handlers \subseteq {"reply", "quiet", "stop"}

VARIABLES
    goroutine,  \* where each goroutine is
    inbox,      \* what is in the socket: "msg", "big", "junk"
    sent,       \* number of messages the peer has sent
    ended,      \* how the stream ended, "open" before
    eof,        \* the reader's error is io.EOF
    tasks,      \* number of requests in the worker's queue
    taken,      \* number of requests the worker has taken
    exitBuf,    \* number of values in ExitChan
    exitClosed, \* ExitChan is closed
    isClosed,   \* c.isClosed
    connClosed, \* c.Conn is closed
    crashed,    \* a goroutine panicked: the process is gone
    userStop,   \* history: a handler has called Stop
    errors      \* history: errors of Unpack, counted up to MaxErrors

peerVars == <<inbox, sent, ended>>
taskVars == <<tasks, taken>>
stopVars == <<exitClosed, isClosed, connClosed>>
history == <<userStop, errors>>
connVars == <<goroutine, peerVars, eof, taskVars, exitBuf, stopVars, crashed,
              history>>

ConnPCs ==
    [reader  |-> {"unpack", "dispatch", "exit", "stop", "stopSet", "stopConn",
                  "stopChan", "done"},
     writer  |-> {"select", "write", "done"},
     starter |-> {"wait", "done"},
     worker  |-> {"idle", "handle", "check", "send", "stop", "stopSet",
                  "stopConn", "stopChan"}]
Goroutines == DOMAIN ConnPCs

\* One more than Start and the buffer of ExitChan take.
MaxErrors == 3

ConnInit ==
    /\ goroutine = [reader |-> "unpack", writer |-> "select",
                    starter |-> "wait", worker |-> "idle"]
    /\ inbox = <<>>
    /\ sent = 0
    /\ ended = "open"
    /\ eof = FALSE
    /\ tasks = 0
    /\ taken = 0
    /\ exitBuf = 0
    /\ exitClosed = FALSE
    /\ isClosed = FALSE
    /\ connClosed = FALSE
    /\ crashed = FALSE
    /\ userStop = FALSE
    /\ errors = 0

\* The process is up and this step does not bring it down.
Running == ~crashed /\ UNCHANGED <<crashed, history>>

Goto(g, from, to) ==
    /\ goroutine[g] = from
    /\ goroutine' = [goroutine EXCEPT ![g] = to]

-----------------------------------------------------------------------------
(* The peer                                                                *)

PeerSend(k) ==
    /\ Running
    /\ ended = "open" /\ ~connClosed /\ sent < MaxMsgs
    /\ sent' = sent + 1
    /\ inbox' = Append(inbox, k)
    /\ UNCHANGED <<goroutine, ended, eof, taskVars, exitBuf, stopVars>>

PeerEnd(e) ==
    /\ Running
    /\ ended = "open"
    /\ ended' = e
    /\ UNCHANGED <<goroutine, inbox, sent, eof, taskVars, exitBuf, stopVars>>

-----------------------------------------------------------------------------
(* StartReader and Unpack                                                  *)

\* Unpack reads through a bufio.Reader of its own: whatever arrived in the
\* same read is dropped with it, k whole messages and perhaps the beginning
\* of the next, whose rest stays behind as junk.
DropBuffered(q) ==
    \E k \in 0..Len(q), torn \in BOOLEAN :
        /\ torn => k < Len(q)
        /\ inbox' = IF torn THEN <<"junk">> \o SubSeq(q, k + 2, Len(q))
                            ELSE SubSeq(q, k + 1, Len(q))

\* Unpack returns a message; junk may happen to look like one.
Unpack ==
    /\ Running
    /\ Goto("reader", "unpack", "dispatch")
    /\ inbox # <<>> /\ Head(inbox) # "big" /\ ~connClosed
    /\ DropBuffered(Tail(inbox))
    /\ UNCHANGED <<sent, ended, eof, taskVars, exitBuf, stopVars>>

\* Unpack returns an error.
UnpackFails ==
    /\ ~crashed
    /\ Goto("reader", "unpack", "exit")
    /\ errors' = IF errors < MaxErrors THEN errors + 1 ELSE errors
    /\ UNCHANGED <<crashed, userStop>>

\* The length in the header exceeds MaxPackerSize: that of an oversized
\* packet, whose body, or a part of it, is still in the socket, or what is
\* read as a length in junk, which the peer never sent as one.
UnpackTooLarge ==
    /\ UnpackFails
    /\ inbox # <<>> /\ Head(inbox) # "msg" /\ ~connClosed
    /\ \/ DropBuffered(Tail(inbox))
       \/ Head(inbox) = "big" /\ inbox' = <<"junk">> \o Tail(inbox)
    /\ eof' = FALSE
    /\ UNCHANGED <<sent, ended, taskVars, exitBuf, stopVars>>

\* The stream has ended: io.EOF at the end of a message, also inside one where
\* a field ends, else another error first.  Junk may ask for more bytes than
\* there are.
UnpackEnd ==
    /\ UnpackFails
    /\ inbox # <<>> => Head(inbox) = "junk"
    /\ ended # "open" /\ ~connClosed
    /\ eof' \in IF ended = "rst" THEN {FALSE}
                ELSE IF ended = "fin" /\ inbox = <<>> THEN {TRUE} ELSE BOOLEAN
    /\ ended' = "fin"
    /\ inbox' = <<>>
    /\ UNCHANGED <<sent, taskVars, exitBuf, stopVars>>

\* This side closed the socket: an error that is not io.EOF, every time.
UnpackClosed ==
    /\ UnpackFails
    /\ connClosed
    /\ eof' = FALSE
    /\ UNCHANGED <<peerVars, taskVars, exitBuf, stopVars>>

\* c.ExitChan <- true; then only io.EOF leaves the loop, for the deferred
\* Stop.
ExitSend ==
    /\ Running
    /\ ~exitClosed /\ exitBuf < 1
    /\ exitBuf' = exitBuf + 1
    /\ Goto("reader", "exit", IF eof THEN "stop" ELSE "unpack")
    /\ UNCHANGED <<peerVars, eof, taskVars, stopVars>>

\* A send on the closed ExitChan panics.
ExitSendPanics ==
    /\ ~crashed
    /\ goroutine["reader"] = "exit" /\ exitClosed
    /\ crashed' = TRUE
    /\ UNCHANGED <<goroutine, peerVars, eof, taskVars, exitBuf, stopVars,
                   history>>

\* SendMsgToTaskQueue blocks while the queue is full.
Dispatch ==
    /\ Running
    /\ Goto("reader", "dispatch", "unpack")
    /\ tasks < MaxTasks
    /\ tasks' = tasks + 1
    /\ UNCHANGED <<peerVars, eof, taken, exitBuf, stopVars>>

-----------------------------------------------------------------------------
(* Connection.Stop, run by the reader's defer or by a handler              *)

AfterStop(g) == IF g = "reader" THEN "done" ELSE "idle"

\* The test of isClosed.
StopCheck(g) ==
    /\ Running
    /\ Goto(g, "stop", IF isClosed THEN AfterStop(g) ELSE "stopSet")
    /\ UNCHANGED <<peerVars, eof, taskVars, exitBuf, stopVars>>

\* isClosed = true
StopSet(g) ==
    /\ Running
    /\ Goto(g, "stopSet", "stopConn")
    /\ isClosed' = TRUE
    /\ UNCHANGED <<peerVars, eof, taskVars, exitBuf, exitClosed, connClosed>>

\* c.Conn.Close()
StopConn(g) ==
    /\ Running
    /\ Goto(g, "stopConn", "stopChan")
    /\ connClosed' = TRUE
    /\ UNCHANGED <<peerVars, eof, taskVars, exitBuf, exitClosed, isClosed>>

\* Faulty variant: the reader goes on reading after Stop.
StopChanLoops(g) ==
    /\ Running
    /\ ~exitClosed
    /\ Goto(g, "stopChan", IF g = "reader" THEN "unpack" ELSE "idle")
    /\ exitClosed' = TRUE
    /\ UNCHANGED <<peerVars, eof, taskVars, exitBuf, isClosed, connClosed>>

\* Faulty variant: ExitChan is not closed.
StopChanForgotten(g) ==
    /\ Running
    /\ Goto(g, "stopChan", AfterStop(g))
    /\ UNCHANGED <<peerVars, eof, taskVars, exitBuf, stopVars>>

\* close(c.ExitChan)
StopChan(g) ==
    /\ Running
    /\ ~exitClosed
    /\ Goto(g, "stopChan", AfterStop(g))
    /\ exitClosed' = TRUE
    /\ UNCHANGED <<peerVars, eof, taskVars, exitBuf, isClosed, connClosed>>

\* Both passed the test of isClosed: the second close panics.
StopChanPanics(g) ==
    /\ ~crashed
    /\ goroutine[g] = "stopChan" /\ exitClosed
    /\ crashed' = TRUE
    /\ UNCHANGED <<goroutine, peerVars, eof, taskVars, exitBuf, stopVars,
                   history>>

-----------------------------------------------------------------------------
(* The writer, the starter, the worker                                     *)

\* <-c.ExitChan in the select of the writer or of Start: a value, or the
\* closed channel.
ExitReceive(g, from) ==
    /\ Running
    /\ Goto(g, from, "done")
    /\ exitBuf > 0 \/ exitClosed
    /\ exitBuf' = IF exitBuf > 0 THEN exitBuf - 1 ELSE 0
    /\ UNCHANGED <<peerVars, eof, taskVars, stopVars>>

\* Conn.Write succeeds; if the peer is gone it may, or the writer returns.
Write ==
    /\ Running
    /\ \E ok \in BOOLEAN :
         /\ ok => ~connClosed
         /\ ended = "open" /\ ~connClosed => ok
         /\ Goto("writer", "write", IF ok THEN "select" ELSE "done")
    /\ UNCHANGED <<peerVars, eof, taskVars, exitBuf, stopVars>>

\* The worker takes the next request from its queue.
TakeTask ==
    /\ Running
    /\ Goto("worker", "idle", "handle")
    /\ tasks > 0
    /\ tasks' = tasks - 1
    /\ taken' = taken + 1
    /\ UNCHANGED <<peerVars, eof, exitBuf, stopVars>>

\* DoMsgHandle: the handler answers, stops the connection, or returns (as it
\* does at once if no router is registered).
Handle(h) ==
    /\ ~crashed
    /\ Goto("worker", "handle", CASE h = "reply" -> "check"
                                  [] h = "stop"  -> "stop"
                                  [] h = "quiet" -> "idle")
    /\ userStop' = (userStop \/ h = "stop")
    /\ UNCHANGED <<peerVars, eof, taskVars, exitBuf, stopVars, crashed,
                   errors>>

\* SendMsg's test of isClosed; then it packs the message.
SendCheck ==
    /\ Running
    /\ Goto("worker", "check", IF isClosed THEN "idle" ELSE "send")
    /\ UNCHANGED <<peerVars, eof, taskVars, exitBuf, stopVars>>

\* c.msgChan <- msg: a rendezvous with the writer's select.
SendMsg ==
    /\ Running
    /\ goroutine["worker"] = "send" /\ goroutine["writer"] = "select"
    /\ goroutine' = [goroutine EXCEPT !["worker"] = "idle",
                                      !["writer"] = "write"]
    /\ UNCHANGED <<peerVars, eof, taskVars, exitBuf, stopVars>>

-----------------------------------------------------------------------------
Stop(g) == \/ StopCheck(g) \/ StopSet(g) \/ StopConn(g)
           \/ StopChan(g) \/ StopChanPanics(g)

Reader == \/ Unpack \/ UnpackTooLarge \/ UnpackEnd \/ UnpackClosed
          \/ ExitSend \/ ExitSendPanics \/ Dispatch \/ Stop("reader")
Writer == ExitReceive("writer", "select") \/ Write
Starter == ExitReceive("starter", "wait")
Worker == \/ TakeTask \/ (\E h \in Handlers : Handle(h)) \/ SendCheck
          \/ Stop("worker")

ConnNext ==
    \/ \E k \in Kinds : PeerSend(k)
    \/ \E e \in Ends : PeerEnd(e)
    \/ Reader \/ Writer \/ Starter \/ Worker \/ SendMsg

ConnSpec == ConnInit /\ [][ConnNext]_connVars

\* Runnable goroutines run.  The peer owes nothing, so Conn.Write need not
\* return until the socket is closed; a handler need not return at all.
ConnFairness ==
    /\ WF_connVars(Reader) /\ WF_connVars(Starter)
    /\ WF_connVars(ExitReceive("writer", "select"))
    /\ WF_connVars(connClosed /\ Write)
    /\ WF_connVars(TakeTask \/ SendCheck \/ Stop("worker"))
    /\ WF_connVars(SendMsg)

ConnFairSpec == ConnSpec /\ ConnFairness
-----------------------------------------------------------------------------
(* Properties                                                              *)

\* Types of the variables; ExitChan has capacity 1.
ConnTypeOK ==
    /\ DOMAIN goroutine = Goroutines
    /\ \A g \in Goroutines : goroutine[g] \in ConnPCs[g]
    /\ inbox \in Seq({"msg", "big", "junk"})
    /\ sent \in 0..MaxMsgs
    /\ ended \in Ends \cup {"open", "fin"}
    /\ tasks \in 0..MaxTasks /\ taken \in Nat
    /\ exitBuf \in 0..1
    /\ eof \in BOOLEAN /\ exitClosed \in BOOLEAN /\ isClosed \in BOOLEAN
    /\ connClosed \in BOOLEAN /\ crashed \in BOOLEAN
    /\ userStop \in BOOLEAN /\ errors \in 0..MaxErrors

\* As long as no handler calls Stop, nothing the peer sends and no way it
\* ends the stream makes the reader touch ExitChan after its own Stop.
CrashNeedsStop == crashed => userStop

\* The reader waits for room in the queue, and its worker for a handler.
Blocked ==
    /\ goroutine["reader"] = "dispatch" /\ tasks = MaxTasks
    /\ goroutine["worker"] \in {"handle", "send"}

\* When the peer has ended the stream, all three goroutines of the connection
\* end and the socket is closed, whether or not the peer reads and the writer
\* or the worker is blocked.  There are two exceptions.  ExitChan and Start
\* take two errors of the reader; at the third it may block for good.  An end
\* of the stream makes no more than two, so it has refused something before:
\* oversized packets, or what its own buffering has left of messages that
\* came in one segment.  And it may block for good on a full queue, if a
\* handler never returns, or waits in SendMsg for a writer that is gone.
PeerEndEndsConnection ==
    ended # "open" ~>
        \/ /\ \A g \in {"reader", "writer", "starter"} : goroutine[g] = "done"
           /\ connClosed
        \/ crashed \/ errors > 2 \/ []Blocked
=============================================================================
