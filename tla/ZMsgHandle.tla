----------------------------- MODULE ZMsgHandle -----------------------------
(***************************************************************************)
(* The zinx worker pool (src/myzinx/znet/msghandler.go): the readers of    *)
(* several connections hand requests to the task queue that their          *)
(* connection id selects.  A queue and its worker are made by the first    *)
(* reader that finds none, without a lock, so every access to TaskQueue is *)
(* a step of its own.                                                      *)
(*                                                                         *)
(* Connection ids count up from 0 (server.go:71-85), and any of the        *)
(* connections may send; a request is its connection and its place in that *)
(* connection's stream.                                                    *)
(***************************************************************************)
EXTENDS Naturals, Sequences, FiniteSets

CONSTANTS
    Conns,      \* the ids of the connections that send requests
    PoolSize,   \* WorkerPoolSize
    MaxReqs,    \* bound on the requests of one connection
    QueueCap    \* MaxWorkerTaskLen

\* SendMsgToTaskQueue divides by WorkerPoolSize.
ASSUME PoolAssumption ==
    /\ Conns \subseteq Nat /\ IsFiniteSet(Conns) /\ Conns # {}
    /\ PoolSize \in Nat \ {0}
    /\ MaxReqs \in Nat \ {0}
    /\ QueueCap \in Nat \ {0}

Slots == 0..(PoolSize - 1)
\* Queues and workers are named in the order they are made; a reader makes
\* at most one of each.
Ids == 1..Cardinality(Conns)

VARIABLES
    at,        \* at[c]: where the reader of connection c is
    next,      \* next[c]: the request it dispatches
    TaskQueue, \* TaskQueue[w]: the queue in slot w, 0 for nil
    target,    \* target[c]: the channel its send has evaluated
    made,      \* number of queues made
    queue,     \* queue[q]: the contents of queue q
    serves,    \* serves[i]: the queue that worker i reads, 0 if not started
    job,       \* job[i]: the request it handles
    handled    \* history: handled[c]: its requests handled, in that order

vars == <<at, next, TaskQueue, target, made, queue, serves, job, handled>>

WorkerId(c) == c % PoolSize
Request(c, n) == [conn |-> c, num |-> n]
NoJob == [conn |-> 0, num |-> 0]
Requests == [conn : Conns, num : 1..MaxReqs]

Init ==
    /\ at = [c \in Conns |-> "look"]
    /\ next = [c \in Conns |-> 1]
    /\ TaskQueue = [w \in Slots |-> 0]
    /\ target = [c \in Conns |-> 0]
    /\ made = 0
    /\ queue = [q \in Ids |-> <<>>]
    /\ serves = [i \in Ids |-> 0]
    /\ job = [i \in Ids |-> NoJob]
    /\ handled = [c \in Conns |-> <<>>]

\* if mh.TaskQueue[workerID] == nil
Look(c) ==
    /\ at[c] = "look" /\ next[c] <= MaxReqs
    /\ at' = [at EXCEPT ![c] = IF TaskQueue[WorkerId(c)] = 0 THEN "make"
                                                           ELSE "load"]
    /\ UNCHANGED <<next, TaskQueue, target, made, queue, serves, job, handled>>

\* mh.TaskQueue[workerID] = make(chan ...)
Make(c) ==
    /\ at[c] = "make"
    /\ made' = made + 1
    /\ TaskQueue' = [TaskQueue EXCEPT ![WorkerId(c)] = made + 1]
    /\ at' = [at EXCEPT ![c] = "spawn"]
    /\ UNCHANGED <<next, target, queue, serves, job, handled>>

\* Faulty variant: the worker is not started.
SpawnForgotten(c) ==
    /\ at[c] = "spawn"
    /\ at' = [at EXCEPT ![c] = "load"]
    /\ UNCHANGED <<next, TaskQueue, target, made, queue, serves, job, handled>>

\* Faulty variant: two workers are started on the queue.
SpawnTwice(c) ==
    /\ at[c] = "spawn"
    /\ \E i, j \in Ids :
         /\ i # j /\ serves[i] = 0 /\ serves[j] = 0
         /\ serves' = [serves EXCEPT ![i] = TaskQueue[WorkerId(c)],
                                     ![j] = TaskQueue[WorkerId(c)]]
    /\ at' = [at EXCEPT ![c] = "load"]
    /\ UNCHANGED <<next, TaskQueue, target, made, queue, job, handled>>

\* go mh.StartOneWorker(..., mh.TaskQueue[workerID]): the slot is read again.
Spawn(c) ==
    /\ at[c] = "spawn"
    /\ \E i \in Ids :
         /\ serves[i] = 0 /\ \A j \in 1..(i - 1) : serves[j] # 0
         /\ serves' = [serves EXCEPT ![i] = TaskQueue[WorkerId(c)]]
    /\ at' = [at EXCEPT ![c] = "load"]
    /\ UNCHANGED <<next, TaskQueue, target, made, queue, job, handled>>

\* mh.TaskQueue[workerID] <- request: the slot is read once more, ...
Load(c) ==
    /\ at[c] = "load"
    /\ target' = [target EXCEPT ![c] = TaskQueue[WorkerId(c)]]
    /\ at' = [at EXCEPT ![c] = "send"]
    /\ UNCHANGED <<next, TaskQueue, made, queue, serves, job, handled>>

\* ... and the send blocks while that queue is full.
Send(c) ==
    /\ at[c] = "send"
    /\ Len(queue[target[c]]) < QueueCap
    /\ queue' = [queue EXCEPT ![target[c]] = Append(@, Request(c, next[c]))]
    /\ next' = [next EXCEPT ![c] = @ + 1]
    /\ at' = [at EXCEPT ![c] = "look"]
    /\ UNCHANGED <<TaskQueue, target, made, serves, job, handled>>

\* StartOneWorker: the worker takes a request and runs DoMsgHandle.
Take(i) ==
    /\ serves[i] # 0 /\ job[i] = NoJob
    /\ queue[serves[i]] # <<>>
    /\ job' = [job EXCEPT ![i] = Head(queue[serves[i]])]
    /\ queue' = [queue EXCEPT ![serves[i]] = Tail(@)]
    /\ UNCHANGED <<at, next, TaskQueue, target, made, serves, handled>>

\* DoMsgHandle returns.
DoMsgHandle(i) ==
    /\ job[i] # NoJob
    /\ handled' = [handled EXCEPT ![job[i].conn] = Append(@, job[i].num)]
    /\ job' = [job EXCEPT ![i] = NoJob]
    /\ UNCHANGED <<at, next, TaskQueue, target, made, queue, serves>>

SendMsgToTaskQueue(c) == Look(c) \/ Make(c) \/ Spawn(c) \/ Load(c) \/ Send(c)
StartOneWorker(i) == Take(i) \/ DoMsgHandle(i)

Next == \/ \E c \in Conns : SendMsgToTaskQueue(c)
        \/ \E i \in Ids : StartOneWorker(i)

Spec == Init /\ [][Next]_vars

\* Runnable goroutines run.  A client owes no request, so Look is not fair; a
\* handler owes no return (its SendMsg may block, connection.go:142), so
\* DoMsgHandle is not fair.
Fairness ==
    /\ \A c \in Conns : WF_vars(Make(c) \/ Spawn(c) \/ Load(c) \/ Send(c))
    /\ \A i \in Ids : WF_vars(Take(i))

FairSpec == Spec /\ Fairness
-----------------------------------------------------------------------------
(* Properties                                                              *)

\* Types of the variables; queues keep to their capacity.
TypeOK ==
    /\ at \in [Conns -> {"look", "make", "spawn", "load", "send"}]
    /\ next \in [Conns -> 1..(MaxReqs + 1)]
    /\ TaskQueue \in [Slots -> Ids \cup {0}]
    /\ target \in [Conns -> Ids \cup {0}]
    /\ made \in Ids \cup {0}
    /\ queue \in [Ids -> Seq(Requests)]
    /\ \A q \in Ids : Len(queue[q]) <= QueueCap
    /\ serves \in [Ids -> Ids \cup {0}]
    /\ job \in [Ids -> Requests \cup {NoJob}]
    /\ handled \in [Conns -> Seq(1..MaxReqs)]

\* The reader of c has begun to dispatch.
Begun(c) == at[c] # "look" \/ next[c] > 1

\* No other connection of its slot has begun to.
Alone(c) == \A d \in Conns \ {c} : WorkerId(d) = WorkerId(c) => ~ Begun(d)

\* A connection has one worker (msghandler.go:78 "assign by ID which worker
\* is responsible for the current connection"): its requests are handled one
\* at a time, in the order they were read.  This holds for a connection as
\* long as it is the only one to use its slot; readers that share one may
\* start two workers.
OneWorkerPerConn ==
    /\ \A i, j \in Ids :
          /\ job[i] # NoJob /\ job[j] # NoJob
          /\ job[i].conn = job[j].conn /\ Alone(job[i].conn)
          => i = j
    /\ \A c \in Conns : Alone(c) =>
          \A x, y \in DOMAIN handled[c] :
              x < y => handled[c][x] < handled[c][y]

\* Request n of c is in queue q, or its reader waits to put it there.
InQueue(c, n, q) ==
    \/ \E x \in DOMAIN queue[q] : queue[q][x] = Request(c, n)
    \/ at[c] = "send" /\ next[c] = n /\ target[c] = q

Served(q) == \E i \in Ids : serves[i] = q

\* Three readers or more have found their way to the slot of c.
Crowded(c) ==
    \E d, f \in Conns \ {c} :
        /\ d # f
        /\ \A x \in {c, d, f} : WorkerId(x) = WorkerId(c) /\ Begun(x)

\* Request n of c waits for a handler that has not returned: its own, or the
\* one each worker of its queue is in.  Or it waits in a queue without any
\* worker, which takes three readers.
Held(c, n) ==
    \/ \E i \in Ids : job[i] = Request(c, n)
    \/ \E q \in Ids :
          /\ InQueue(c, n, q)
          /\ \A i \in Ids : serves[i] = q => job[i] # NoJob
          /\ Served(q) \/ Crowded(c)

\* A request a reader has begun to dispatch is handled (imsghandler.go:9
\* "hand the message to the TaskQueue, a worker processes it"), with two
\* exceptions.  A handler that never returns holds up its own request and
\* those queued behind it.  And where three connections or more share a slot,
\* the unlocked test of msghandler.go:83-86 can leave a queue without a
\* worker: the first reader makes and serves a queue, the second replaces it
\* and is slow to start a worker, the first sends to the new queue, and the
\* third replaces that one in turn, so that both late workers serve the last.
\* Two readers that race lose nothing.
RequestsHandled ==
    \A c \in Conns, n \in 1..MaxReqs :
        next[c] = n /\ at[c] # "look" ~>
            \/ \E x \in DOMAIN handled[c] : handled[c][x] = n
            \/ []Held(c, n)
=============================================================================
