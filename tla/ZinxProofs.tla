----------------------------- MODULE ZinxProofs -----------------------------
(***************************************************************************)
(* Theorems about zinx.  The worker pool (ZMsgHandle): a connection that   *)
(* has its slot to itself has one worker, and no request is                *)
(* dropped, for any number of connections, any pool and queues of any      *)
(* length.  One connection (ZConnection): no peer crashes the process, and *)
(* Stop releases what it should, for any number of messages.               *)
(***************************************************************************)
EXTENDS ZMsgHandle, ZConnection, FiniteSetTheorems, TLAPS

QueueOf(c) == TaskQueue[WorkerId(c)]

\* The readers that may still make a queue.
Makers == {c \in Conns : at[c] = "make" \/ (at[c] = "look" /\ QueueOf(c) = 0)}

\* Queues are named in turn, at most one for a reader, and no two slots have
\* the same.
SlotInv ==
    /\ made + Cardinality(Makers) <= Cardinality(Conns)
    /\ \A v \in Slots : TaskQueue[v] <= made
    /\ \A i \in Ids : serves[i] <= made
    /\ \A u, v \in Slots : TaskQueue[u] = TaskQueue[v] /\ TaskQueue[u] # 0
                           => u = v

\* What a reader has done for the request it dispatches.
ReaderInv ==
    \A c \in Conns :
        /\ at[c] # "look" => next[c] <= MaxReqs
        /\ at[c] \in {"spawn", "load", "send"} => QueueOf(c) # 0
        /\ at[c] = "send" => target[c] # 0

\* Every request is older than the one its reader dispatches, and a queue has
\* those of a connection in their order.
OrderInv ==
    /\ \A q \in Ids : \A j \in 1..Len(queue[q]) :
          /\ queue[q][j].num < next[queue[q][j].conn]
          /\ \A k \in 1..Len(queue[q]) :
                j < k /\ queue[q][j].conn = queue[q][k].conn =>
                    queue[q][j].num < queue[q][k].num
    /\ \A i \in Ids : job[i] # NoJob => job[i].num < next[job[i].conn]
    /\ \A c \in Conns : \A x \in 1..Len(handled[c]) : handled[c][x] < next[c]

\* A connection alone on its slot: one queue, one worker.
AloneOf(c) ==
    /\ at[c] = "make" => QueueOf(c) = 0
    /\ at[c] = "spawn" => \A i \in Ids : serves[i] # QueueOf(c)
    /\ at[c] = "send" => target[c] = QueueOf(c)
    /\ QueueOf(c) # 0 => \A i, j \in Ids :
          serves[i] = QueueOf(c) /\ serves[j] = QueueOf(c) => i = j
    /\ \A q \in Ids : \A j \in 1..Len(queue[q]) :
          queue[q][j].conn = c => q = QueueOf(c)
    /\ \A i \in Ids : job[i] # NoJob /\ job[i].conn = c =>
          serves[i] = QueueOf(c) /\ QueueOf(c) # 0

AloneInv == \A c \in Conns : Alone(c) => AloneOf(c)

\* Its requests are handled, in work and in the queue in their order.
HandledOf(c) ==
    /\ \A x, y \in 1..Len(handled[c]) :
          x < y => handled[c][x] < handled[c][y]
    /\ \A i \in Ids : job[i] # NoJob /\ job[i].conn = c =>
          /\ \A x \in 1..Len(handled[c]) : handled[c][x] < job[i].num
          /\ \A q \in Ids : \A j \in 1..Len(queue[q]) :
                queue[q][j].conn = c => job[i].num < queue[q][j].num
    /\ \A q \in Ids : \A j \in 1..Len(queue[q]) :
          queue[q][j].conn = c =>
              \A x \in 1..Len(handled[c]) : handled[c][x] < queue[q][j].num

HandledInv == \A c \in Conns : Alone(c) => HandledOf(c)

\* The inductive invariant.
IInv == TypeOK /\ SlotInv /\ ReaderInv /\ OrderInv /\ AloneInv /\ HandledInv
-----------------------------------------------------------------------------
(* Types, and the names of queues                                          *)

LEMMA Constants ==
    /\ Cardinality(Conns) \in Nat /\ PoolSize \in Nat /\ PoolSize > 0
    /\ MaxReqs \in Nat /\ MaxReqs > 0 /\ QueueCap \in Nat /\ QueueCap > 0
    /\ 0 \notin Ids /\ Ids \subseteq Nat /\ Conns \subseteq Nat
BY PoolAssumption, FS_CardinalityType DEF Ids

\* SendMsgToTaskQueue stays within the slice.
LEMMA WorkerIdType == ASSUME NEW c \in Conns PROVE WorkerId(c) \in Slots
BY Constants DEF WorkerId, Slots

LEMMA RequestType ==
    /\ \A c \in Conns, n \in 1..MaxReqs : Request(c, n) \in Requests
    /\ \A r \in Requests : r.conn \in Conns /\ r.num \in 1..MaxReqs
    /\ \A r \in Requests : r # NoJob
BY Constants DEF Request, Requests, NoJob

LEMMA MakersFinite ==
    IsFiniteSet(Makers) /\ Cardinality(Makers) \in Nat
PROOF
<1>1. IsFiniteSet(Conns)
  BY PoolAssumption
<1>2. Makers \subseteq Conns
  BY DEF Makers
<1> QED
  BY <1>1, <1>2, FS_Subset, FS_CardinalityType

LEMMA TypeInit == Init => TypeOK
PROOF
<1> SUFFICES ASSUME Init PROVE TypeOK
  OBVIOUS
<1>1. queue \in [Ids -> Seq(Requests)] /\ handled \in [Conns -> Seq(1..MaxReqs)]
  BY DEF Init
<1>2. \A q \in Ids : Len(queue[q]) <= QueueCap
  BY Constants DEF Init
<1> QED
  BY <1>1, <1>2, Constants DEF Init, TypeOK

\* The readers.
LEMMA TypeReader ==
    ASSUME TypeOK, SlotInv, ReaderInv, NEW c \in Conns, SendMsgToTaskQueue(c)
    PROVE  TypeOK'
PROOF
<1> USE Constants
<1>1. QueueOf(c) \in Ids \cup {0} /\ WorkerId(c) \in Slots
  BY WorkerIdType DEF TypeOK, QueueOf
<1>2. CASE Look(c)
  BY <1>2 DEF Look, TypeOK
<1>3. CASE Make(c)
  <2>1. made + 1 \in Ids
    <3>1. c \in Makers
      BY <1>3 DEF Make, Makers
    <3>2. Cardinality(Makers) > 0
      BY <3>1, MakersFinite, FS_EmptySet
    <3> QED
      BY <3>2, MakersFinite DEF SlotInv, TypeOK, Ids
  <2> QED
    BY <1>1, <1>3, <2>1 DEF Make, TypeOK
<1>4. CASE Spawn(c)
  <2>1. serves' \in [Ids -> Ids \cup {0}]
    BY <1>1, <1>4 DEF Spawn, TypeOK, QueueOf
  <2> QED
    BY <1>4, <2>1 DEF Spawn, TypeOK
<1>5. CASE Load(c)
  BY <1>1, <1>5 DEF Load, TypeOK, QueueOf
<1>6. CASE Send(c)
  <2>1. target[c] \in Ids /\ next[c] \in 1..MaxReqs
    BY <1>6 DEF Send, ReaderInv, TypeOK
  <2>2. Request(c, next[c]) \in Requests
    BY <2>1, RequestType
  <2>3. /\ queue' \in [Ids -> Seq(Requests)]
        /\ \A q \in Ids : Len(queue'[q]) <= QueueCap
    <3>1. /\ queue' = [queue EXCEPT ![target[c]] =
                             Append(queue[target[c]], Request(c, next[c]))]
          /\ Len(queue[target[c]]) < QueueCap
      BY <1>6 DEF Send
    <3>2. queue[target[c]] \in Seq(Requests)
      BY <2>1 DEF TypeOK
    <3>3. /\ Append(queue[target[c]], Request(c, next[c])) \in Seq(Requests)
          /\ Len(Append(queue[target[c]], Request(c, next[c]))) =
                Len(queue[target[c]]) + 1
          /\ Len(queue[target[c]]) \in Nat
      BY <2>2, <3>2
    <3> QED
      BY <2>1, <3>1, <3>3 DEF TypeOK
  <2>4. next' \in [Conns -> 1..(MaxReqs + 1)]
    BY <1>6, <2>1 DEF Send, TypeOK
  <2> QED
    BY <1>6, <2>3, <2>4 DEF Send, TypeOK
<1> QED
  BY <1>2, <1>3, <1>4, <1>5, <1>6 DEF SendMsgToTaskQueue

\* A worker takes a request from its queue.
LEMMA Taken ==
    ASSUME TypeOK, NEW i \in Ids, Take(i)
    PROVE  LET s == serves[i]
               r == queue[s][1]
           IN  /\ s \in Ids /\ Len(queue[s]) \in Nat \ {0} /\ r \in Requests
               /\ job[i] = NoJob /\ job' = [job EXCEPT ![i] = r]
               /\ queue' \in [Ids -> Seq(Requests)]
               /\ Len(queue'[s]) = Len(queue[s]) - 1
               /\ \A j \in 1..Len(queue'[s]) :
                     queue'[s][j] = queue[s][j + 1] /\ j + 1 \in 1..Len(queue[s])
               /\ \A q \in Ids : q # s => queue'[q] = queue[q]
               /\ UNCHANGED <<at, next, TaskQueue, target, made, serves, handled>>
PROOF
<1> DEFINE s == serves[i]
<1>1. s \in Ids /\ queue[s] \in Seq(Requests) /\ queue[s] # <<>>
  BY DEF Take, TypeOK
<1>2. /\ queue' = [queue EXCEPT ![s] = Tail(queue[s])]
      /\ job' = [job EXCEPT ![i] = Head(queue[s])] /\ job[i] = NoJob
      /\ UNCHANGED <<at, next, TaskQueue, target, made, serves, handled>>
  BY DEF Take
<1> HIDE DEF s
<1>3. /\ Len(queue[s]) \in Nat \ {0} /\ Head(queue[s]) = queue[s][1]
      /\ queue[s][1] \in Requests /\ Tail(queue[s]) \in Seq(Requests)
      /\ Len(Tail(queue[s])) = Len(queue[s]) - 1
      /\ \A j \in 1..Len(Tail(queue[s])) :
            Tail(queue[s])[j] = queue[s][j + 1] /\ j + 1 \in 1..Len(queue[s])
  BY <1>1
<1>4. /\ queue'[s] = Tail(queue[s]) /\ queue' \in [Ids -> Seq(Requests)]
      /\ \A q \in Ids : q # s => queue'[q] = queue[q]
  BY <1>1, <1>2, <1>3 DEF TypeOK
<1> QED
  BY <1>1, <1>2, <1>3, <1>4 DEF s

\* DoMsgHandle returns.
LEMMA Done ==
    ASSUME TypeOK, NEW i \in Ids, DoMsgHandle(i)
    PROVE  LET c == job[i].conn
           IN  /\ c \in Conns /\ job[i] # NoJob /\ job[i].num \in 1..MaxReqs
               /\ job' = [job EXCEPT ![i] = NoJob]
               /\ handled' \in [Conns -> Seq(1..MaxReqs)]
               /\ Len(handled'[c]) = Len(handled[c]) + 1
               /\ handled'[c][Len(handled[c]) + 1] = job[i].num
               /\ \A x \in 1..Len(handled[c]) : handled'[c][x] = handled[c][x]
               /\ \A d \in Conns : d # c => handled'[d] = handled[d]
               /\ UNCHANGED <<at, next, TaskQueue, target, made, queue, serves>>
PROOF
<1> DEFINE c == job[i].conn
           n == job[i].num
<1>1. /\ job[i] # NoJob /\ job' = [job EXCEPT ![i] = NoJob]
      /\ handled' = [handled EXCEPT ![c] = Append(handled[c], n)]
      /\ UNCHANGED <<at, next, TaskQueue, target, made, queue, serves>>
  BY DEF DoMsgHandle
<1>2. c \in Conns /\ n \in 1..MaxReqs
  BY <1>1, RequestType DEF TypeOK
<1> HIDE DEF c, n
<1>3. handled'[c] = Append(handled[c], n) /\ handled[c] \in Seq(1..MaxReqs)
  BY <1>1, <1>2 DEF TypeOK
<1>4. /\ handled' \in [Conns -> Seq(1..MaxReqs)]
      /\ \A d \in Conns : d # c => handled'[d] = handled[d]
  BY <1>1, <1>2 DEF TypeOK
<1>5. /\ Len(handled'[c]) = Len(handled[c]) + 1
      /\ handled'[c][Len(handled[c]) + 1] = n
      /\ \A x \in 1..Len(handled[c]) : handled'[c][x] = handled[c][x]
  BY <1>2, <1>3
<1> QED
  BY <1>1, <1>2, <1>4, <1>5 DEF c, n

\* A reader's send.
LEMMA Sent ==
    ASSUME TypeOK, ReaderInv, NEW c \in Conns, Send(c)
    PROVE  LET t == target[c]
               n == Len(queue[t])
           IN  /\ t \in Ids /\ next[c] \in 1..MaxReqs /\ at[c] = "send"
               /\ queue' \in [Ids -> Seq(Requests)] /\ n \in Nat
               /\ Len(queue'[t]) = n + 1
               /\ queue'[t][n + 1] = Request(c, next[c])
               /\ \A j \in 1..n : queue'[t][j] = queue[t][j]
               /\ \A q \in Ids : q # t => queue'[q] = queue[q]
               /\ next' = [next EXCEPT ![c] = next[c] + 1]
               /\ at' = [at EXCEPT ![c] = "look"]
               /\ UNCHANGED <<TaskQueue, target, made, serves, job, handled>>
PROOF
<1> DEFINE t == target[c]
           r == Request(c, next[c])
<1>1. /\ queue' = [queue EXCEPT ![t] = Append(queue[t], r)]
      /\ next' = [next EXCEPT ![c] = next[c] + 1]
      /\ at[c] = "send" /\ at' = [at EXCEPT ![c] = "look"]
      /\ UNCHANGED <<TaskQueue, target, made, serves, job, handled>>
  BY DEF Send
<1>2. t \in Ids /\ next[c] \in 1..MaxReqs
  BY <1>1, Constants DEF ReaderInv, TypeOK
<1>3. r \in Requests
  BY <1>2, RequestType
<1> HIDE DEF t, r
<1>4. /\ queue'[t] = Append(queue[t], r) /\ queue[t] \in Seq(Requests)
      /\ \A q \in Ids : q # t => queue'[q] = queue[q]
  BY <1>1, <1>2 DEF TypeOK
<1>5. /\ Append(queue[t], r) \in Seq(Requests) /\ Len(queue[t]) \in Nat
      /\ Len(queue'[t]) = Len(queue[t]) + 1
      /\ queue'[t][Len(queue[t]) + 1] = r
      /\ \A j \in 1..Len(queue[t]) : queue'[t][j] = queue[t][j]
  BY <1>3, <1>4
<1>6. queue' \in [Ids -> Seq(Requests)]
  BY <1>1, <1>2, <1>5 DEF TypeOK
<1> QED
  BY <1>1, <1>2, <1>4, <1>5, <1>6 DEF t, r

LEMMA TypeWorker ==
    ASSUME TypeOK, NEW i \in Ids, StartOneWorker(i)
    PROVE  TypeOK'
PROOF
<1>1. CASE Take(i)
  <2>1. job' \in [Ids -> Requests \cup {NoJob}]
    <3>1. PICK r \in Requests : job' = [job EXCEPT ![i] = r]
      BY <1>1, Taken
    <3> QED
      BY <3>1 DEF TypeOK
  <2>2. ASSUME NEW q \in Ids PROVE Len(queue'[q]) <= QueueCap
    <3>1. Len(queue[q]) \in Nat /\ Len(queue[q]) <= QueueCap
      BY DEF TypeOK
    <3>2. Len(queue'[q]) \in {Len(queue[q]), Len(queue[q]) - 1}
      BY <1>1, Taken
    <3> QED
      BY <3>1, <3>2, Constants
  <2>3. /\ queue' \in [Ids -> Seq(Requests)]
        /\ UNCHANGED <<at, next, TaskQueue, target, made, serves, handled>>
    BY <1>1, Taken
  <2> QED
    BY <2>1, <2>2, <2>3 DEF TypeOK
<1>2. CASE DoMsgHandle(i)
  BY <1>2, Done DEF TypeOK
<1> QED
  BY <1>1, <1>2 DEF StartOneWorker

LEMMA TypeNext == TypeOK /\ SlotInv /\ ReaderInv /\ [Next]_vars => TypeOK'
PROOF
<1>1. ASSUME TypeOK, UNCHANGED vars PROVE TypeOK'
  BY <1>1 DEF TypeOK, vars
<1> QED
  BY <1>1, TypeReader, TypeWorker DEF Next

\* Fewer readers may make a queue, and names and slots stay.
LEMMA SlotSame ==
    ASSUME SlotInv, TypeOK, Makers' \subseteq Makers,
           UNCHANGED <<made, TaskQueue, serves>>
    PROVE  SlotInv'
PROOF
<1>1. Cardinality(Makers') <= Cardinality(Makers) /\ Cardinality(Makers') \in Nat
  BY MakersFinite, FS_Subset, FS_CardinalityType
<1> QED
  BY <1>1, MakersFinite, Constants DEF SlotInv, TypeOK

LEMMA SlotNext ==
    TypeOK /\ SlotInv /\ ReaderInv /\ [Next]_vars => SlotInv' /\ ReaderInv'
PROOF
<1> SUFFICES ASSUME TypeOK, SlotInv, ReaderInv, [Next]_vars
             PROVE  SlotInv' /\ ReaderInv'
  OBVIOUS
<1> USE Constants
<1>1. \A c \in Conns : QueueOf(c) \in Ids \cup {0} /\ WorkerId(c) \in Slots
  BY WorkerIdType DEF TypeOK, QueueOf
<1>2. ASSUME NEW c \in Conns, Look(c) PROVE SlotInv' /\ ReaderInv'
  <2>1. Makers' \subseteq Makers
    BY <1>2 DEF Look, Makers, QueueOf, TypeOK
  <2>2. ReaderInv'
    BY <1>2 DEF Look, ReaderInv, QueueOf, TypeOK
  <2> QED
    BY <1>2, <2>1, <2>2, SlotSame DEF Look
<1>3. ASSUME NEW c \in Conns, Make(c) PROVE SlotInv' /\ ReaderInv'
  <2>1. /\ TaskQueue' = [TaskQueue EXCEPT ![WorkerId(c)] = made + 1]
        /\ made' = made + 1 /\ at' = [at EXCEPT ![c] = "spawn"]
        /\ UNCHANGED <<next, target, serves>>
    BY <1>3 DEF Make
  <2>2. made \in Nat /\ \A v \in Slots : TaskQueue'[v] =
            IF v = WorkerId(c) THEN made + 1 ELSE TaskQueue[v]
    BY <2>1 DEF TypeOK
  <2>3. \A d \in Conns : QueueOf(d) # 0 => QueueOf(d)' # 0
    <3>1. TAKE d \in Conns
    <3>2. QueueOf(d)' \in {made + 1, QueueOf(d)}
      BY <1>1, <2>2 DEF QueueOf
    <3>3. made + 1 # 0
      BY <2>2
    <3> QED
      BY <3>2, <3>3
  <2>4. QueueOf(c)' # 0
    BY <1>1, <2>2 DEF QueueOf
  <2>5. ReaderInv'
    BY <1>3, <2>1, <2>3, <2>4 DEF Make, ReaderInv, TypeOK
  <2>6. c \in Makers /\ Makers' \subseteq Makers \ {c}
    BY <1>3, <2>1, <2>3 DEF Make, Makers, TypeOK
  <2>7. /\ Cardinality(Makers') <= Cardinality(Makers) - 1
        /\ Cardinality(Makers') \in Nat /\ Cardinality(Makers) \in Nat
    <3>1. /\ IsFiniteSet(Makers \ {c})
          /\ Cardinality(Makers \ {c}) = Cardinality(Makers) - 1
          /\ Cardinality(Makers) \in Nat
      BY <2>6, MakersFinite, FS_RemoveElement
    <3>2. /\ Cardinality(Makers') <= Cardinality(Makers \ {c})
          /\ IsFiniteSet(Makers')
      BY <2>6, <3>1, FS_Subset
    <3>3. Cardinality(Makers') \in Nat
      BY <3>2, FS_CardinalityType
    <3> QED
      BY <3>1, <3>2, <3>3
  <2>a. /\ \A v \in Slots : TaskQueue[v] \in Nat
        /\ \A i \in Ids : serves[i] \in Nat
    <3>1. \A x \in Ids \cup {0} : x \in Nat
      OBVIOUS
    <3>2. /\ \A v \in Slots : TaskQueue[v] \in Ids \cup {0}
          /\ \A i \in Ids : serves[i] \in Ids \cup {0}
      BY DEF TypeOK
    <3> QED
      BY <3>1, <3>2
  <2>b. /\ \A v \in Slots : TaskQueue[v] <= made
        /\ \A i \in Ids : serves[i] <= made
    BY DEF SlotInv
  <2>8. \A v \in Slots : TaskQueue'[v] <= made'
    BY <2>1, <2>2, <2>a, <2>b
  <2>9. \A u, v \in Slots :
            TaskQueue'[u] = TaskQueue'[v] /\ TaskQueue'[u] # 0 => u = v
    <3>1. \A v \in Slots : TaskQueue[v] # made + 1
      BY <2>2, <2>a, <2>b
    <3> QED
      BY <2>2, <3>1 DEF SlotInv
  <2>10. \A i \in Ids : serves'[i] <= made'
    BY <2>1, <2>2, <2>a, <2>b
  <2>11. made' + Cardinality(Makers') <= Cardinality(Conns)
    BY <2>1, <2>2, <2>7 DEF SlotInv
  <2> QED
    BY <2>5, <2>8, <2>9, <2>10, <2>11 DEF SlotInv
<1>4. ASSUME NEW c \in Conns, Spawn(c) PROVE SlotInv' /\ ReaderInv'
  <2>1. PICK i \in Ids : serves' = [serves EXCEPT ![i] = QueueOf(c)]
    BY <1>4 DEF Spawn, QueueOf
  <2>2. Makers' \subseteq Makers /\ ReaderInv'
    BY <1>4 DEF Spawn, Makers, ReaderInv, QueueOf, TypeOK
  <2>3. \A j \in Ids : serves'[j] <= made
    BY <1>1, <2>1 DEF SlotInv, QueueOf, TypeOK
  <2>4. /\ Cardinality(Makers') <= Cardinality(Makers)
        /\ Cardinality(Makers') \in Nat /\ Cardinality(Makers) \in Nat
    BY <2>2, MakersFinite, FS_Subset, FS_CardinalityType
  <2>5. UNCHANGED <<made, TaskQueue>> /\ made \in Nat
    BY <1>4 DEF Spawn, TypeOK
  <2> QED
    BY <2>2, <2>3, <2>4, <2>5 DEF SlotInv
<1>5. ASSUME NEW c \in Conns, Load(c) PROVE SlotInv' /\ ReaderInv'
  <2>1. Makers' \subseteq Makers
    BY <1>5 DEF Load, Makers, QueueOf, TypeOK
  <2>2. ReaderInv'
    BY <1>5 DEF Load, ReaderInv, QueueOf, TypeOK
  <2> QED
    BY <1>5, <2>1, <2>2, SlotSame DEF Load
<1>6. ASSUME NEW c \in Conns, Send(c) PROVE SlotInv' /\ ReaderInv'
  <2>1. Makers' \subseteq Makers
    BY <1>6 DEF Send, Makers, QueueOf, TypeOK, ReaderInv
  <2>2. ReaderInv'
    BY <1>6 DEF Send, ReaderInv, QueueOf, TypeOK
  <2> QED
    BY <1>6, <2>1, <2>2, SlotSame DEF Send
<1>7. ASSUME UNCHANGED <<at, next, TaskQueue, target, made, serves>>
      PROVE  SlotInv' /\ ReaderInv'
  BY <1>7 DEF SlotInv, ReaderInv, Makers, QueueOf
<1>8. ASSUME NEW i \in Ids, StartOneWorker(i) PROVE SlotInv' /\ ReaderInv'
  BY <1>7, <1>8 DEF StartOneWorker, Take, DoMsgHandle
<1> QED
  BY <1>2, <1>3, <1>4, <1>5, <1>6, <1>7, <1>8
     DEF Next, SendMsgToTaskQueue, vars
-----------------------------------------------------------------------------
(* A reader before its send: it makes, starts and reads, and hands over no *)
(* request.                                                                *)

\* A reader that has begun to dispatch does not undo it, so that a connection
\* that is alone on its slot has always been.
LEMMA AloneStays ==
    ASSUME IInv, Next
    PROVE  \A d : Alone(d)' => Alone(d)
PROOF
<1> USE Constants
<1>0. TypeOK
  BY DEF IInv
<1>1. ASSUME NEW c \in Conns, SendMsgToTaskQueue(c), NEW d \in Conns, Begun(d)
      PROVE  Begun(d)'
  <2>1. CASE Send(c)
    <3>1. next' = [next EXCEPT ![c] = next[c] + 1] /\ at[c] = "send"
          /\ at' = [at EXCEPT ![c] = "look"]
      BY <2>1 DEF Send
    <3>2. next[d] \in Nat /\ next[d] >= 1
      BY <1>0 DEF TypeOK
    <3>3. CASE d = c
      BY <1>0, <3>1, <3>2, <3>3 DEF Begun, TypeOK
    <3>4. CASE d # c
      BY <1>0, <1>1, <3>1, <3>4 DEF Begun, TypeOK
    <3> QED
      BY <3>3, <3>4
  <2>2. CASE Look(c) \/ Make(c) \/ Spawn(c) \/ Load(c)
    <3>1. UNCHANGED next
      BY <2>2 DEF Look, Make, Spawn, Load
    <3>2. at'[d] # "look" \/ at'[d] = at[d]
      BY <1>0, <2>2 DEF Look, Make, Spawn, Load, TypeOK
    <3> QED
      BY <1>1, <3>1, <3>2 DEF Begun
  <2> QED
    BY <1>1, <2>1, <2>2 DEF SendMsgToTaskQueue
<1>2. ASSUME NEW i \in Ids, StartOneWorker(i), NEW d \in Conns, Begun(d)
      PROVE  Begun(d)'
  BY <1>2 DEF StartOneWorker, Take, DoMsgHandle, Begun
<1>3. ASSUME NEW d \in Conns, Begun(d) PROVE Begun(d)'
  BY <1>1, <1>2, <1>3 DEF Next
<1> QED
  BY <1>3 DEF Alone

LEMMA QuietNext ==
    ASSUME IInv, NEW c \in Conns, Look(c) \/ Make(c) \/ Spawn(c) \/ Load(c)
    PROVE  OrderInv' /\ AloneInv' /\ HandledInv'
PROOF
<1> USE Constants
<1>1. UNCHANGED <<queue, job, next, handled>>
  BY DEF Look, Make, Spawn, Load
<1>2. OrderInv'
  BY <1>1 DEF IInv, OrderInv
<1>a. \A d : Alone(d)' => Alone(d)
  BY AloneStays DEF Next, SendMsgToTaskQueue
<1>b. \A d \in Conns : HandledOf(d) => HandledOf(d)'
  BY <1>1 DEF HandledOf
<1>3. HandledInv'
  BY <1>a, <1>b DEF IInv, HandledInv
<1>4. SUFFICES ASSUME NEW d \in Conns, Alone(d) PROVE AloneOf(d)'
  BY <1>2, <1>3, <1>a DEF AloneInv
<1>5. AloneOf(d)
  BY <1>4 DEF IInv, AloneInv
<1>6. /\ at \in [Conns -> {"look", "make", "spawn", "load", "send"}]
      /\ WorkerId(c) \in Slots /\ WorkerId(d) \in Slots
      /\ QueueOf(d) \in Ids \cup {0}
  BY WorkerIdType DEF IInv, TypeOK, QueueOf
<1>7. CASE Look(c)
  <2>1. /\ at' = [at EXCEPT ![c] = IF QueueOf(c) = 0 THEN "make" ELSE "load"]
        /\ UNCHANGED <<target, serves>> /\ QueueOf(d)' = QueueOf(d)
    BY <1>7 DEF Look, QueueOf
  <2>2. /\ at'[d] = "make" => QueueOf(d) = 0
        /\ at'[d] = "spawn" => at[d] = "spawn"
        /\ at'[d] = "send" => at[d] = "send"
    BY <1>5, <1>6, <2>1 DEF AloneOf
  <2> QED
    BY <1>1, <1>5, <2>1, <2>2 DEF AloneOf
<1>8. CASE Load(c)
  <2>1. /\ target' = [target EXCEPT ![c] = QueueOf(c)]
        /\ target \in [Conns -> Ids \cup {0}]
        /\ at' = [at EXCEPT ![c] = "send"]
        /\ UNCHANGED serves /\ QueueOf(d)' = QueueOf(d)
    BY <1>8 DEF Load, QueueOf, IInv, TypeOK
  <2>2. \/ at'[d] = at[d] /\ target'[d] = target[d]
        \/ at'[d] = "send" /\ target'[d] = QueueOf(d)
    BY <1>6, <2>1
  <2> QED
    BY <1>1, <1>5, <2>1, <2>2 DEF AloneOf
<1>9. CASE Spawn(c)
  <2>1. PICK i \in Ids : /\ serves' = [serves EXCEPT ![i] = QueueOf(c)]
                         /\ serves[i] = 0
    BY <1>9 DEF Spawn, QueueOf
  <2>2. \A j \in Ids : serves'[j] = IF j = i THEN QueueOf(c) ELSE serves[j]
    BY <2>1 DEF IInv, TypeOK
  <2>3. /\ at' = [at EXCEPT ![c] = "load"] /\ at[c] = "spawn"
        /\ UNCHANGED target /\ QueueOf(d)' = QueueOf(d)
    BY <1>9 DEF Spawn, QueueOf
  <2>4. CASE d # c
    <3>1. WorkerId(d) # WorkerId(c)
      BY <1>4, <2>3, <2>4 DEF Alone, Begun
    <3>2. QueueOf(d) # 0 => QueueOf(d) # QueueOf(c)
      BY <1>6, <3>1 DEF IInv, SlotInv, QueueOf
    <3>3. at'[d] = at[d] /\ (at[d] = "spawn" => QueueOf(d) # 0)
      BY <1>6, <2>3, <2>4 DEF IInv, ReaderInv
    <3>4. \A j \in Ids : QueueOf(d) # 0 =>
              (serves'[j] = QueueOf(d) <=> serves[j] = QueueOf(d))
      BY <2>1, <2>2, <3>2
    <3> QED
      BY <1>1, <1>5, <2>3, <3>3, <3>4 DEF AloneOf
  <2>5. CASE d = c
    <3>1. \A j \in Ids : serves'[j] = QueueOf(d) <=> j = i
      BY <1>5, <2>2, <2>3, <2>5 DEF AloneOf
    <3>2. at'[d] = "load"
      BY <1>6, <2>3, <2>5
    <3>3. \A j \in Ids : ~(job[j] # NoJob /\ job[j].conn = d)
      BY <1>5, <2>3, <2>5 DEF AloneOf
    <3> QED
      BY <1>1, <1>5, <2>3, <3>1, <3>2, <3>3 DEF AloneOf
  <2> QED
    BY <2>4, <2>5
<1>10. CASE Make(c)
  <2>1. /\ TaskQueue' = [TaskQueue EXCEPT ![WorkerId(c)] = made + 1]
        /\ at[c] = "make" /\ at' = [at EXCEPT ![c] = "spawn"]
        /\ UNCHANGED <<target, serves>>
    BY <1>10 DEF Make
  <2>2. CASE d # c
    <3>1. WorkerId(d) # WorkerId(c)
      BY <1>4, <2>1, <2>2 DEF Alone, Begun
    <3>2. TaskQueue'[WorkerId(d)] = TaskQueue[WorkerId(d)]
      BY <1>6, <2>1, <3>1 DEF IInv, TypeOK
    <3>3. QueueOf(d)' = QueueOf(d) /\ at'[d] = at[d]
      BY <1>6, <2>1, <2>2, <3>2 DEF QueueOf
    <3> QED
      BY <1>1, <1>5, <2>1, <3>3 DEF AloneOf
  <2>3. CASE d = c
    <3>1. QueueOf(d) = 0 /\ at'[d] = "spawn"
      BY <1>5, <1>6, <2>1, <2>3 DEF AloneOf
    <3>2. /\ \A q \in Ids : \A j \in 1..Len(queue[q]) : queue[q][j].conn # d
          /\ \A j \in Ids : ~(job[j] # NoJob /\ job[j].conn = d)
      BY <1>5, <3>1 DEF AloneOf
    <3>3. TaskQueue'[WorkerId(d)] = made + 1
      BY <1>6, <2>1, <2>3 DEF IInv, TypeOK
    <3>4. QueueOf(d)' = made + 1
      BY <3>3 DEF QueueOf
    <3>5. \A j \in Ids : serves[j] # made + 1
      <4>1. \A x \in Ids \cup {0} : x \in Nat
        OBVIOUS
      <4>2. made \in Nat /\ \A j \in Ids : serves[j] \in Nat
        BY <4>1 DEF IInv, TypeOK
      <4>3. \A j \in Ids : serves[j] <= made
        BY DEF IInv, SlotInv
      <4> QED
        BY <4>2, <4>3
    <3> QED
      BY <1>1, <2>1, <3>1, <3>2, <3>4, <3>5 DEF AloneOf
  <2> QED
    BY <2>2, <2>3
<1> QED
  BY <1>7, <1>8, <1>9, <1>10
-----------------------------------------------------------------------------
(* The send appends the youngest request.                                  *)

LEMMA SendNext ==
    ASSUME IInv, NEW c \in Conns, Send(c)
    PROVE  OrderInv' /\ AloneInv' /\ HandledInv'
PROOF
<1> DEFINE t == target[c]
           n == next[c]
<1> USE Constants
<1>1. /\ t \in Ids /\ n \in 1..MaxReqs /\ at[c] = "send"
      /\ queue' \in [Ids -> Seq(Requests)]
      /\ next' = [next EXCEPT ![c] = n + 1]
      /\ at' = [at EXCEPT ![c] = "look"]
      /\ UNCHANGED <<TaskQueue, target, made, serves, job, handled>>
  BY Sent DEF IInv
<1>2. ASSUME NEW q \in Ids, NEW j \in 1..Len(queue'[q])
      PROVE  \/ j \in 1..Len(queue[q]) /\ queue'[q][j] = queue[q][j]
             \/ /\ q = t /\ j = Len(queue[q]) + 1
                /\ queue'[q][j].conn = c /\ queue'[q][j].num = n
  <2>1. CASE q # t
    <3>1. queue'[q] = queue[q]
      BY <2>1, Sent DEF IInv
    <3> QED
      BY <3>1
  <2>2. CASE q = t
    <3>1. /\ Len(queue[t]) \in Nat /\ Len(queue'[t]) = Len(queue[t]) + 1
          /\ queue'[t][Len(queue[t]) + 1] = Request(c, n)
          /\ \A k \in 1..Len(queue[t]) : queue'[t][k] = queue[t][k]
      BY Sent DEF IInv
    <3>2. Request(c, n).conn = c /\ Request(c, n).num = n
      BY DEF Request
    <3>3. j \in 1..(Len(queue[t]) + 1)
      BY <2>2, <3>1
    <3>4. CASE j = Len(queue[t]) + 1
      BY <2>2, <3>1, <3>2, <3>4
    <3>5. CASE j # Len(queue[t]) + 1
      BY <2>2, <3>1, <3>3, <3>5
    <3> QED
      BY <3>4, <3>5
  <2> QED
    BY <2>1, <2>2
<1>3. ASSUME NEW q \in Ids
      PROVE  /\ Len(queue[q]) \in Nat
             /\ \A j \in 1..Len(queue[q]) :
                   queue[q][j].conn \in Conns /\ queue[q][j].num \in Nat
  <2>1. queue[q] \in Seq(Requests)
    BY DEF IInv, TypeOK
  <2>2. \A j \in 1..Len(queue[q]) : queue[q][j] \in Requests
    BY <2>1
  <2> QED
    BY <2>1, <2>2, RequestType
<1>4. \A d \in Conns : /\ next[d] \in Nat /\ next'[d] \in Nat
                       /\ next'[d] = IF d = c THEN next[d] + 1 ELSE next[d]
  BY <1>1 DEF IInv, TypeOK
<1>5. \A i \in Ids : job[i] # NoJob => job[i].conn \in Conns /\ job[i].num \in Nat
  BY RequestType DEF IInv, TypeOK
<1> HIDE DEF t, n
<1>6. n = next[c] /\ n \in Nat
  BY <1>4 DEF n
<1>a. \A m \in Nat, d \in Conns : m < next[d] => m < next'[d]
  BY <1>4
<1>7. OrderInv'
  <2>1. ASSUME NEW q \in Ids, NEW j \in 1..Len(queue[q])
        PROVE  queue[q][j].num < next[queue[q][j].conn]
    BY DEF IInv, OrderInv
  <2>2. ASSUME NEW q \in Ids, NEW j \in 1..Len(queue'[q])
        PROVE  queue'[q][j].num < next'[queue'[q][j].conn]
    <3>1. CASE j \in 1..Len(queue[q]) /\ queue'[q][j] = queue[q][j]
      <4>1. /\ queue[q][j].num < next[queue[q][j].conn]
            /\ queue[q][j].conn \in Conns /\ queue[q][j].num \in Nat
        BY <1>3, <2>1, <3>1
      <4> QED
        BY <1>a, <3>1, <4>1
    <3>2. CASE queue'[q][j].conn = c /\ queue'[q][j].num = n
      BY <1>4, <1>6, <3>2
    <3> QED
      BY <1>2, <3>1, <3>2
  <2>3. ASSUME NEW q \in Ids, NEW j \in 1..Len(queue'[q]),
               NEW k \in 1..Len(queue'[q]), j < k,
               queue'[q][j].conn = queue'[q][k].conn
        PROVE  queue'[q][j].num < queue'[q][k].num
    <3>1. CASE j \in 1..Len(queue[q]) /\ queue'[q][j] = queue[q][j]
      <4>1. CASE k \in 1..Len(queue[q]) /\ queue'[q][k] = queue[q][k]
        BY <2>3, <3>1, <4>1 DEF IInv, OrderInv
      <4>2. CASE queue'[q][k].conn = c /\ queue'[q][k].num = n
        BY <1>6, <2>1, <2>3, <3>1, <4>2
      <4> QED
        BY <1>2, <4>1, <4>2
    <3>2. CASE j = Len(queue[q]) + 1
      BY <1>2, <1>3, <2>3, <3>2
    <3> QED
      BY <1>2, <3>1, <3>2
  <2>4. \A i \in Ids : job[i] # NoJob => job[i].num < next'[job[i].conn]
    <3>1. \A i \in Ids : job[i] # NoJob => job[i].num < next[job[i].conn]
      BY DEF IInv, OrderInv
    <3> QED
      BY <1>a, <1>5, <3>1
  <2>5. ASSUME NEW d \in Conns, NEW x \in 1..Len(handled[d])
        PROVE  handled[d][x] < next'[d]
    <3>1. handled[d][x] < next[d]
      BY DEF IInv, OrderInv
    <3>2. handled[d] \in Seq(1..MaxReqs)
      BY DEF IInv, TypeOK
    <3>3. handled[d][x] \in Nat
      BY <3>2
    <3> QED
      BY <1>a, <3>1, <3>3
  <2> QED
    BY <1>1, <2>2, <2>3, <2>4, <2>5 DEF OrderInv
<1>8. ASSUME NEW d \in Conns, Alone(d) PROVE AloneOf(d)'
  <2>1. AloneOf(d)
    BY <1>8 DEF IInv, AloneInv
  <2>2. QueueOf(d)' = QueueOf(d)
    BY <1>1 DEF QueueOf
  <2>3. at'[d] = IF d = c THEN "look" ELSE at[d]
    BY <1>1 DEF IInv, TypeOK
  <2>4. d = c => t = QueueOf(d)
    BY <1>1, <2>1 DEF AloneOf, t
  <2>5. ASSUME NEW q \in Ids, NEW j \in 1..Len(queue'[q]), queue'[q][j].conn = d
        PROVE  q = QueueOf(d)
    BY <1>2, <2>1, <2>4, <2>5 DEF AloneOf
  <2> QED
    BY <1>1, <2>1, <2>2, <2>3, <2>5 DEF AloneOf
<1>9. ASSUME NEW d \in Conns, Alone(d) PROVE HandledOf(d)'
  <2>1. HandledOf(d)
    BY <1>9 DEF IInv, HandledInv
  <2>2. ASSUME NEW i \in Ids, job[i] # NoJob, job[i].conn = d,
               NEW q \in Ids, NEW j \in 1..Len(queue'[q]), queue'[q][j].conn = d
        PROVE  job[i].num < queue'[q][j].num
    <3>1. CASE j \in 1..Len(queue[q]) /\ queue'[q][j] = queue[q][j]
      BY <2>1, <2>2, <3>1 DEF HandledOf
    <3>2. CASE queue'[q][j].conn = c /\ queue'[q][j].num = n
      BY <1>6, <2>2, <3>2 DEF IInv, OrderInv
    <3> QED
      BY <1>2, <3>1, <3>2
  <2>3. ASSUME NEW q \in Ids, NEW j \in 1..Len(queue'[q]), queue'[q][j].conn = d,
               NEW x \in 1..Len(handled[d])
        PROVE  handled[d][x] < queue'[q][j].num
    <3>1. CASE j \in 1..Len(queue[q]) /\ queue'[q][j] = queue[q][j]
      BY <2>1, <2>3, <3>1 DEF HandledOf
    <3>2. CASE queue'[q][j].conn = c /\ queue'[q][j].num = n
      BY <1>6, <2>3, <3>2 DEF IInv, OrderInv
    <3> QED
      BY <1>2, <3>1, <3>2
  <2> QED
    BY <1>1, <2>1, <2>2, <2>3 DEF HandledOf
<1> QED
  <2>1. \A d : Alone(d)' => Alone(d)
    BY AloneStays DEF Next, SendMsgToTaskQueue
  <2> QED
    BY <1>7, <1>8, <1>9, <2>1 DEF AloneInv, HandledInv
-----------------------------------------------------------------------------
(* A worker takes the oldest request of its queue.                         *)

LEMMA TakeNext ==
    ASSUME IInv, NEW i \in Ids, Take(i)
    PROVE  OrderInv' /\ AloneInv' /\ HandledInv'
PROOF
<1> DEFINE s == serves[i]
           r == queue[s][1]
           Was(q, j) == IF q = s THEN j + 1 ELSE j
<1> USE Constants
<1>1. /\ s \in Ids /\ Len(queue[s]) \in Nat \ {0} /\ r \in Requests
      /\ job[i] = NoJob /\ job' = [job EXCEPT ![i] = r]
      /\ UNCHANGED <<at, next, TaskQueue, target, made, serves, handled>>
  BY Taken DEF IInv
<1>2. ASSUME NEW q \in Ids, NEW j \in 1..Len(queue'[q])
      PROVE  /\ Was(q, j) \in 1..Len(queue[q])
             /\ queue'[q][j] = queue[q][Was(q, j)]
             /\ q = s => 1 < Was(q, j)
  <2>1. CASE q # s
    <3>1. queue'[q] = queue[q]
      BY <2>1, Taken DEF IInv
    <3> QED
      BY <2>1, <3>1
  <2>2. CASE q = s
    <3>1. \A k \in 1..Len(queue'[s]) :
              queue'[s][k] = queue[s][k + 1] /\ k + 1 \in 1..Len(queue[s])
      BY Taken DEF IInv
    <3> QED
      BY <2>2, <3>1
  <2> QED
    BY <2>1, <2>2
<1>3. \A k \in Ids : job'[k] = IF k = i THEN r ELSE job[k]
  BY <1>1 DEF IInv, TypeOK
<1>4. 1 \in 1..Len(queue[s]) /\ r # NoJob /\ r.conn \in Conns
  BY <1>1, RequestType
<1>5. ASSUME NEW q \in Ids, NEW j \in 1..Len(queue'[q]), NEW k \in 1..Len(queue'[q]),
             j < k
      PROVE  Was(q, j) < Was(q, k)
  BY <1>5
<1> HIDE DEF s, r, Was
<1>6. OrderInv'
  <2>1. ASSUME NEW q \in Ids, NEW j \in 1..Len(queue'[q])
        PROVE  queue'[q][j].num < next[queue'[q][j].conn]
    BY <1>2 DEF IInv, OrderInv
  <2>2. ASSUME NEW q \in Ids, NEW j \in 1..Len(queue'[q]),
               NEW k \in 1..Len(queue'[q]), j < k,
               queue'[q][j].conn = queue'[q][k].conn
        PROVE  queue'[q][j].num < queue'[q][k].num
    <3>1. PICK l \in 1..Len(queue[q]), m \in 1..Len(queue[q]) :
              l < m /\ queue'[q][j] = queue[q][l] /\ queue'[q][k] = queue[q][m]
      BY <1>2, <1>5, <2>2
    <3> QED
      BY <2>2, <3>1 DEF IInv, OrderInv
  <2>3. r.num < next[r.conn]
    BY <1>1, <1>4 DEF IInv, OrderInv, r
  <2>4. \A k \in Ids : job'[k] # NoJob => job'[k].num < next[job'[k].conn]
    BY <1>3, <2>3 DEF IInv, OrderInv
  <2>5. \A c \in Conns : \A x \in 1..Len(handled[c]) : handled[c][x] < next[c]
    BY DEF IInv, OrderInv
  <2> QED
    BY <1>1, <2>1, <2>2, <2>4, <2>5 DEF OrderInv
<1>7. ASSUME NEW d \in Conns, Alone(d) PROVE AloneOf(d)'
  <2>1. AloneOf(d)
    BY <1>7 DEF IInv, AloneInv
  <2>2. QueueOf(d)' = QueueOf(d)
    BY <1>1 DEF QueueOf
  <2>3. ASSUME NEW q \in Ids, NEW j \in 1..Len(queue'[q]), queue'[q][j].conn = d
        PROVE  q = QueueOf(d)
    BY <1>2, <2>1, <2>3 DEF AloneOf
  <2>4. r.conn = d => s = QueueOf(d) /\ QueueOf(d) # 0
    BY <1>1, <1>4, <2>1 DEF AloneOf, r
  <2>5. ASSUME NEW k \in Ids, job'[k] # NoJob, job'[k].conn = d
        PROVE  serves[k] = QueueOf(d) /\ QueueOf(d) # 0
    BY <1>3, <2>1, <2>4, <2>5 DEF AloneOf, s
  <2> QED
    BY <1>1, <2>1, <2>2, <2>3, <2>5 DEF AloneOf
<1>8. ASSUME NEW d \in Conns, Alone(d) PROVE HandledOf(d)'
  <2>1. AloneOf(d) /\ HandledOf(d)
    BY <1>8 DEF IInv, AloneInv, HandledInv
  <2>2. ASSUME NEW k \in Ids, job'[k] # NoJob, job'[k].conn = d
        PROVE  /\ \A x \in 1..Len(handled[d]) : handled[d][x] < job'[k].num
               /\ \A q \in Ids : \A j \in 1..Len(queue'[q]) :
                     queue'[q][j].conn = d => job'[k].num < queue'[q][j].num
    <3>1. CASE k # i
      <4>1. job'[k] = job[k]
        BY <1>3, <3>1
      <4>2. \A x \in 1..Len(handled[d]) : handled[d][x] < job[k].num
        BY <2>1, <2>2, <4>1 DEF HandledOf
      <4>3. ASSUME NEW q \in Ids, NEW j \in 1..Len(queue'[q]),
                   queue'[q][j].conn = d
            PROVE  job[k].num < queue'[q][j].num
        <5>1. PICK m \in 1..Len(queue[q]) : queue'[q][j] = queue[q][m]
          BY <1>2
        <5> QED
          BY <2>1, <2>2, <4>1, <4>3, <5>1 DEF HandledOf
      <4> QED
        BY <4>1, <4>2, <4>3
    <3>2. CASE k = i
      <4>1. job'[k] = r /\ r.conn = d
        BY <1>3, <2>2, <3>2
      <4>2. \A x \in 1..Len(handled[d]) : handled[d][x] < r.num
        BY <1>1, <1>4, <2>1, <4>1 DEF HandledOf, r
      <4>3. ASSUME NEW q \in Ids, NEW j \in 1..Len(queue'[q]),
                   queue'[q][j].conn = d
            PROVE  r.num < queue'[q][j].num
        <5>1. PICK m \in 1..Len(queue[q]) :
                  queue'[q][j] = queue[q][m] /\ (q = s => 1 < m)
          BY <1>2
        <5>2. q = QueueOf(d) /\ s = QueueOf(d)
          <6>1. queue[q][m].conn = d /\ queue[s][1].conn = d
            BY <4>1, <4>3, <5>1 DEF r
          <6> QED
            BY <1>1, <1>4, <2>1, <6>1 DEF AloneOf
        <5> QED
          BY <1>1, <1>4, <4>1, <4>3, <5>1, <5>2 DEF IInv, OrderInv, r
      <4> QED
        BY <4>1, <4>2, <4>3
    <3> QED
      BY <3>1, <3>2
  <2>3. ASSUME NEW q \in Ids, NEW j \in 1..Len(queue'[q]), queue'[q][j].conn = d
        PROVE  \A x \in 1..Len(handled[d]) : handled[d][x] < queue'[q][j].num
    <3>1. PICK m \in 1..Len(queue[q]) : queue'[q][j] = queue[q][m]
      BY <1>2
    <3> QED
      BY <2>1, <2>3, <3>1 DEF HandledOf
  <2> QED
    BY <1>1, <2>1, <2>2, <2>3 DEF HandledOf
<1> QED
  <2>1. \A d : Alone(d)' => Alone(d)
    BY AloneStays DEF Next, StartOneWorker
  <2> QED
    BY <1>6, <1>7, <1>8, <2>1 DEF AloneInv, HandledInv
-----------------------------------------------------------------------------
(* A worker is done with its request.                                      *)

LEMMA DoneNext ==
    ASSUME IInv, NEW i \in Ids, DoMsgHandle(i)
    PROVE  OrderInv' /\ AloneInv' /\ HandledInv'
PROOF
<1> DEFINE c == job[i].conn
           n == job[i].num
<1> USE Constants
<1>1. /\ c \in Conns /\ job[i] # NoJob /\ n \in 1..MaxReqs
      /\ job' = [job EXCEPT ![i] = NoJob]
      /\ \A d \in Conns : d # c => handled'[d] = handled[d]
      /\ UNCHANGED <<at, next, TaskQueue, target, made, queue, serves>>
  BY Done DEF IInv
<1>2. /\ Len(handled'[c]) = Len(handled[c]) + 1 /\ Len(handled[c]) \in Nat
      /\ handled'[c][Len(handled[c]) + 1] = n
      /\ \A x \in 1..Len(handled[c]) : handled'[c][x] = handled[c][x]
  <2>1. handled[c] \in Seq(1..MaxReqs)
    BY <1>1 DEF IInv, TypeOK
  <2>2. Len(handled[c]) \in Nat
    BY <2>1
  <2> QED
    BY <2>2, Done DEF IInv
<1>3. ASSUME NEW d \in Conns, NEW x \in 1..Len(handled'[d])
      PROVE  \/ x \in 1..Len(handled[d]) /\ handled'[d][x] = handled[d][x]
             \/ d = c /\ x = Len(handled[d]) + 1 /\ handled'[d][x] = n
  <2>1. CASE d # c
    BY <1>1, <2>1
  <2>2. CASE d = c
    <3>1. x \in 1..Len(handled[d]) \/ x = Len(handled[d]) + 1
      BY <1>2, <2>2
    <3>2. /\ \A y \in 1..Len(handled[d]) : handled'[d][y] = handled[d][y]
          /\ handled'[d][Len(handled[d]) + 1] = n
      BY <1>2, <2>2
    <3> QED
      BY <2>2, <3>1, <3>2
  <2> QED
    BY <2>1, <2>2
<1>4. \A k \in Ids : job'[k] = IF k = i THEN NoJob ELSE job[k]
  BY <1>1 DEF IInv, TypeOK
<1> HIDE DEF c, n
<1>5. OrderInv'
  <2>1. \A k \in Ids : job'[k] # NoJob => job'[k].num < next[job'[k].conn]
    BY <1>4 DEF IInv, OrderInv
  <2>2. n < next[c]
    BY <1>1 DEF IInv, OrderInv, c, n
  <2>3. ASSUME NEW d \in Conns, NEW x \in 1..Len(handled'[d])
        PROVE  handled'[d][x] < next[d]
    BY <1>3, <2>2 DEF IInv, OrderInv
  <2> QED
    BY <1>1, <2>1, <2>3 DEF IInv, OrderInv
<1>6. ASSUME NEW d \in Conns, Alone(d) PROVE AloneOf(d)'
  <2>1. AloneOf(d)
    BY <1>6 DEF IInv, AloneInv
  <2>2. QueueOf(d)' = QueueOf(d) /\ UNCHANGED <<at, target, serves, queue>>
    BY <1>1 DEF QueueOf
  <2>3. \A k \in Ids : job'[k] # NoJob => job'[k] = job[k]
    BY <1>4
  <2> QED
    BY <2>1, <2>2, <2>3 DEF AloneOf
<1>7. ASSUME NEW d \in Conns, Alone(d) PROVE HandledOf(d)'
  <2>1. AloneOf(d) /\ HandledOf(d)
    BY <1>7 DEF IInv, AloneInv, HandledInv
  <2>2. d = c => /\ \A x \in 1..Len(handled[d]) : handled[d][x] < n
                 /\ \A q \in Ids : \A j \in 1..Len(queue[q]) :
                       queue[q][j].conn = d => n < queue[q][j].num
                 /\ \A k \in Ids : job'[k] # NoJob => job'[k].conn # d
    <3>1. d = c => \A k \in Ids : job[k] # NoJob /\ job[k].conn = d => k = i
      BY <1>1, <2>1 DEF AloneOf, c
    <3> QED
      BY <1>1, <1>4, <2>1, <3>1 DEF HandledOf, c, n
  <2>3. ASSUME NEW x \in 1..Len(handled'[d]), NEW y \in 1..Len(handled'[d]), x < y
        PROVE  handled'[d][x] < handled'[d][y]
    <3>1. CASE y \in 1..Len(handled[d]) /\ handled'[d][y] = handled[d][y]
      <4>1. x \in 1..Len(handled[d]) /\ handled'[d][x] = handled[d][x]
        <5>1. handled[d] \in Seq(1..MaxReqs)
          BY DEF IInv, TypeOK
        <5>2. Len(handled[d]) \in Nat
          BY <5>1
        <5>3. x # Len(handled[d]) + 1
          BY <2>3, <3>1, <5>2
        <5> QED
          BY <1>3, <5>3
      <4> QED
        BY <2>1, <2>3, <3>1, <4>1 DEF HandledOf
    <3>2. CASE d = c /\ y = Len(handled[d]) + 1 /\ handled'[d][y] = n
      <4>1. x \in 1..Len(handled[d]) /\ handled'[d][x] = handled[d][x]
        BY <1>2, <1>3, <2>3, <3>2
      <4> QED
        BY <2>2, <3>2, <4>1
    <3> QED
      BY <1>3, <3>1, <3>2
  <2>4. ASSUME NEW k \in Ids, job'[k] # NoJob, job'[k].conn = d
        PROVE  /\ \A x \in 1..Len(handled'[d]) : handled'[d][x] < job'[k].num
               /\ \A q \in Ids : \A j \in 1..Len(queue[q]) :
                     queue[q][j].conn = d => job'[k].num < queue[q][j].num
    <3>1. d # c /\ job'[k] = job[k] /\ handled'[d] = handled[d]
      BY <1>1, <1>4, <2>2, <2>4
    <3> QED
      BY <2>1, <2>4, <3>1 DEF HandledOf
  <2>5. ASSUME NEW q \in Ids, NEW j \in 1..Len(queue[q]), queue[q][j].conn = d,
               NEW x \in 1..Len(handled'[d])
        PROVE  handled'[d][x] < queue[q][j].num
    BY <1>3, <2>1, <2>2, <2>5 DEF HandledOf
  <2> QED
    BY <1>1, <2>3, <2>4, <2>5 DEF HandledOf
<1> QED
  <2>1. \A d : Alone(d)' => Alone(d)
    BY AloneStays DEF Next, StartOneWorker
  <2> QED
    BY <1>5, <1>6, <1>7, <2>1 DEF AloneInv, HandledInv
-----------------------------------------------------------------------------
(* The theorems                                                            *)

LEMMA InvInit == Init => IInv
PROOF
<1> SUFFICES ASSUME Init PROVE IInv
  OBVIOUS
<1> USE Constants
<1>1. TypeOK
  BY TypeInit
<1>2. /\ made = 0 /\ \A v \in Slots : TaskQueue[v] = 0
      /\ \A i \in Ids : serves[i] = 0 /\ job[i] = NoJob /\ Len(queue[i]) = 0
      /\ \A c \in Conns : /\ at[c] = "look" /\ next[c] = 1 /\ target[c] = 0
                          /\ QueueOf(c) = 0 /\ Len(handled[c]) = 0
  BY WorkerIdType DEF Init, QueueOf
<1>3. SlotInv
  <2>1. Makers \subseteq Conns /\ IsFiniteSet(Conns)
    BY PoolAssumption DEF Makers
  <2>2. /\ Cardinality(Makers) <= Cardinality(Conns)
        /\ Cardinality(Makers) \in Nat
    BY <2>1, FS_Subset, MakersFinite
  <2> QED
    BY <1>2, <2>2 DEF SlotInv
<1>4. ReaderInv
  BY <1>2 DEF ReaderInv
<1>a. \A x \in 1..0 : FALSE
  OBVIOUS
<1>b. /\ \A q \in Ids : \A j \in 1..Len(queue[q]) : FALSE
      /\ \A c \in Conns : \A x \in 1..Len(handled[c]) : FALSE
  BY <1>2, <1>a
<1>5. OrderInv
  BY <1>2, <1>b DEF OrderInv
<1>6. AloneInv
  BY <1>2, <1>b DEF AloneInv, AloneOf
<1>7. HandledInv
  BY <1>2, <1>b DEF HandledInv, HandledOf
<1> QED
  BY <1>1, <1>3, <1>4, <1>5, <1>6, <1>7 DEF IInv

LEMMA InvNext == IInv /\ [Next]_vars => IInv'
PROOF
<1> SUFFICES ASSUME IInv, [Next]_vars PROVE OrderInv' /\ AloneInv' /\ HandledInv'
  BY TypeNext, SlotNext DEF IInv
<1>1. CASE UNCHANGED vars
  <2>1. UNCHANGED <<at, next, TaskQueue, target, made, queue, serves, job, handled>>
    BY <1>1 DEF vars
  <2>2. OrderInv'
    BY <2>1 DEF IInv, OrderInv
  <2>3. AloneInv'
    BY <2>1 DEF IInv, AloneInv, AloneOf, Alone, Begun, QueueOf
  <2>4. HandledInv'
    BY <2>1 DEF IInv, HandledInv, HandledOf, Alone, Begun
  <2> QED
    BY <2>2, <2>3, <2>4
<1>2. ASSUME NEW c \in Conns, SendMsgToTaskQueue(c)
      PROVE  OrderInv' /\ AloneInv' /\ HandledInv'
  BY <1>2, QuietNext, SendNext DEF SendMsgToTaskQueue
<1>3. ASSUME NEW i \in Ids, StartOneWorker(i)
      PROVE  OrderInv' /\ AloneInv' /\ HandledInv'
  BY <1>3, TakeNext, DoneNext DEF StartOneWorker
<1> QED
  BY <1>1, <1>2, <1>3 DEF Next

\* The inductive invariant holds in every reachable state.
THEOREM Inductive == Spec => []IInv
PROOF
<1> QED
  BY InvInit, InvNext, PTL DEF Spec

\* SendMsgToTaskQueue (msghandler.go:77-90): as long as no other connection
\* has used its slot, a connection has one worker, which handles its requests
\* one at a time and in order, although queues are made and read without a
\* lock.
THEOREM AloneHasOneWorker == Spec => []OneWorkerPerConn
PROOF
<1>1. ASSUME IInv PROVE OneWorkerPerConn
  <2>1. ASSUME NEW i \in Ids, NEW j \in Ids, job[i] # NoJob, job[j] # NoJob,
               job[i].conn = job[j].conn, Alone(job[i].conn)
        PROVE  i = j
    <3>1. job[i].conn \in Conns
      BY <1>1, <2>1, RequestType DEF IInv, TypeOK
    <3>2. AloneOf(job[i].conn)
      BY <1>1, <2>1, <3>1 DEF IInv, AloneInv
    <3> QED
      BY <2>1, <3>2 DEF AloneOf
  <2>2. ASSUME NEW c \in Conns, Alone(c),
               NEW x \in DOMAIN handled[c], NEW y \in DOMAIN handled[c], x < y
        PROVE  handled[c][x] < handled[c][y]
    <3>1. handled[c] \in Seq(1..MaxReqs)
      BY <1>1 DEF IInv, TypeOK
    <3>2. DOMAIN handled[c] = 1..Len(handled[c])
      BY <3>1
    <3> QED
      BY <1>1, <2>2, <3>2 DEF IInv, HandledInv, HandledOf
  <2> QED
    BY <2>1, <2>2 DEF OneWorkerPerConn
<1> QED
  BY <1>1, Inductive, PTL
-----------------------------------------------------------------------------
(* No request is dropped                                                   *)

Queued(c, n) == \E q \in Ids : \E j \in 1..Len(queue[q]) :
                    queue[q][j] = Request(c, n)
InWork(c, n) == \E i \in Ids : job[i] = Request(c, n)
Handled(c, n) == \E x \in 1..Len(handled[c]) : handled[c][x] = n

\* A request that its reader has sent is in a queue, in the hands of a worker,
\* or handled, also when readers race for a slot.
KeptInv ==
    \A c \in Conns : \A n \in 1..(next[c] - 1) :
        Queued(c, n) \/ InWork(c, n) \/ Handled(c, n)

\* The queue of a connection alone on its slot has a worker, from the moment
\* its reader has started it; so has every queue with a request of it.
ServedInv ==
    /\ \A c \in Conns : Alone(c) /\ QueueOf(c) # 0 /\ at[c] # "spawn" =>
          \E i \in Ids : serves[i] = QueueOf(c)
    /\ \A q \in Ids : \A j \in 1..Len(queue[q]) :
          Alone(queue[q][j].conn) => \E i \in Ids : serves[i] = q

LEMMA KeptNext == IInv /\ KeptInv /\ [Next]_vars => KeptInv'
PROOF
<1> SUFFICES ASSUME IInv, KeptInv, [Next]_vars,
                    NEW c \in Conns, NEW n \in 1..(next'[c] - 1)
             PROVE  (Queued(c, n) \/ InWork(c, n) \/ Handled(c, n))'
  BY DEF KeptInv
<1>a. TypeOK /\ ReaderInv
  BY DEF IInv
<1>b. next[c] \in 1..(MaxReqs + 1) /\ job \in [Ids -> Requests \cup {NoJob}]
  BY <1>a DEF TypeOK
<1>0. TypeOK /\ ReaderInv /\ next[c] \in Nat
      /\ job \in [Ids -> Requests \cup {NoJob}]
  BY <1>a, <1>b
<1>1. ASSUME UNCHANGED <<next, queue, job, handled>>
      PROVE  (Queued(c, n) \/ InWork(c, n) \/ Handled(c, n))'
  <2>1. Queued(c, n) \/ InWork(c, n) \/ Handled(c, n)
    BY <1>1 DEF KeptInv
  <2> QED
    BY <1>1, <2>1 DEF Queued, InWork, Handled
<1>2. ASSUME NEW d \in Conns, Send(d)
      PROVE  (Queued(c, n) \/ InWork(c, n) \/ Handled(c, n))'
  <2> DEFINE t == target[d]
  <2>1. /\ t \in Ids /\ next' = [next EXCEPT ![d] = next[d] + 1]
        /\ Len(queue[t]) \in Nat /\ Len(queue'[t]) = Len(queue[t]) + 1
        /\ queue'[t][Len(queue[t]) + 1] = Request(d, next[d])
        /\ \A j \in 1..Len(queue[t]) : queue'[t][j] = queue[t][j]
        /\ \A q \in Ids : q # t => queue'[q] = queue[q]
        /\ UNCHANGED <<job, handled>>
    BY <1>0, <1>2, Sent
  <2> HIDE DEF t
  <2>2. CASE d = c /\ n = next[c]
    <3>1. Len(queue[t]) + 1 \in 1..Len(queue'[t])
      BY <2>1
    <3> QED
      BY <2>1, <2>2, <3>1 DEF Queued
  <2>3. CASE ~ (d = c /\ n = next[c])
    <3>1. n \in 1..(next[c] - 1)
      BY <1>0, <2>1, <2>3 DEF TypeOK
    <3>2. Queued(c, n) => Queued(c, n)'
      <4> SUFFICES ASSUME NEW q \in Ids, NEW j \in 1..Len(queue[q]),
                          queue[q][j] = Request(c, n)
                   PROVE  Queued(c, n)'
        BY DEF Queued
      <4>1. j \in 1..Len(queue'[q]) /\ queue'[q][j] = queue[q][j]
        BY <2>1
      <4> QED
        BY <4>1 DEF Queued
    <3>3. Queued(c, n) \/ InWork(c, n) \/ Handled(c, n)
      BY <3>1 DEF KeptInv
    <3> QED
      BY <2>1, <3>2, <3>3 DEF InWork, Handled
  <2> QED
    BY <2>2, <2>3
<1>3. ASSUME NEW i \in Ids, Take(i)
      PROVE  (Queued(c, n) \/ InWork(c, n) \/ Handled(c, n))'
  <2> DEFINE t == serves[i]
  <2>1. /\ t \in Ids /\ Len(queue[t]) \in Nat \ {0} /\ job[i] = NoJob
        /\ job' = [job EXCEPT ![i] = queue[t][1]]
        /\ Len(queue'[t]) = Len(queue[t]) - 1
        /\ \A j \in 1..Len(queue'[t]) : queue'[t][j] = queue[t][j + 1]
        /\ \A q \in Ids : q # t => queue'[q] = queue[q]
        /\ UNCHANGED <<next, handled>>
    BY <1>0, <1>3, Taken
  <2> HIDE DEF t
  <2>2. Queued(c, n) \/ InWork(c, n) \/ Handled(c, n)
    BY <2>1 DEF KeptInv
  <2>3. InWork(c, n) => InWork(c, n)'
    <3>1. Request(c, n) # NoJob
      <4>1. next[c] <= MaxReqs + 1 /\ n \in 1..MaxReqs
        BY <1>0, <2>1, Constants DEF TypeOK
      <4> QED
        BY <4>1, RequestType
    <3> QED
      BY <1>0, <2>1, <3>1 DEF InWork
  <2>4. Queued(c, n) => (Queued(c, n) \/ InWork(c, n))'
    <3> SUFFICES ASSUME NEW q \in Ids, NEW j \in 1..Len(queue[q]),
                        queue[q][j] = Request(c, n)
                 PROVE  (Queued(c, n) \/ InWork(c, n))'
      BY DEF Queued
    <3>1. CASE q # t
      BY <2>1, <3>1 DEF Queued
    <3>2. CASE q = t /\ j = 1
      <4>1. job'[i] = Request(c, n)
        BY <1>0, <2>1, <3>2
      <4> QED
        BY <4>1 DEF InWork
    <3>3. CASE q = t /\ j # 1
      <4>1. j - 1 \in 1..Len(queue'[q]) /\ (j - 1) + 1 = j
        BY <2>1, <3>3
      <4>2. queue'[q][j - 1] = Request(c, n)
        BY <2>1, <3>3, <4>1
      <4> QED
        BY <4>1, <4>2 DEF Queued
    <3> QED
      BY <3>1, <3>2, <3>3
  <2> QED
    BY <2>1, <2>2, <2>3, <2>4 DEF Handled
<1>4. ASSUME NEW i \in Ids, DoMsgHandle(i)
      PROVE  (Queued(c, n) \/ InWork(c, n) \/ Handled(c, n))'
  <2> DEFINE d == job[i].conn
  <2>1. /\ d \in Conns /\ job' = [job EXCEPT ![i] = NoJob]
        /\ Len(handled'[d]) = Len(handled[d]) + 1
        /\ handled'[d][Len(handled[d]) + 1] = job[i].num
        /\ \A x \in 1..Len(handled[d]) : handled'[d][x] = handled[d][x]
        /\ \A e \in Conns : e # d => handled'[e] = handled[e]
        /\ UNCHANGED <<next, queue>>
    BY <1>0, <1>4, Done
  <2>2. \A e \in Conns : Len(handled[e]) \in Nat
    BY <1>0 DEF TypeOK
  <2>3. Queued(c, n) \/ InWork(c, n) \/ Handled(c, n)
    BY <2>1 DEF KeptInv
  <2> HIDE DEF d
  <2>4. Handled(c, n) => Handled(c, n)'
    <3> SUFFICES ASSUME NEW x \in 1..Len(handled[c]), handled[c][x] = n
                 PROVE  Handled(c, n)'
      BY DEF Handled
    <3>1. x \in 1..Len(handled'[c]) /\ handled'[c][x] = n
      BY <2>1, <2>2
    <3> QED
      BY <3>1 DEF Handled
  <2>5. InWork(c, n) => (InWork(c, n) \/ Handled(c, n))'
    <3> SUFFICES ASSUME NEW k \in Ids, job[k] = Request(c, n)
                 PROVE  (InWork(c, n) \/ Handled(c, n))'
      BY DEF InWork
    <3>1. CASE k # i
      BY <1>0, <2>1, <3>1 DEF InWork
    <3>2. CASE k = i
      <4>1. d = c /\ job[i].num = n
        BY <3>2 DEF d, Request
      <4>2. Len(handled[c]) + 1 \in 1..Len(handled'[c])
            /\ handled'[c][Len(handled[c]) + 1] = n
        BY <2>1, <2>2, <4>1
      <4> QED
        BY <4>2 DEF Handled
    <3> QED
      BY <3>1, <3>2
  <2> QED
    BY <2>1, <2>3, <2>4, <2>5 DEF Queued
<1>5. CASE UNCHANGED vars
  BY <1>1, <1>5 DEF vars
<1>6. ASSUME NEW d \in Conns, Look(d) \/ Make(d) \/ Spawn(d) \/ Load(d)
      PROVE  (Queued(c, n) \/ InWork(c, n) \/ Handled(c, n))'
  BY <1>1, <1>6 DEF Look, Make, Spawn, Load
<1> QED
  BY <1>2, <1>3, <1>4, <1>5, <1>6
     DEF Next, SendMsgToTaskQueue, StartOneWorker

LEMMA ServedInit == Init => KeptInv /\ ServedInv
PROOF
<1> SUFFICES ASSUME Init PROVE KeptInv /\ ServedInv
  OBVIOUS
<1>1. \A c \in Conns : next[c] = 1 /\ QueueOf(c) = 0
  BY WorkerIdType DEF Init, QueueOf
<1>2. \A q \in Ids : Len(queue[q]) = 0
  BY DEF Init
<1>3. KeptInv
  BY <1>1 DEF KeptInv
<1> QED
  BY <1>1, <1>2, <1>3 DEF ServedInv

\* A worker stays with its queue, and only Make changes a slot.
LEMMA ServedStays ==
    ASSUME IInv, [Next]_vars
    PROVE  /\ \A i \in Ids : serves[i] # 0 => serves'[i] = serves[i]
           /\ \A c \in Conns : Alone(c) =>
                 \/ at'[c] = "spawn"
                 \/ QueueOf(c)' = QueueOf(c)
PROOF
<1>0. TypeOK /\ ReaderInv
  BY DEF IInv
<1>1. ASSUME NEW d \in Conns, Make(d)
      PROVE  /\ \A i \in Ids : serves[i] # 0 => serves'[i] = serves[i]
             /\ \A c \in Conns : Alone(c) =>
                   at'[c] = "spawn" \/ QueueOf(c)' = QueueOf(c)
  <2>1. UNCHANGED serves
    BY <1>1 DEF Make
  <2>2. ASSUME NEW c \in Conns, Alone(c)
        PROVE  at'[c] = "spawn" \/ QueueOf(c)' = QueueOf(c)
    <3>1. CASE c = d
      BY <1>0, <1>1, <3>1 DEF Make, TypeOK
    <3>2. CASE c # d
      <4>1. WorkerId(c) # WorkerId(d) /\ WorkerId(c) \in Slots
        BY <1>1, <2>2, <3>2, WorkerIdType DEF Alone, Begun, Make
      <4> QED
        BY <1>0, <1>1, <4>1 DEF Make, TypeOK, QueueOf
    <3> QED
      BY <3>1, <3>2
  <2> QED
    BY <2>1, <2>2
<1>2. ASSUME NEW d \in Conns, Spawn(d)
      PROVE  /\ \A i \in Ids : serves[i] # 0 => serves'[i] = serves[i]
             /\ UNCHANGED TaskQueue
  BY <1>0, <1>2 DEF Spawn, TypeOK
<1>3. ASSUME UNCHANGED <<serves, TaskQueue>>
      PROVE  /\ \A i \in Ids : serves[i] # 0 => serves'[i] = serves[i]
             /\ UNCHANGED TaskQueue
  BY <1>3
<1>4. ASSUME UNCHANGED TaskQueue
      PROVE  \A c \in Conns : QueueOf(c)' = QueueOf(c)
  BY <1>4 DEF QueueOf
<1>5. ASSUME NEW d \in Conns, Look(d) \/ Load(d) \/ Send(d)
      PROVE  UNCHANGED <<serves, TaskQueue>>
  BY <1>5 DEF Look, Load, Send
<1>6. ASSUME NEW i \in Ids, StartOneWorker(i)
      PROVE  UNCHANGED <<serves, TaskQueue>>
  BY <1>6 DEF StartOneWorker, Take, DoMsgHandle
<1>7. UNCHANGED vars => UNCHANGED <<serves, TaskQueue>>
  BY DEF vars
<1> QED
  BY <1>1, <1>2, <1>3, <1>4, <1>5, <1>6, <1>7 DEF Next, SendMsgToTaskQueue

LEMMA ServedNext == IInv /\ ServedInv /\ [Next]_vars => ServedInv'
PROOF
<1> SUFFICES ASSUME IInv, ServedInv, [Next]_vars PROVE ServedInv'
  OBVIOUS
<1>0. TypeOK /\ ReaderInv /\ AloneInv
  BY DEF IInv
<1>1. /\ \A i \in Ids : serves[i] # 0 => serves'[i] = serves[i]
      /\ \A c \in Conns : Alone(c) =>
            at'[c] = "spawn" \/ QueueOf(c)' = QueueOf(c)
  BY ServedStays
<1>2. \A d : Alone(d)' => Alone(d)
  <2>1. UNCHANGED vars => \A d : Alone(d)' => Alone(d)
    BY DEF vars, Alone, Begun
  <2> QED
    BY <2>1, AloneStays
<1>3. ASSUME NEW q \in Ids, NEW i \in Ids, serves[i] = q
      PROVE  \E k \in Ids : serves'[k] = q
  BY <1>1, <1>3, Constants
<1>4. ASSUME NEW c \in Conns, Alone(c), QueueOf(c)' # 0, at'[c] # "spawn"
      PROVE  \E i \in Ids : serves'[i] = QueueOf(c)'
  <2>1. QueueOf(c)' = QueueOf(c) /\ QueueOf(c) \in Ids
    BY <1>0, <1>1, <1>4, WorkerIdType DEF TypeOK, QueueOf
  <2>2. CASE at[c] # "spawn"
    BY <1>3, <1>4, <2>1, <2>2 DEF ServedInv
  <2>3. CASE at[c] = "spawn"
    <3>1. Spawn(c)
      <4>1. ASSUME NEW d \in Conns, d # c, SendMsgToTaskQueue(d)
            PROVE  at'[c] = at[c]
        BY <1>0, <4>1 DEF SendMsgToTaskQueue, Look, Make, Spawn, Load, Send,
                          TypeOK
      <4>2. ASSUME NEW i \in Ids, StartOneWorker(i) PROVE at'[c] = at[c]
        BY <4>2 DEF StartOneWorker, Take, DoMsgHandle
      <4>3. UNCHANGED vars => at'[c] = at[c]
        BY DEF vars
      <4>4. SendMsgToTaskQueue(c)
        BY <1>4, <2>3, <4>1, <4>2, <4>3 DEF Next
      <4> QED
        BY <2>3, <4>4 DEF SendMsgToTaskQueue, Look, Make, Load, Send
    <3>2. PICK i \in Ids :
              serves' = [serves EXCEPT ![i] = TaskQueue[WorkerId(c)]]
      BY <3>1 DEF Spawn
    <3> QED
      BY <1>0, <2>1, <3>2 DEF TypeOK, QueueOf
  <2> QED
    BY <2>2, <2>3
<1>5. ASSUME NEW q \in Ids, NEW j \in 1..Len(queue'[q]),
             Alone(queue'[q][j].conn)
      PROVE  \E i \in Ids : serves'[i] = q
  <2>1. ASSUME UNCHANGED queue PROVE \E i \in Ids : serves'[i] = q
    BY <1>3, <1>5, <2>1 DEF ServedInv
  <2>2. ASSUME NEW d \in Conns, Send(d) PROVE \E i \in Ids : serves'[i] = q
    <3> DEFINE t == target[d]
    <3>1. /\ t \in Ids /\ at[d] = "send" /\ UNCHANGED serves
          /\ Len(queue[t]) \in Nat /\ Len(queue'[t]) = Len(queue[t]) + 1
          /\ queue'[t][Len(queue[t]) + 1] = Request(d, next[d])
          /\ \A k \in 1..Len(queue[t]) : queue'[t][k] = queue[t][k]
          /\ \A r \in Ids : r # t => queue'[r] = queue[r]
      BY <1>0, <2>2, Sent
    <3> HIDE DEF t
    <3>2. CASE q = t /\ j = Len(queue[t]) + 1
      <4>1. Alone(d)
        BY <1>5, <3>1, <3>2 DEF Request
      <4>2. t = QueueOf(d)
        BY <1>0, <3>1, <4>1 DEF AloneInv, AloneOf, t
      <4>3. \E i \in Ids : serves[i] = t
        BY <3>1, <4>1, <4>2, Constants DEF ServedInv
      <4> QED
        BY <3>1, <3>2, <4>3
    <3>3. CASE ~ (q = t /\ j = Len(queue[t]) + 1)
      <4>1. j \in 1..Len(queue[q]) /\ queue'[q][j] = queue[q][j]
        BY <3>1, <3>3
      <4> QED
        BY <1>3, <1>5, <4>1 DEF ServedInv
    <3> QED
      BY <3>2, <3>3
  <2>3. ASSUME NEW i \in Ids, Take(i) PROVE \E k \in Ids : serves'[k] = q
    <3>1. /\ serves[i] # q => queue'[q] = queue[q]
          /\ UNCHANGED serves
      BY <1>0, <2>3, Taken
    <3>2. CASE serves[i] = q
      BY <3>1, <3>2
    <3>3. CASE serves[i] # q
      BY <1>3, <1>5, <3>1, <3>3 DEF ServedInv
    <3> QED
      BY <3>2, <3>3
  <2>4. ASSUME NEW d \in Conns, Look(d) \/ Make(d) \/ Spawn(d) \/ Load(d)
        PROVE  UNCHANGED queue
    BY <2>4 DEF Look, Make, Spawn, Load
  <2>5. ASSUME NEW i \in Ids, DoMsgHandle(i) PROVE UNCHANGED queue
    BY <2>5 DEF DoMsgHandle
  <2>6. UNCHANGED vars => UNCHANGED queue
    BY DEF vars
  <2> QED
    BY <2>1, <2>2, <2>3, <2>4, <2>5, <2>6
       DEF Next, SendMsgToTaskQueue, StartOneWorker
<1>6. \A c \in Conns : Alone(c) /\ QueueOf(c)' # 0 /\ at'[c] # "spawn" =>
          \E i \in Ids : serves'[i] = QueueOf(c)'
  BY <1>4
<1>7. \A q \in Ids : \A j \in 1..Len(queue'[q]) :
          Alone(queue'[q][j].conn) => \E i \in Ids : serves'[i] = q
  BY <1>5
<1> QED
  BY <1>2, <1>6, <1>7 DEF ServedInv, Alone, Begun

\* No request is dropped on its way (imsghandler.go:9 "hand the message to the
\* TaskQueue, a worker processes it"): what SendMsgToTaskQueue has sent is in
\* a queue, in work or handled, and while it waits in the queue of a
\* connection alone on its slot, some worker reads that queue.
RequestsKept ==
    \A c \in Conns : \A n \in 1..(next[c] - 1) :
        \/ Handled(c, n)
        \/ InWork(c, n)
        \/ \E q \in Ids : \E j \in 1..Len(queue[q]) :
              /\ queue[q][j] = Request(c, n)
              /\ Alone(c) => \E i \in Ids : serves[i] = q

\* SendMsgToTaskQueue and StartOneWorker (msghandler.go:54-90) keep every
\* request, for any number of connections and any pool: the safety half of
\* RequestsHandled, and races for a slot included.
THEOREM NothingDropped == Spec => []RequestsKept
PROOF
<1>1. Init => KeptInv /\ ServedInv
  BY ServedInit
<1>2. IInv /\ KeptInv /\ ServedInv /\ [Next]_vars => (KeptInv /\ ServedInv)'
  BY KeptNext, ServedNext
<1>3. ASSUME KeptInv, ServedInv PROVE RequestsKept
  <2> SUFFICES ASSUME NEW c \in Conns, NEW n \in 1..(next[c] - 1), Queued(c, n)
               PROVE  \E q \in Ids : \E j \in 1..Len(queue[q]) :
                         /\ queue[q][j] = Request(c, n)
                         /\ Alone(c) => \E i \in Ids : serves[i] = q
    BY <1>3 DEF KeptInv, RequestsKept
  <2>1. PICK q \in Ids : \E j \in 1..Len(queue[q]) :
                             queue[q][j] = Request(c, n)
    BY DEF Queued
  <2>2. PICK j \in 1..Len(queue[q]) : queue[q][j] = Request(c, n)
    BY <2>1
  <2>3. Alone(c) => \E i \in Ids : serves[i] = q
    BY <1>3, <2>2 DEF ServedInv, Request
  <2> QED
    BY <2>2, <2>3
<1> QED
  BY <1>1, <1>2, <1>3, Inductive, PTL DEF Spec
-----------------------------------------------------------------------------
(* A connection                                                            *)

Places == {"unpack", "dispatch", "exit", "stop", "stopSet", "stopConn",
           "stopChan", "done", "select", "write", "wait", "idle", "handle", "check", "send"}

InStop == {"stop", "stopSet", "stopConn", "stopChan"}

\* Without a handler's Stop the worker is never in Stop, and the reader closes
\* ExitChan in its last step.
StopInv ==
    /\ goroutine \in [Goroutines -> Places]
    /\ ~userStop => /\ goroutine["worker"] \notin InStop
                    /\ exitClosed => goroutine["reader"] = "done"
                    /\ ~crashed

LEMMA GoroutineNames == Goroutines = {"reader", "writer", "starter", "worker"}
BY DEF Goroutines, ConnPCs

\* Outside Stop the worker, and the writer and the starter, leave the reader,
\* ExitChan and the process alone.
LEMMA StopOther ==
    ASSUME StopInv, NEW g \in {"writer", "starter", "worker"},
           NEW to \in Places \ InStop,
           goroutine' = [goroutine EXCEPT ![g] = to],
           UNCHANGED <<exitClosed, crashed, userStop>>
    PROVE  StopInv'
PROOF
<1>1. /\ goroutine' \in [Goroutines -> Places]
      /\ goroutine'["reader"] = goroutine["reader"]
      /\ goroutine'["worker"] \in {goroutine["worker"], to}
  BY GoroutineNames DEF StopInv, Places
<1> QED
  BY <1>1 DEF StopInv

\* The reader before its Stop.
LEMMA StopReader ==
    ASSUME StopInv, NEW to \in Places, goroutine["reader"] # "done",
           goroutine' = [goroutine EXCEPT !["reader"] = to],
           UNCHANGED <<exitClosed, crashed, userStop>>
    PROVE  StopInv'
PROOF
<1>1. /\ goroutine' \in [Goroutines -> Places]
      /\ goroutine'["worker"] = goroutine["worker"]
  BY GoroutineNames DEF StopInv, Places
<1> QED
  BY <1>1 DEF StopInv

LEMMA StopNext ==
    ASSUME StopInv, [ConnNext]_connVars
    PROVE  StopInv'
PROOF
<1> USE GoroutineNames DEF Places, InStop
<1>1. CASE UNCHANGED connVars
  BY <1>1 DEF StopInv, connVars, stopVars, history
<1>2. ASSUME NEW k \in Kinds, PeerSend(k) PROVE StopInv'
  BY <1>2 DEF StopInv, PeerSend, Running, stopVars, history
<1>3. ASSUME NEW e \in Ends, PeerEnd(e) PROVE StopInv'
  BY <1>3 DEF StopInv, PeerEnd, Running, stopVars, history
<1>4. CASE Unpack \/ UnpackTooLarge \/ UnpackEnd
           \/ UnpackClosed \/ ExitSend \/ Dispatch
  <2>1. \/ Goto("reader", "unpack", "dispatch")
        \/ Goto("reader", "unpack", "exit")
        \/ Goto("reader", "exit", IF eof THEN "stop" ELSE "unpack")
        \/ Goto("reader", "dispatch", "unpack")
    BY <1>4 DEF Unpack, UnpackTooLarge, UnpackEnd,
       UnpackClosed, UnpackFails, ExitSend, Dispatch
  <2>2. UNCHANGED <<exitClosed, crashed, userStop>>
    BY <1>4 DEF Unpack, UnpackTooLarge, UnpackEnd,
       UnpackClosed, UnpackFails, ExitSend, Dispatch,
       Running, stopVars, history
  <2>3. PICK to \in {"dispatch", "exit", "stop", "unpack"} :
            goroutine' = [goroutine EXCEPT !["reader"] = to]
    BY <2>1 DEF Goto
  <2>4. goroutine["reader"] # "done"
    BY <2>1 DEF Goto
  <2> QED
    BY <2>2, <2>3, <2>4, StopReader
<1>5. CASE ExitSendPanics
  BY <1>5 DEF StopInv, ExitSendPanics, stopVars, history
<1>6. CASE Stop("reader")
  <2>1. CASE StopCheck("reader") \/ StopSet("reader") \/ StopConn("reader")
    <3>1. PICK to \in {"done", "stopSet", "stopConn", "stopChan"} :
              goroutine' = [goroutine EXCEPT !["reader"] = to]
      BY <2>1 DEF StopCheck, StopSet, StopConn, Goto, AfterStop
    <3>2. goroutine["reader"] # "done" /\ UNCHANGED <<exitClosed, crashed, userStop>>
      BY <2>1 DEF StopCheck, StopSet, StopConn, Goto, Running,
         stopVars, history
    <3> QED
      BY <3>1, <3>2, StopReader
  <2>2. CASE StopChan("reader")
    <3>1. /\ goroutine' = [goroutine EXCEPT !["reader"] = "done"]
          /\ UNCHANGED <<crashed, userStop>>
      BY <2>2 DEF StopChan, Goto, AfterStop, Running,
         history
    <3>2. /\ goroutine' \in [Goroutines -> Places]
          /\ goroutine'["worker"] = goroutine["worker"]
          /\ goroutine'["reader"] = "done"
      BY <3>1 DEF StopInv
    <3> QED
      BY <3>1, <3>2 DEF StopInv
  <2>3. CASE StopChanPanics("reader")
    BY <2>3 DEF StopInv, StopChanPanics, stopVars, history
  <2> QED
    BY <1>6, <2>1, <2>2, <2>3 DEF Stop
<1>7. CASE Stop("worker")
  <2>1. userStop /\ userStop' = userStop
    <3>1. goroutine["worker"] \in InStop
      BY <1>7 DEF Stop, StopCheck, StopSet, StopConn, StopChan,
         StopChanPanics, Goto
    <3>2. userStop' = userStop
      BY <1>7 DEF Stop, StopCheck, StopSet, StopConn, StopChan,
         StopChanPanics, Running, history
    <3> QED
      BY <3>1, <3>2 DEF StopInv
  <2>2. \/ UNCHANGED goroutine
        \/ \E to \in Places : goroutine' = [goroutine EXCEPT !["worker"] = to]
    <3>1. \/ UNCHANGED goroutine
          \/ \E to \in {"idle", "stopSet", "stopConn", "stopChan"} :
                goroutine' = [goroutine EXCEPT !["worker"] = to]
      BY <1>7 DEF Stop, StopCheck, StopSet, StopConn, StopChan,
         StopChanPanics, Goto, AfterStop
    <3> QED
      BY <3>1
  <2>3. goroutine' \in [Goroutines -> Places]
    BY <2>2 DEF StopInv
  <2> QED
    BY <2>1, <2>3 DEF StopInv
<1>8. ASSUME NEW g \in {"writer", "starter"}, NEW from,
             ExitReceive(g, from)
      PROVE  StopInv'
  <2>1. goroutine' = [goroutine EXCEPT ![g] = "done"]
    BY <1>8 DEF ExitReceive, Goto
  <2>2. UNCHANGED <<exitClosed, crashed, userStop>>
    BY <1>8 DEF ExitReceive, Running, stopVars, history
  <2> QED
    BY <2>1, <2>2, StopOther
<1>9. CASE Write
  <2>1. PICK to \in {"select", "done"} :
            goroutine' = [goroutine EXCEPT !["writer"] = to]
    BY <1>9 DEF Write, Goto
  <2>2. UNCHANGED <<exitClosed, crashed, userStop>>
    BY <1>9 DEF Write, Running, stopVars, history
  <2> QED
    BY <2>1, <2>2, StopOther
<1>10. CASE TakeTask \/ SendCheck
  <2>1. PICK to \in {"handle", "idle", "send"} :
            goroutine' = [goroutine EXCEPT !["worker"] = to]
    BY <1>10 DEF TakeTask, SendCheck, Goto
  <2>2. UNCHANGED <<exitClosed, crashed, userStop>>
    BY <1>10 DEF TakeTask, SendCheck, Running, stopVars,
       history
  <2> QED
    BY <2>1, <2>2, StopOther
<1>11. ASSUME NEW h \in Handlers, Handle(h) PROVE StopInv'
  <2>1. /\ Goto("worker", "handle", CASE h = "reply" -> "check"
                                           [] h = "stop"  -> "stop"
                                           [] h = "quiet" -> "idle")
        /\ userStop' = (userStop \/ h = "stop")
        /\ UNCHANGED <<exitClosed, crashed>>
    BY <1>11 DEF Handle, stopVars
  <2>2. h \in {"reply", "stop", "quiet"}
    BY ConnectionAssumption
  <2>3. PICK to \in {"check", "stop", "idle"} :
            /\ goroutine' = [goroutine EXCEPT !["worker"] = to]
            /\ to = "stop" => h = "stop"
    BY <2>1, <2>2 DEF Goto
  <2>4. /\ goroutine' \in [Goroutines -> Places]
        /\ goroutine'["worker"] = to
        /\ goroutine'["reader"] = goroutine["reader"]
    BY <2>3 DEF StopInv
  <2> QED
    BY <2>1, <2>3, <2>4 DEF StopInv
<1>12. CASE SendMsg
  <2>1. /\ goroutine' = [goroutine EXCEPT !["worker"] = "idle",
                                          !["writer"] = "write"]
        /\ UNCHANGED <<exitClosed, crashed, userStop>>
    BY <1>12 DEF SendMsg, Running, stopVars, history
  <2>2. /\ goroutine' \in [Goroutines -> Places]
        /\ goroutine'["worker"] = "idle"
        /\ goroutine'["reader"] = goroutine["reader"]
    BY <2>1 DEF StopInv
  <2> QED
    BY <2>1, <2>2 DEF StopInv
<1> QED
  BY <1>1, <1>2, <1>3, <1>4, <1>5, <1>6, <1>7, <1>8, <1>9, <1>10, <1>11, <1>12
     DEF ConnNext, Reader, Writer, Starter, Worker

LEMMA StopInit == ConnInit => StopInv
PROOF
<1> SUFFICES ASSUME ConnInit PROVE StopInv
  OBVIOUS
<1>1. /\ goroutine = [reader |-> "unpack", writer |-> "select",
                      starter |-> "wait", worker |-> "idle"]
      /\ ~exitClosed /\ ~crashed
  BY DEF ConnInit
<1>2. /\ DOMAIN goroutine = Goroutines
      /\ goroutine = [g \in DOMAIN goroutine |-> goroutine[g]]
  BY <1>1, GoroutineNames
<1>3. /\ goroutine["reader"] = "unpack" /\ goroutine["writer"] = "select"
      /\ goroutine["starter"] = "wait" /\ goroutine["worker"] = "idle"
  BY <1>1
<1>4. \A g \in Goroutines : goroutine[g] \in Places
  BY <1>3, GoroutineNames DEF Places
<1>5. goroutine \in [Goroutines -> Places]
  BY <1>2, <1>4
<1> QED
  BY <1>1, <1>3, <1>5 DEF StopInv, InStop

\* Connection.Stop and the reader's ExitChan <- true (connection.go:53-111):
\* without a handler's Stop the process does not panic, whatever the peer
\* sends and however it ends the stream.
THEOREM OnlyHandlersCrash == ConnSpec => []CrashNeedsStop
PROOF
<1>1. StopInv => CrashNeedsStop
  BY DEF StopInv, CrashNeedsStop
<1>2. StopInv /\ [ConnNext]_connVars => StopInv'
  BY StopNext
<1> QED
  BY <1>1, <1>2, StopInit, PTL DEF ConnSpec

\* Stop from inside: a goroutine has set isClosed, then closed the socket, then
\* closes ExitChan, and a reader that has ended went through Stop.
Closing == {"stopConn", "stopChan"}
ReleaseInv ==
    /\ \A g \in {"reader", "worker"} :
          /\ goroutine[g] \in Closing => isClosed
          /\ goroutine[g] = "stopChan" => connClosed
    /\ exitClosed => isClosed /\ connClosed
    /\ isClosed => exitClosed \/ \E g \in {"reader", "worker"} :
                                    goroutine[g] \in Closing
    /\ goroutine["reader"] = "done" => isClosed

\* Steps outside Stop.
LEMMA ReleaseOther ==
    ASSUME ReleaseInv, UNCHANGED stopVars,
           \A g \in {"reader", "worker"} :
               \/ goroutine'[g] = goroutine[g]
               \/ /\ goroutine[g] \notin Closing
                  /\ goroutine'[g] \notin Closing \cup {"done"}
    PROVE  ReleaseInv'
BY DEF ReleaseInv, stopVars, Closing

LEMMA ReleaseNext ==
    ASSUME StopInv, ReleaseInv, [ConnNext]_connVars
    PROVE  ReleaseInv'
PROOF
<1> USE GoroutineNames
<1>0. goroutine \in [Goroutines -> Places]
  BY DEF StopInv
<1>1. ASSUME UNCHANGED <<goroutine, stopVars>> PROVE ReleaseInv'
  BY <1>1, ReleaseOther
<1>2. CASE \/ UNCHANGED connVars
           \/ \E k \in Kinds : PeerSend(k)
           \/ \E e \in Ends : PeerEnd(e)
           \/ ExitSendPanics \/ StopChanPanics("reader")
           \/ StopChanPanics("worker")
  BY <1>1, <1>2 DEF connVars, PeerSend, PeerEnd, ExitSendPanics,
                    StopChanPanics
<1>3. ASSUME NEW g \in Goroutines, NEW from, NEW to \in Places,
             Goto(g, from, to), UNCHANGED stopVars,
             from \notin Closing, to \notin Closing \cup {"done"}
      PROVE  ReleaseInv'
  <2>1. \A f \in {"reader", "worker"} :
            \/ goroutine'[f] = goroutine[f]
            \/ /\ goroutine[f] \notin Closing
               /\ goroutine'[f] \notin Closing \cup {"done"}
    BY <1>0, <1>3 DEF Goto
  <2> QED
    BY <1>3, <2>1, ReleaseOther
<1>4. ASSUME NEW g \in {"writer", "starter"}, NEW from, NEW to,
             Goto(g, from, to), UNCHANGED stopVars
      PROVE  ReleaseInv'
  <2>1. \A f \in {"reader", "worker"} : goroutine'[f] = goroutine[f]
    BY <1>0, <1>4 DEF Goto
  <2> QED
    BY <1>4, <2>1, ReleaseOther
<1>5. CASE Unpack \/ UnpackTooLarge \/ UnpackEnd \/ UnpackClosed \/ ExitSend
           \/ Dispatch \/ TakeTask \/ SendCheck
           \/ \E h \in Handlers : Handle(h)
  <2>1. UNCHANGED stopVars
    BY <1>5 DEF Unpack, UnpackTooLarge, UnpackEnd, UnpackClosed, ExitSend,
                UnpackFails, Dispatch, TakeTask, SendCheck, Handle
  <2>2. \/ Goto("reader", "unpack", "dispatch")
        \/ Goto("reader", "unpack", "exit")
        \/ Goto("reader", "exit", IF eof THEN "stop" ELSE "unpack")
        \/ Goto("reader", "dispatch", "unpack")
        \/ Goto("worker", "idle", "handle")
        \/ Goto("worker", "check", IF isClosed THEN "idle" ELSE "send")
        \/ \E h \in {"reply", "stop", "quiet"} :
              Goto("worker", "handle", CASE h = "reply" -> "check"
                                         [] h = "stop"  -> "stop"
                                         [] h = "quiet" -> "idle")
    BY <1>5, ConnectionAssumption
       DEF Unpack, UnpackTooLarge, UnpackEnd, UnpackClosed, UnpackFails,
           ExitSend, Dispatch, TakeTask, SendCheck, Handle
  <2>3. PICK g \in {"reader", "worker"} :
            \E from \in Places \ Closing,
               to \in Places \ (Closing \cup {"done"}) : Goto(g, from, to)
    BY <2>2 DEF Places, Closing
  <2> QED
    BY <1>3, <2>1, <2>3
<1>6. CASE Writer \/ Starter
  <2>1. UNCHANGED stopVars
    BY <1>6 DEF Writer, Starter, ExitReceive, Write
  <2>2. \E g \in {"writer", "starter"} : \E from, to : Goto(g, from, to)
    BY <1>6 DEF Writer, Starter, ExitReceive, Write
  <2> QED
    BY <1>4, <2>1, <2>2
<1>7. CASE SendMsg
  <2>1. /\ goroutine' = [goroutine EXCEPT !["worker"] = "idle",
                                          !["writer"] = "write"]
        /\ goroutine["worker"] = "send" /\ UNCHANGED stopVars
    BY <1>7 DEF SendMsg
  <2>2. goroutine'["worker"] = "idle" /\ goroutine'["reader"] = goroutine["reader"]
    BY <1>0, <2>1
  <2> QED
    BY <2>1, <2>2, ReleaseOther DEF Closing
<1>8. ASSUME NEW g \in {"reader", "worker"}, StopCheck(g) PROVE ReleaseInv'
  <2>1. UNCHANGED stopVars /\ goroutine[g] = "stop"
    BY <1>8 DEF StopCheck, Goto
  <2>2. goroutine' = [goroutine EXCEPT ![g] =
                          IF isClosed THEN AfterStop(g) ELSE "stopSet"]
    BY <1>8 DEF StopCheck, Goto
  <2>3. \A f \in {"reader", "worker"} : f # g => goroutine'[f] = goroutine[f]
    BY <1>0, <2>2
  <2>4. goroutine'[g] = IF isClosed THEN AfterStop(g) ELSE "stopSet"
    BY <1>0, <2>2
  <2>5. goroutine'[g] \notin Closing /\ (goroutine'[g] = "done" => isClosed)
    BY <2>4 DEF AfterStop, Closing
  <2> QED
    BY <2>1, <2>3, <2>5 DEF ReleaseInv, stopVars, Closing
<1>9. ASSUME NEW g \in {"reader", "worker"}, StopSet(g) PROVE ReleaseInv'
  <2>1. /\ goroutine' = [goroutine EXCEPT ![g] = "stopConn"]
        /\ isClosed' /\ UNCHANGED <<exitClosed, connClosed>>
    BY <1>9 DEF StopSet, Goto
  <2>2. /\ goroutine'[g] = "stopConn"
        /\ \A f \in {"reader", "worker"} : f # g => goroutine'[f] = goroutine[f]
    BY <1>0, <2>1
  <2> QED
    BY <2>1, <2>2 DEF ReleaseInv, Closing
<1>10. ASSUME NEW g \in {"reader", "worker"}, StopConn(g) PROVE ReleaseInv'
  <2>1. /\ goroutine' = [goroutine EXCEPT ![g] = "stopChan"]
        /\ goroutine[g] = "stopConn"
        /\ connClosed' /\ UNCHANGED <<exitClosed, isClosed>>
    BY <1>10 DEF StopConn, Goto
  <2>2. isClosed
    BY <2>1 DEF ReleaseInv, Closing
  <2>3. goroutine'[g] = "stopChan"
    BY <1>0, <2>1
  <2> QED
    BY <2>1, <2>2, <2>3 DEF ReleaseInv, Closing
<1>11. ASSUME NEW g \in {"reader", "worker"}, StopChan(g) PROVE ReleaseInv'
  <2>1. /\ goroutine[g] = "stopChan" /\ exitClosed'
        /\ UNCHANGED <<isClosed, connClosed>>
    BY <1>11 DEF StopChan, Goto
  <2>2. isClosed /\ connClosed
    BY <2>1 DEF ReleaseInv, Closing
  <2> QED
    BY <2>1, <2>2 DEF ReleaseInv
<1> QED
  BY <1>2, <1>5, <1>6, <1>7, <1>8, <1>9, <1>10, <1>11
     DEF ConnNext, Reader, Worker, Stop

\* Nobody finds ExitChan closed, on which the writer and Start wait, and the
\* socket still open.  A reader that has ended leaves both closed, or leaves
\* them to a handler inside Stop that has set isClosed before it and is about
\* to close the socket, or ExitChan after that: the reader may well end with
\* the socket open.
SocketReleased ==
    /\ exitClosed => isClosed /\ connClosed
    /\ goroutine["reader"] = "done" =>
          \/ exitClosed
          \/ goroutine["worker"] = "stopConn"
          \/ goroutine["worker"] = "stopChan" /\ connClosed

\* Connection.Stop (connection.go:101-111), run by the reader, by a handler or
\* by both at once: the safety half of PeerEndEndsConnection.
THEOREM StopReleases == ConnSpec => []SocketReleased
PROOF
<1>1. ConnInit => ReleaseInv
  BY DEF ConnInit, ReleaseInv, Closing
<1>2. StopInv /\ ReleaseInv /\ [ConnNext]_connVars => ReleaseInv'
  BY ReleaseNext
<1>3. ReleaseInv => SocketReleased
  BY DEF ReleaseInv, SocketReleased, Closing
<1>4. StopInv /\ [ConnNext]_connVars => StopInv'
  BY StopNext
<1> QED
  BY <1>1, <1>2, <1>3, <1>4, StopInit, PTL DEF ConnSpec

\* What Unpack leaves in the socket is made of what was there, and of junk.
LEMMA DropType ==
    ASSUME NEW S, "junk" \in S, NEW q \in Seq(S), DropBuffered(q)
    PROVE  inbox' \in Seq(S)
PROOF
<1>1. PICK k \in 0..Len(q), torn \in BOOLEAN :
          /\ torn => k < Len(q)
          /\ inbox' = IF torn THEN <<"junk">> \o SubSeq(q, k + 2, Len(q))
                              ELSE SubSeq(q, k + 1, Len(q))
  BY DEF DropBuffered
<1>2. CASE torn
  <2>1. SubSeq(q, k + 2, Len(q)) \in Seq(S) /\ <<"junk">> \in Seq(S)
    BY <1>1, <1>2
  <2> QED
    BY <1>1, <1>2, <2>1
<1>3. CASE ~ torn
  BY <1>1, <1>3
<1> QED
  BY <1>2, <1>3

\* A goroutine goes to a place of its own.
LEMMA GotoType ==
    ASSUME DOMAIN goroutine = Goroutines,
           \A f \in Goroutines : goroutine[f] \in ConnPCs[f],
           NEW g \in Goroutines, NEW from, NEW to \in ConnPCs[g],
           Goto(g, from, to)
    PROVE  /\ DOMAIN goroutine' = Goroutines
           /\ \A f \in Goroutines : goroutine'[f] \in ConnPCs[f]
BY DEF Goto

LEMMA PlacesOf ==
    /\ ConnPCs["reader"] = {"unpack", "dispatch", "exit", "stop", "stopSet",
                            "stopConn", "stopChan", "done"}
    /\ ConnPCs["writer"] = {"select", "write", "done"}
    /\ ConnPCs["starter"] = {"wait", "done"}
    /\ ConnPCs["worker"] = {"idle", "handle", "check", "send", "stop",
                            "stopSet", "stopConn", "stopChan"}
BY DEF ConnPCs

\* The goroutines stay in their places.
LEMMA PlacesNext ==
    ASSUME ConnTypeOK, [ConnNext]_connVars
    PROVE  /\ DOMAIN goroutine' = Goroutines
           /\ \A f \in Goroutines : goroutine'[f] \in ConnPCs[f]
PROOF
<1> USE GoroutineNames, PlacesOf
<1>1. /\ DOMAIN goroutine = Goroutines
      /\ \A f \in Goroutines : goroutine[f] \in ConnPCs[f]
  BY DEF ConnTypeOK
<1>2. \/ UNCHANGED goroutine
      \/ \E g \in Goroutines : \E from : \E to \in ConnPCs[g] :
            Goto(g, from, to)
      \/ SendMsg
  <2>1. CASE Reader
    <3>1. CASE Unpack \/ UnpackTooLarge \/ UnpackEnd \/ UnpackClosed
               \/ ExitSend \/ Dispatch
      <4>1. \/ Goto("reader", "unpack", "dispatch")
            \/ Goto("reader", "unpack", "exit")
            \/ Goto("reader", "exit", IF eof THEN "stop" ELSE "unpack")
            \/ Goto("reader", "dispatch", "unpack")
        BY <3>1 DEF Unpack, UnpackTooLarge, UnpackEnd, UnpackClosed,
                    UnpackFails, ExitSend, Dispatch
      <4> QED
        BY <4>1
    <3>2. CASE ExitSendPanics
      BY <3>2 DEF ExitSendPanics
    <3>3. CASE Stop("reader")
      BY <3>3 DEF Stop, StopCheck, StopSet, StopConn, StopChan,
                  StopChanPanics, AfterStop
    <3> QED
      BY <2>1, <3>1, <3>2, <3>3 DEF Reader
  <2>2. CASE Writer
    BY <2>2 DEF Writer, ExitReceive, Write
  <2>3. CASE Starter
    BY <2>3 DEF Starter, ExitReceive
  <2>4. CASE Worker
    <3>1. CASE TakeTask \/ SendCheck
      BY <3>1 DEF TakeTask, SendCheck
    <3>2. ASSUME NEW h \in Handlers, Handle(h)
          PROVE  \E to \in ConnPCs["worker"] : Goto("worker", "handle", to)
      <4>1. h \in {"reply", "stop", "quiet"}
        BY ConnectionAssumption
      <4> QED
        BY <3>2, <4>1 DEF Handle
    <3>3. CASE Stop("worker")
      BY <3>3 DEF Stop, StopCheck, StopSet, StopConn, StopChan,
                  StopChanPanics, AfterStop
    <3> QED
      BY <2>4, <3>1, <3>2, <3>3 DEF Worker
  <2>5. ASSUME NEW k \in Kinds, PeerSend(k) PROVE UNCHANGED goroutine
    BY <2>5 DEF PeerSend
  <2>6. ASSUME NEW e \in Ends, PeerEnd(e) PROVE UNCHANGED goroutine
    BY <2>6 DEF PeerEnd
  <2>7. UNCHANGED connVars => UNCHANGED goroutine
    BY DEF connVars
  <2> QED
    BY <2>1, <2>2, <2>3, <2>4, <2>5, <2>6, <2>7 DEF ConnNext
<1>3. CASE UNCHANGED goroutine
  BY <1>1, <1>3
<1>4. CASE \E g \in Goroutines : \E from : \E to \in ConnPCs[g] :
              Goto(g, from, to)
  BY <1>1, <1>4, GotoType
<1>5. CASE SendMsg
  BY <1>1, <1>5 DEF SendMsg
<1> QED
  BY <1>2, <1>3, <1>4, <1>5

LEMMA ConnTypeNext == ConnTypeOK /\ [ConnNext]_connVars => ConnTypeOK'
PROOF
<1> SUFFICES ASSUME ConnTypeOK, [ConnNext]_connVars PROVE ConnTypeOK'
  OBVIOUS
<1> DEFINE S == {"msg", "big", "junk"}
<1>0. /\ MaxMsgs \in Nat /\ MaxTasks \in Nat /\ Kinds \subseteq S
  BY ConnectionAssumption
<1>1. inbox' \in Seq(S)
  <2>1. inbox \in Seq(S)
    BY DEF ConnTypeOK
  <2>2. ASSUME NEW k \in Kinds, PeerSend(k) PROVE inbox' \in Seq(S)
    BY <1>0, <2>1, <2>2 DEF PeerSend
  <2>3. CASE Unpack \/ UnpackTooLarge
    <3>1. inbox # <<>>
      BY <2>3 DEF Unpack, UnpackTooLarge
    <3>2. Tail(inbox) \in Seq(S)
      BY <2>1, <3>1
    <3>3. CASE DropBuffered(Tail(inbox))
      BY <3>2, <3>3, DropType
    <3>4. CASE inbox' = <<"junk">> \o Tail(inbox)
      BY <3>2, <3>4
    <3> QED
      BY <2>3, <3>3, <3>4 DEF Unpack, UnpackTooLarge
  <2>4. \/ UNCHANGED inbox \/ inbox' = <<>> \/ Unpack \/ UnpackTooLarge
        \/ \E k \in Kinds : PeerSend(k)
    BY DEF ConnNext, Reader, Writer, Starter, Worker, Stop, PeerEnd, UnpackEnd,
           UnpackClosed, ExitSend, ExitSendPanics, Dispatch, StopCheck,
           StopSet, StopConn, StopChan, StopChanPanics, UnpackFails,
           ExitReceive, Write, TakeTask, Handle, SendCheck, SendMsg, connVars,
           peerVars
  <2>5. <<>> \in Seq(S)
    OBVIOUS
  <2> QED
    BY <2>1, <2>2, <2>3, <2>4, <2>5, Zenon
<1>2. /\ sent' \in 0..MaxMsgs /\ tasks' \in 0..MaxTasks /\ taken' \in Nat
      /\ exitBuf' \in 0..1
  <2>1. /\ sent \in 0..MaxMsgs /\ tasks \in 0..MaxTasks /\ taken \in Nat
        /\ exitBuf \in 0..1
    BY DEF ConnTypeOK
  <2>2. sent' = sent \/ (sent < MaxMsgs /\ sent' = sent + 1)
    BY DEF ConnNext, Reader, Writer, Starter, Worker, Stop, PeerSend, PeerEnd,
           Unpack, UnpackTooLarge, UnpackEnd, UnpackClosed, ExitSend,
           ExitSendPanics, Dispatch, StopCheck, StopSet, StopConn, StopChan,
           StopChanPanics, UnpackFails, ExitReceive, Write, TakeTask, Handle,
           SendCheck, SendMsg, connVars, peerVars
  <2>3. \/ UNCHANGED taskVars
        \/ tasks < MaxTasks /\ tasks' = tasks + 1 /\ taken' = taken
        \/ tasks > 0 /\ tasks' = tasks - 1 /\ taken' = taken + 1
    BY DEF ConnNext, Reader, Writer, Starter, Worker, Stop, PeerSend, PeerEnd,
           Unpack, UnpackTooLarge, UnpackEnd, UnpackClosed, ExitSend,
           ExitSendPanics, Dispatch, StopCheck, StopSet, StopConn, StopChan,
           StopChanPanics, UnpackFails, ExitReceive, Write, TakeTask, Handle,
           SendCheck, SendMsg, connVars
  <2>4. \/ exitBuf' = exitBuf
        \/ exitBuf < 1 /\ exitBuf' = exitBuf + 1
        \/ exitBuf' = IF exitBuf > 0 THEN exitBuf - 1 ELSE 0
    BY DEF ConnNext, Reader, Writer, Starter, Worker, Stop, PeerSend, PeerEnd,
           Unpack, UnpackTooLarge, UnpackEnd, UnpackClosed, ExitSend,
           ExitSendPanics, Dispatch, StopCheck, StopSet, StopConn, StopChan,
           StopChanPanics, UnpackFails, ExitReceive, Write, TakeTask, Handle,
           SendCheck, SendMsg, connVars
  <2> QED
    BY <1>0, <2>1, <2>2, <2>3, <2>4 DEF taskVars
<1>3. ended' \in Ends \cup {"open", "fin"}
  BY DEF ConnTypeOK, ConnNext, Reader, Writer, Starter, Worker, Stop, PeerSend,
         PeerEnd, Unpack, UnpackTooLarge, UnpackEnd, UnpackClosed, ExitSend,
         ExitSendPanics, Dispatch, StopCheck, StopSet, StopConn, StopChan,
         StopChanPanics, UnpackFails, ExitReceive, Write, TakeTask, Handle,
         SendCheck, SendMsg, connVars, peerVars
<1>4. eof' \in BOOLEAN
  BY DEF ConnTypeOK, ConnNext, Reader, Writer, Starter, Worker, Stop, PeerSend,
         PeerEnd, Unpack, UnpackTooLarge, UnpackEnd, UnpackClosed, ExitSend,
         ExitSendPanics, Dispatch, StopCheck, StopSet, StopConn, StopChan,
         StopChanPanics, UnpackFails, ExitReceive, Write, TakeTask, Handle,
         SendCheck, SendMsg, connVars, Running
<1>5. crashed' \in BOOLEAN /\ userStop' \in BOOLEAN
  BY DEF ConnTypeOK, ConnNext, Reader, Writer, Starter, Worker, Stop, PeerSend,
         PeerEnd, Unpack, UnpackTooLarge, UnpackEnd, UnpackClosed, ExitSend,
         ExitSendPanics, Dispatch, StopCheck, StopSet, StopConn, StopChan,
         StopChanPanics, UnpackFails, ExitReceive, Write, TakeTask, Handle,
         SendCheck, SendMsg, connVars, Running, history
<1>6. /\ exitClosed' \in BOOLEAN /\ isClosed' \in BOOLEAN
      /\ connClosed' \in BOOLEAN
  BY DEF ConnTypeOK, ConnNext, Reader, Writer, Starter, Worker, Stop, PeerSend,
         PeerEnd, Unpack, UnpackTooLarge, UnpackEnd, UnpackClosed, ExitSend,
         ExitSendPanics, Dispatch, StopCheck, StopSet, StopConn, StopChan,
         StopChanPanics, UnpackFails, ExitReceive, Write, TakeTask, Handle,
         SendCheck, SendMsg, connVars, stopVars
<1>7. errors' \in 0..MaxErrors
  <2>1. \/ errors' = errors
        \/ errors' = IF errors < MaxErrors THEN errors + 1 ELSE errors
    BY DEF ConnNext, Reader, Writer, Starter, Worker, Stop, PeerSend, PeerEnd,
           Unpack, UnpackTooLarge, UnpackEnd, UnpackClosed, ExitSend,
           ExitSendPanics, Dispatch, StopCheck, StopSet, StopConn, StopChan,
           StopChanPanics, UnpackFails, ExitReceive, Write, TakeTask, Handle,
           SendCheck, SendMsg, connVars, Running, history
  <2>2. errors \in 0..MaxErrors
    BY DEF ConnTypeOK
  <2> QED
    BY <2>1, <2>2 DEF MaxErrors
<1> QED
  BY <1>1, <1>2, <1>3, <1>4, <1>5, <1>6, <1>7, PlacesNext DEF ConnTypeOK

\* ExitChan and the task queue of a connection keep to their capacities, and
\* its goroutines to their code (connection.go, msghandler.go:77-90), for any
\* number of messages.
THEOREM ConnTypeCorrect == ConnSpec => []ConnTypeOK
PROOF
<1>1. ConnInit => ConnTypeOK
  <2> SUFFICES ASSUME ConnInit PROVE ConnTypeOK
    OBVIOUS
  <2>1. /\ DOMAIN goroutine = Goroutines
        /\ goroutine["reader"] = "unpack" /\ goroutine["writer"] = "select"
        /\ goroutine["starter"] = "wait" /\ goroutine["worker"] = "idle"
    BY GoroutineNames DEF ConnInit
  <2>2. \A g \in Goroutines : goroutine[g] \in ConnPCs[g]
    BY <2>1, GoroutineNames, PlacesOf
  <2>3. /\ inbox \in Seq({"msg", "big", "junk"})
        /\ ended \in Ends \cup {"open", "fin"}
    BY DEF ConnInit
  <2>4. /\ sent \in 0..MaxMsgs /\ tasks \in 0..MaxTasks /\ taken \in Nat
        /\ exitBuf \in 0..1
    BY ConnectionAssumption DEF ConnInit
  <2>5. /\ eof \in BOOLEAN /\ exitClosed \in BOOLEAN /\ isClosed \in BOOLEAN
        /\ connClosed \in BOOLEAN /\ crashed \in BOOLEAN
        /\ userStop \in BOOLEAN
    BY DEF ConnInit
  <2>6. errors \in 0..MaxErrors
    BY DEF ConnInit, MaxErrors
  <2> QED
    BY <2>1, <2>2, <2>3, <2>4, <2>5, <2>6 DEF ConnTypeOK
<1> QED
  BY <1>1, ConnTypeNext, PTL DEF ConnSpec
=============================================================================
