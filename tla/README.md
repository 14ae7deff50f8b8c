# Specifications of distributed_study

TLA+ specifications of the three programs of this repository, the TLC models that
check them on small instances, and TLAPS proofs of the central theorems.

* **geerpc**: an RPC library over gob (client, server, service registration, a
  registry with heartbeats, a load-balancing client).
* **geecache**: a distributed cache (LRU cache, singleflight, consistent hashing,
  HTTP between nodes).
* **myzinx**: a TCP server framework (connections with a reader and a writer
  goroutine, framing, a worker pool).

`PROJECT.json` lists the components, the runs, the source lines behind every
definition, the hazards and which property covers each, and the findings.

## 1. Inventory

### geerpc

| part | state | operations | interacts with | hard |
|---|---|---|---|---|
| client (`client.go`) | `seq`, `pending`, `closing`, `shutdown`, mutexes `sending` and `mu`, one Done channel per user | `Go`, `Call`, `send`, `registerCall`, `removeCall`, `receive`, `terminateCalls`, `Close`; `Dial`, `NewClient` | users block on Done channels; the receive goroutine and the senders share `pending` | a failing write races a late response and `terminateCalls`; blocking `done()` under two mutexes; contexts |
| codec (`codec/`) | a buffered writer with a sticky error, gob encoder and decoder | `ReadHeader`, `ReadBody`, `Write`, `Close` | used by client and server | dropped `Flush` error, panic half-way through a message |
| server (`server.go`) | per connection: the stream, a `sending` mutex, a WaitGroup, two goroutines per request | `ServeConn`, `serveCodec`, `readRequest`, `handleRequest`, `sendResponse`; `Register`, `Accept`, HTTP | methods of services; the client through the stream | the timeout races the method; two frames per response; resynchronising after errors |
| service (`service.go`) | the method table | `newService`, `registerMethods`, `call` | reflection | which methods are let in |
| registry, discovery (`registry/`, `xclient/discovery*.go`) | servers with their last heartbeat; a cached list with its time; round-robin index | `putServer`, `aliveServers`, `Heartbeat`; `Refresh`, `Get`, `GetAll` | HTTP both ways | staleness, lost heartbeats, restarts |
| xclient (`xclient/xclient.go`) | a client per address, a mutex held while dialling | `dial`, `Call`, `Broadcast`, `Close` | client, discovery | a stale client; leaked connections; cancellation after the first error |

Correct means: every issued call completes exactly once, whatever the peer and the
connection do; every request that reaches a handler is answered exactly once, in frames
that are not mixed with another response; nothing waits for ever.

### geecache

| part | state | operations | interacts with | hard |
|---|---|---|---|---|
| singleflight | the map of calls in flight, a WaitGroup and result per call | `Do` | callers, and `fn`, which may panic | the window between `Done` and `delete` |
| LRU (`lru/`, `cache.go`) | list, map, byte counter, a mutex around all | `Get`, `Add`, `RemoveOldest` | the group | byte accounting, an entry larger than the cache |
| group (`geecatche.go`) | the cache, the peers | `Get`, `load`, `getFromPeer`, `getLocally` | singleflight, LRU, other nodes | nodes that forward to each other |
| HTTP pool (`http.go`), consistent hash | the ring, a getter per peer | `Set`, `PickPeer`, `ServeHTTP`; `Add`, `Get` | group, other nodes | rings that differ, hash collisions |

Correct means: one load per key at a time, shared only between overlapping callers; the
cache is exact LRU within its byte limit; every key has one owner.

### myzinx

| part | state | operations | interacts with | hard |
|---|---|---|---|---|
| connection (`connection.go`) | `isClosed`, `ExitChan` (capacity 1), `msgChan` (unbuffered), the socket | `Start`, `StartReader`, `startWriter`, `Stop`, `SendMsg` | reader, writer, starter and worker meet on the channels | closing a channel others send to; everybody waiting |
| datapack | none | `Pack`, `Unpack` | the reader | read-ahead |
| message handler (`msghandler.go`) | task queues, made lazily; workers; routes | `SendMsgToTaskQueue`, `StartOneWorker`, `DoMsgHandle`, `AddRouter` | readers of all connections | initialisation without a lock, full queues |
| server | the connection counter | `Start`, `Serve`, `AddRouter` | accept loop | |

Correct means: every message sent is handled, in order for one connection; a connection
that has ended releases its goroutines and its socket; no peer and no handler can bring
the process down.

## 2. Modules

| module | models | kind |
|---|---|---|
| `RpcClient` | one client on one connection, with the gob codec it writes through | specification |
| `RpcClientProofs` | theorems about `RpcClient` and `RpcDial` | proofs |
| `RpcDial` | opening a connection: `Dial`, `NewClient` and the connect timeout | specification |
| `RpcServer` | one connection of the server, from the option to `cc.Close()` | specification |
| `RpcServerProofs` | theorems about `RpcServer` | proofs |
| `Registry` | the registry's map of servers and its HTTP handler, on a discrete clock | specification |
| `Discovery` | one process's discovery with its goroutines, and the registry it asks (extends `Registry`) | composition |
| `DiscoveryProofs` | theorems about `Discovery` and `Registry` | proofs |
| `Heartbeat` | the heartbeat loops of the servers, and the registry they go to (extends `Registry`) | composition |
| `HeartbeatProofs` | theorem about `Heartbeat` and `Registry` | proofs |
| `XClient` | the load-balancing client with its map of clients | specification |
| `XClientProofs` | theorems about `XClient` | proofs |
| `Flight` | what `singleflight.Group` promises | abstract specification |
| `SingleFlight` | `singleflight.Group.Do`; implements `Flight` | specification |
| `SingleFlightProofs` | theorems about `SingleFlight` | proofs |
| `LRU` | `lru.Cache` behind `geecache.cache` | specification |
| `ConsistentHash` | `consistenthash.Map` as operators | definitions |
| `GeeCache` | groups and HTTP pools of several nodes, on `ConsistentHash` and `Flight` | composition |
| `GeeCacheProofs` | theorems about `GeeCache`, `ConsistentHash` and `LRU` | proofs |
| `ZConnection` | one connection with its reader, writer, starter and worker | specification |
| `ZMsgHandle` | the worker pool with the readers of several connections | specification |
| `ZinxProofs` | theorems about `ZMsgHandle` and `ZConnection` | proofs |
| `MC*` | instances of these for TLC | models |

Definitions called "Faulty variant" are never used by a specification. Each is what a
definition would be with a plausible mistake in the code; `PROJECT.json` ("mutants") says
which property notices it.

A module of proofs extends every module its theorems are about. `LRU`, `RpcDial` and
`ZConnection`, which share one with a neighbour, have names of their own for what each
specification has (`LRUInit`, `DialNext`, `ConnSpec`, ...).

### RpcClient

State: `pc[c]` is the goroutine of a call, `recv` the receive goroutine; `seq`, `pending`,
`closing`, `shutdown`, `sending` are the fields of `Client`; `queue[ch]` are the Done
channels; `reqs`, `resps`, `lclosed`, `rclosed`, `bufErr` the connection as the codec sees
it. `mu` is not a variable: only `terminateCalls` holds it over more than one step
(`MuFree`). Calls made by `Client.Call` are those in `Sync`; each has a channel of its own
of capacity 1, as in the code.

| code | actions |
|---|---|
| `Go`, `send` | `Go`, `SendRegister`, `SendRefused`, `SendRemove`, `SendDone` |
| `GobCodec.Write` | `WriteDelivered`, `WriteLost` (Flush error dropped), `WritePanics` (`log.Panicln`), `WriteFails` (the buffer is broken) |
| `Call` | `CallAwait` (first receive), `CallSelect` |
| `receive` | `ReadHeader`, `ReadHeaderFails`, `RecvRemove`, `ReadBody`, `RecvDone` |
| `terminateCalls` | `terminateCalls`, `TerminateOne`, `TerminateEnd` |
| `Close` | `Close` |
| peer, users, contexts (external) | `PeerAnswer`, `PeerClose`, `Collect`, `CtxExpire` |

Arguments are "small", "large" (they overflow the 4096-byte buffer inside `Encode`) or
"bad" (gob cannot encode them): these are the three ways `Write` can go. The peer may
answer any number in any order and more than once.

### RpcServer

State: the loop of `ServeConn`/`serveCodec` (`loop`, `cur`), the stream (`in`), and for every
request its `handleRequest` goroutine (`main[r]`), the child that runs the method (`child[r]`)
and the header they share (`herr[r]`). A response is written in two steps (header, body) under
`sending`. A `json.Decoder` may take any prefix of what is already in the socket with the
option (`ReadOption`); `Eager` says whether a client may send that early. The option may set a
`HandleTimeout` ("timed"). A handler's goroutines meet on `called` and `sent` in the joint
actions `Called` and `Sent`. A panic ends the process (`crashed`): a method without a pointer
for its reply (`NewReplyvPanics`), a reply gob cannot encode (`ResultPanics`), and one that
overflows the codec's buffer while the connection is gone (`OverflowPanics`); a header that
overflows it makes `Write` fail (`FailWrite`). The history variable `faults` remembers that a
request was cut off or swallowed with the option; `Cause` collects everything that may end the
loop or leave a request unanswered.

### RpcDial

`dialer[d]` is `dialTimeout`, `maker[d]` the goroutine in which it runs `NewClient`, `reader[d]` the
receive goroutine of the client that one makes. `parseOption` gives any option (`limit`: is
a connect timeout set), `DialTimeout` a connection or nil, whose error nobody sees:
`NewClientPanics`, or the deferred `Close` in `ReturnError`, then ends the process. `ReceiveResult`
and `Timeout` are the two branches of the `select`; after `Timeout` the maker is left alone
with its channel.

### XClient

A goroutine in `call` is a `Caller` or, in a broadcast, named by its address. `DialKnown`,
`DialNew`, `XDial` and `XDialFails` are `dial`; `mu` is held from `DialNew` to the end of
`XDial`. A client is open, broken or closed, which is all its users can tell. `Completed` and
`CallReturns` are `Client.Call` as `RpcClient` shows it: completion first, then the end of the
context, and always an error. A call on an open client may stay unanswered for ever
(`Unanswered`); that of a client that has ended is completed. `Merge` is the locked part of the
goroutines of `Broadcast`. `GetAll` is taken by its interface (a list or an error); what the
implementation does to its mutex is the subject of `Discovery`.

### Registry and Discovery

Instants are kept as ages (`age[s]` for `ServerItem.start`, `updated` for `lastUpdate`), so
that the state space is finite although time never ends. Heartbeats arrive at any times: what
is shown holds whatever the servers do. `Refresh`, `RefreshNot`, `RefreshDone` and
`RefreshFails` are `Refresh`, which keeps the lock during the GET; `GetRoundRobin` and
`GetOther` (random, no server, unknown mode) are the second half of `Get`; `RLock`, `RLocked`,
`GetAll` and `GetAllFatal` are `GetAll`. The mutex is modelled by the counters of
`sync.RWMutex` (`w`, `readers`, `permits`), because `GetAll` takes the read lock and releases
the write lock: alone it is a fatal error; while a writer waits for it to leave, it releases
that writer's lock and returns, and since the count of readers never returns to zero, every
later writer waits for ever (`LockForever`). `byHand`, `picks` and `waited` are history
variables. Goroutines take any time: the clock waits for nothing but a GET that is due, and
`waited` measures how long a goroutine is on its way from its `Refresh` (discovery_gee.go:65)
to its choice (discovery_gee.go:68).

### Heartbeat

Here the POSTs of `Registry` come from the loop of `Heartbeat`. `beat[s]` says where it is:
in the first POST, waiting for the ticker, in a later POST, or ended by an error. `wire[s]` is
the POST: a request, a reply or nothing; messages take up to `Delay`, fail with an error
(`PostFails`) or vanish (`Lose`; the `http.Client` has no timeout). Servers crash and
start again, the registry restarts. The assumption `Period + 2 * Delay < Timeout` is what
"a minute less than the timeout" (registry.go:100) gives the defaults.

### SingleFlight

One caller calls `Do` once; a call object is named by the caller that leads it. The
critical sections of `Group.mu` are `Join`, `Lead` and `Delete`; `fn` (`FnReturns`,
`FnPanics`), `wg.Done()` and `wg.Wait()` lie between. `before` is a history variable for
`JoinsLive`.

`Flight` says what that is for, without locks: calls lead or board the flight of their key, it
lands once, all on it get its result. `ImplementsFlight` maps the two onto each other: the
flight a caller is on is its own or the one it joined, the map `m` is the flight that can be
boarded, the stored value is the landing. `Done` and the waiting are stuttering steps.

### LRU

`get`, `Replace`, `Insert`, and the eviction loop one removal per step with the mutex held.
A value is its length. An element of the list is its position (`Element`); `MoveToFront` takes it
out and puts it first. `Bytes` is a sum over the list as a recursive function, so that it can
be reasoned about. `since` (the keys used after a key was) and `latest` are history variables,
the reference the list is compared with.

### ConsistentHash and GeeCache

`New`, `Add` and `MapGet` work on a record of the ring and its map; the hash function is a
parameter, so that collisions can be had at will. The two loops of `Add` are written as
one sequence of rounds (peer `x \div replicas`, virtual node `x % replicas`), in which the last
round with a hash owns it, and `sort.Ints` (`SortInts`) by counting: the i-th element of the
sorted slice is the least one that has i elements not above it. `GeeCache` gives every node a ring
(`Set`, with the peers in any order, since `main.go` takes them from a map, or none before
the node has started), a cache that may evict anything at any insertion, and flights:
`Do`, `Reply`, `getLocally` and `Leave` take the steps of `Flight` with the pair of a node and
a key as key. A thread is the call of a user (hop 0) or the handler `ServeHTTP` that a hop of it
has started on another node. `httpGetter.Get` escapes the key for a query, but it travels in
a path: a space arrives as a plus sign (`Wire`), and the peer answers with the value of that
other key. Values are written as their keys, so a wrong value shows. Peers refuse
connections before they have started, and requests fail before or after their handler
started.

### ZConnection

`goroutine` says where reader, writer, starter and worker are. `exitBuf`/`exitClosed` are
`ExitChan`. `Unpack` drops an arbitrary part of what follows the message in the socket, because
its `bufio.Reader` is thrown away (messages sent back to back are lost); if the cut is inside a
message the rest is "junk", which may look like a message, like one that is too large, or ask
for more bytes than there are. `Stop` is four steps (test, set `isClosed`, close the socket,
close the channel), since nothing makes it atomic. `errors` is a history variable: the errors
of `Unpack`, as far as `ExitChan` and its receivers can take them and one more.

### ZMsgHandle

Every access of `SendMsgToTaskQueue` to the unprotected slice is a step: `Look`, `Make`,
`Spawn` (which reads the slot again), `Load` (and again), `Send`. `Conns` are the ids of the
connections that send; they need not be consecutive, since connections come and go.

## 3. Runs

Bounds are the constants of the `.cfg` files.

| run | result | shows |
|---|---|---|
| `client` | holds | three calls, two of them on one channel, one synchronous with a deadline; one argument of each kind; an arbitrary answer, Close and a closing peer: every call is completed exactly once |
| `client_sync` | violated | `Call` waits for a second completion |
| `server` | holds | two requests of every kind under every option, over-read, garbage, hang-up, timeouts: answered once, in whole frames, every request unless one of the named causes occurs, and the connection ends |
| `dial` | holds | two calls of `Dial` with every option, dialling that fails, timers racing `NewClient`: what is returned is open, what fails is released |
| `discovery` | holds | two goroutines, two servers, any heartbeats, restarts of the registry, failing and lost GETs, time passing everywhere: a choice is stale by no more than the goroutine's own wait, fair round robin, no goroutine stuck but by a lost GET or by `GetAll` |
| `heartbeat` | holds | two servers, delayed, failing and lost POSTs, crashes, restarts of the registry: who beats is listed, who is silent is forgotten |
| `xclient` | holds | a caller, a broadcast to any of two servers, `Close`, breaking connections, three dials: no connection leaked, no closed client handed out twice, the first error ends the broadcast unless a call stays unanswered |
| `flight` | holds | three callers, two keys, errors and panics; `SingleFlight` implements `Flight` |
| `lru` | holds | three keys of different lengths, values up to one larger than the cache |
| `geecache` | holds | two nodes, two users, three keys (one unknown to the getter, two that collide on the wire), two hash functions (with collisions inside a node and between nodes), rings that change: right owners, right values, one load at a time, and `Get` returns unless the nodes disagreed |
| `conn` | holds | `ExitChan` is misused only after a handler's `Stop`; a peer that goes ends the connection, unless the reader has met a third error or a handler that does not return blocks it |
| `pool` | holds | three connections on one slot, handlers that need not return: a request is handled unless a handler holds it up or three readers have left its queue without a worker; as long as a connection has the slot to itself it is served in order |

Some properties that hold carry the condition under which the code keeps them, and the
condition is where the code is weak: `CrashNeedsStop` says that a handler which calls `Stop`
can bring the server down (the reader sends on the closed `ExitChan`, or both close it);
`PeerEndEndsConnection` that at its third error, with `Start` gone and the writer gone on a
write error, the reader blocks on `ExitChan` for ever. The end of a stream makes at most two
errors; the others come from oversized packets, but also from ordinary messages that a peer has
sent back to back, which the discarded `bufio.Reader` tears (datapack.go:49; idatapack.go:5
promises to deal with exactly that). And a full queue whose worker is in a handler that does
not return, or blocked in `SendMsg` on a writer that is gone, blocks the reader too.
`OneWorkerPerConn` says that two connections on one slot may get two workers;
`ErrorEndsBroadcast` that "cancel quickly" (xclient.go:110) does not reach a call that is not
answered, because `Client.Call` receives from its channel before it looks at the context
(client.go:252); `FreshWhenChosen` that the list may have aged since it was checked by as long
as another goroutine's GET holds the lock; `GetReturns` that a single `GetAll` makes the
discovery unusable, and that a GET which is never answered blocks every goroutine;
`LeakOnlyOnTimeout` that a timed-out request leaves its goroutine behind. `ClosedCompletes`
needs room in the Done channels: on a channel that is too small `terminateCalls` blocks in
`done()` with both mutexes held (client.go:98), while the goroutine that would drain it may be
waiting in `Go` for one of them; the channels of run `client` have room for their calls.
`SentIsAnswered` names what the server does not survive: a request for an unknown method, whose
body is left on the wire, ends the connection (server.go:141), and one sent so early that the
option's decoder buffers it is lost (server.go:55). `FailureReleases` excepts crashes, because
a server that is down ends the process of its client (client.go:278); `MakerEnds` says that a
connect timeout leaves a goroutine behind, `SilentIsForgotten` that one failed POST is enough
to be forgotten. From `OwnerIsNearest` it follows that nodes with the same peers agree, unless
virtual nodes collide, for which the order of the peers decides; `GetIsRight` allows the value
of the key that arrives on the wire; `GetEnds` and `LoadedOnce` except nodes that have
disagreed about an owner, which may wait for each other inside their flights. `RequestsHandled`
excepts requests held up by a handler that does not return, and queues without a worker on a
slot that three connections have used: the first makes and serves a queue, the second replaces
it, the first sends to the new one, and the third replaces that before the second starts its
worker (msghandler.go:85-86). What was sent to it is never handled, and the run reaches this
state.

Every specification but the abstract `Flight` states a type invariant (`TypeOK`, `LRUTypeOK`,
`DialTypeOK`, `ConnTypeOK`). Each is proved, most as the first conjunct of the inductive
invariant of section 4; the runs but `client` leave it to the proofs. In the same way
`JoinsLive` and `NoEntryLeaks` of `SingleFlight` are proved, and no run repeats what
`ImplementsFlight` implies.

The violated run is a disagreement between the code and what its comments and
tests say; `PROJECT.json` ("findings") quotes the line.

**Why the bounds are enough.** The client's races are between one sender, the receiver and the
closing of the connection; a second call is needed for `sending` and for shared channels, a
third so that one is registered, one being written and one completed. The one answer may be for
a request that was never made; longer streams of answers are covered by the theorems. On the
server two requests make two writers, and a timeout beside a result. Singleflight needs a
leader, a follower and a late caller of one key. In the LRU three keys give a front, a middle
and a back. For discovery a second goroutine makes the lock contended, a second server the
rotation; the clock needs room for both timeouts, a GET and some waiting (the age at which a
list that is just checked would be too old is below `MaxAge`, and `MaxWait` is reached only
where ages have reached theirs, so that ages that stop growing cannot hide a stale choice). On
a connection one message occupies the worker, one the queue, which is then full, and one the
reader; three also make more errors than the reader can report. In the pool three connections
on a slot make every race for a queue: two that lose nothing, three that do; two requests of
each have an order. Slots share nothing, so the run has readers on one of two. Two dialers show
that a crash of one ends the other. In `xclient` three dials give each address a client and one
of them a second one after it broke or was closed. For heartbeats the period, the delay and the
timeout are the smallest that differ. In `geecache` two nodes suffice for rings that differ and
for flights that wait for each other; two hops let a request come back to the node it started
from; eight places on the ring hold two virtual nodes per peer with and without collisions.

**Deadlock** is checked where the system never stops (`lru`, `discovery`, `heartbeat`,
`xclient`). Elsewhere the environment (users, peers) may simply stop, and `CHECK_DEADLOCK
FALSE` says so; the liveness properties cover what must not stop.

**Symmetry** is not used: every passing run also checks liveness.

**Fairness.** Weak fairness for every goroutine of the program: Go's scheduler runs runnable
goroutines. A mutex that is taken and released again and again by others is given to a waiter
in the end (`sync.Mutex` has a starvation mode): strong fairness for the writers of `RpcServer`
and the goroutines of `Discovery`, whose registry answers the GETs that are not lost, and the
goroutines of `XClient` that wait for `xc.mu`. A thread of `GeeCache` takes finitely many
steps, so weak fairness of all threads together runs each to its end. Timers fire; time passes
in `Heartbeat`, and need not in `Discovery`. Methods owe their return only where a module says
so (without a `HandleTimeout`; `fn` of singleflight), zinx handlers owe none, and `Conn.Write`
of zinx only once the socket is closed. No RPC of `XClient` is owed an answer while its
connection is open; `XDial` is assumed to return. Users owe nothing but to receive from the
Done channel they passed, and that only while they are not inside `Go`, since the goroutine
that issues calls on a channel also collects them (`test/rpc_test.go:51-63`). Peers owe
nothing.

## 4. Proofs

The theorems hold for every value of the constants that satisfies the named assumption of
the module: any number of calls, requests, servers, nodes, keys, replicas, connections. The
assumptions say what the code enforces or what its configuration gives: Done channels are
buffered and a synchronous call has its own of capacity 1 (`ClientAssumption`,
`SyncChanAssumption`), nil is none of the values it is compared with (`FlightAssumption`,
`XClientAssumption`), the heartbeat period is less than the timeout by more than two delays
(`HeartbeatAssumption`), a list of peers is not empty since `main.go` passes every address
(`GeeCacheAssumption`), pools and queues have room for at least one (`PoolAssumption`). The run
of each module evaluates them.

Each module follows one pattern. No safety property below is inductive alone, so an inductive
invariant `IInv` is stated as a conjunction of named parts (TLC has checked it on the instance
of the module's run), lemmas show that every action preserves every part it can
disturb, `Inductive` is `Spec => []IInv`, and the theorems follow from `IInv`. Every invariant and
every action property that a run checks is the subject of a theorem. Where a run checks
liveness, the safety half of it is a theorem too, where it has one: what must happen
has happened or somebody who can do it is there (`LosesNothing`, `NothingDropped`,
`StopReleases`).

**RpcClientProofs.** `TypeCorrect` (type invariant), `CompletedOnce`, `NeverLost`,
`ExitComplete`, `ShutdownSilent`, `CallNeedsContext`. None of the first four safety properties
is inductive: that `terminateCalls` completes a call for the first time depends on nobody else
having removed and completed it, and that depends on who holds which lock. `IInv` adds

* `SeqInv`: numbers are handed out once, and `pending` files a call under its number;
* `LockInv`: `sending` is held exactly by the call between registration and the end of
  `send`, or by `terminateCalls`, and `shutdown` is set exactly from there on;
* `PhaseInv`: a call that `send` is about to complete is not in the map;
* `HandOffInv`: nor is the call the receiver holds, and it is not completed;
* `TermInv`: before termination what is in the map is not completed; during it `todo` is
  exactly the registered calls not completed; after it there are none;
* `QueueInv`: a Done channel holds only its own completed calls, so a `Call` in its
  `select` has been completed and its context branch removes nothing live.

Every disjunct of `Next` has a lemma that it preserves `IInv`, with one step per conjunct
it can disturb; `Inductive` combines them. `ShutdownSilent` is an action property:
after shutdown no goroutine is in "write" (`LockInv`). `CallNeedsContext` (`ReturnsByContext`:
`Call` returns only after completion and when its context expires) rests on `IInv` and on
`ReturnInv`: the channel of a `Call` is empty when its `select` begins, and stays so because a
second completion would contradict `NotifiedOnce`.

`DialledIsOpen` and `RefusedIsClosed` are about `RpcDial`. `DialInv` says where a client can be
between its making and its return: while the `select` has not chosen, the connection of a made
client is open, because only `dialTimeout` itself, on its way out with an error, closes it; and
after that close nothing opens it again, so that a `NewClient` the timer has overtaken fails.

**RpcServerProofs.** `AnsweredAtMostOnce`, `AnswersStayWhole`, `CloseIsLast`,
`OnlyTimeoutsLeak`, `LosesNothing`. That a request is answered once rests on nobody else having
a handler for it, and that on the numbers in the stream:

* `WireInv`: the headers still in the stream are in ascending order, above the request the loop
  is reading, and no handler has been started for them;
* `LoopInv`: what the loop is reading or rejecting has no handler and no answer yet; a closed
  connection has no handler at work;
* `HandlerInv`: how far `handleRequest` and its child have come together. They pass the
  rendezvous on `called` jointly or not at all, so either the timeout answers or the child does;
* `MutexInv`, `OutInv`: whoever holds `sending` is between the header and the body of its
  answer, and the last frame of `out` is that header; with the mutex free the frames are even in
  number. From this `FramesPaired` is preserved.

`LosesNothing` adds `LossInv`: as long as there is no `Cause`, headers and bodies alternate in the
stream from where the loop is (`Framed`), and every request sent is on the wire (`OnWire`), the
one being read, or has a handler. With `HandlerInv` a handler that is through has answered.

**XClientProofs.** `MapIsExact`, `FirstErrorWins`. `MapInv`: the map and the clients that are not
closed are the same, each once. `DialInv`: only the goroutine in `XDial` holds `xc.mu`, and there
is no client for its address, so storing the new one never drops another. `BroadcastInv`:
the goroutines of a broadcast exist between its two ends, and `e` is the head of the errors in
the order they were merged.

**HeartbeatProofs.** `NeverLate`. `AgeInv` bounds the age of a registry entry by where its
server's round is: by the time since the POST was sent if the reply is under way, by that and
one delay while the ticker runs, by that, a period and a delay while the next POST travels. The
sum is at most `Period + 2 * Delay`.

**DiscoveryProofs.** `ChosenAreFresh`, `RoundRobinFair`. `LockInv` says what the counters of
the read-write mutex mean in spite of `GetAll`'s wrong unlock: a goroutine in the GET is the
writer, no reader is inside then, and the list is out of date. `FreshInv` carries the ages of
heartbeats from the registry through the answer into the list; when a goroutine's `Refresh`
returns they are below the bound, and from then on they grow no faster than its `waited`, or
the list is replaced by a newer one. That is `FreshWhenChosen` itself, which is inductive
beside the others. `SortInv` and `PicksInv`: the picks since the list changed are the places
before `index`, one behind the other, and fewer than there are servers; a refresh that brings
the same servers brings the same list, since it is sorted. That a finite set of numbers has
exactly one ascending sequence (`CanSort`, `SortedIs`) is proved by least counterexample.

**GeeCacheProofs.** `OwnersAreNearest`, `OnlyOwnValuesCached`, `GetsAreRight`, `OneLoadPerKey`,
`GroupUsesFlight`.

* `RingInv`: the ring of a node is what `Add` makes of some list of peers. `AddMakesRing` shows
  of `Add`: the ring is sorted and has exactly the hashes of the virtual nodes, and each
  belongs to a peer with that hash. It rests on `SortIntsSorts`, a counting argument
  (the elements not above h are at least i for some h, and the least such h grows with i), and on
  arithmetic of rounds (`DivMod`). `RingDistance` and `NearestOwner`: the first hash at or after
  the key, or the first of all, has the least distance going round.
* `CacheInv`: only `getLocally` writes a cache.
* `ThreadInv`, `FlightInv`: a thread in flight leads the only flight of its node and key, whoever
  waits for it is there for the same key, and the handler a thread waits for serves its key as
  it arrived on the wire.
* `ValueInv`: what has landed and what is answered is right for the key.
* `OwnInv`: as long as the nodes agree and nothing failed, a thread loads a key that every
  other node sends to the thread's node. Two loaders of one key are then on one node, in one flight.

`GroupUsesFlight` (`Spec => Loader!Spec`) and `Refinement` below meet in `Flight`: what the group
takes for granted about `g.loader` is what `Group.Do` keeps. It needs `ThreadInv` for the keys and
the types for the results.

About `LRU`: `CounterIsExact`, `ListIsLRU`, `LimitIsKept`, `OldestGoes`, all from
`LRUInductive`. `Bytes` is defined by a recursive function; that there is exactly one function
with its equations (`Sums`, `SumsExist`, `BytesAre`) is shown by least counterexample, and from
that what a push (`BytesPush`) and a removal anywhere in the list (`BytesRemoved`) do to it.
`Ordered` says of any list, set of keys and history what `ListIsRecency` says of the cache's,
by positions: an entry is before another exactly if its key is in the other's `since`. Removing
an entry and pushing one keep it (`RemoveOrdered`, `PushOrdered`), and `MoveToFront` is one
after the other. The loop never meets an empty list (`LoopHasBack`), because the counter is the
size of the list and an empty one is not over the limit.

**ZinxProofs.** `AloneHasOneWorker`, `NothingDropped`, `OnlyHandlersCrash`, `StopReleases`,
`ConnTypeCorrect`. For the pool: `SlotInv` (queues are made once each and no two slots share
one), `ReaderInv` (what a reader has done for its request), `OrderInv` (a queue has the
requests of a connection in order), `AloneInv` (a connection that has had its slot to itself so
far has one queue and at most one worker serves it, even between `Look` and `Spawn`;
`AloneStays`: it was so in every earlier state), `HandledInv` (handled before in work before
queued). `NothingDropped` adds `KeptInv` (what was sent is queued, in work or handled, for all
connections) and `ServedInv` (the queue of a connection alone on its slot has a worker once its
reader has left `Spawn`); readers that share a slot can leave a queue without one, see section
3. For the connection: `StopInv` says that before a handler calls `Stop` the channel `ExitChan`
is closed only by the reader on its way out, which neither sends nor closes again. `ReleaseInv`
follows `Stop` from the inside: whoever set `isClosed` is about to close the socket and then
`ExitChan`, or has, in whatever way the reader's and a handler's `Stop` interleave. The reader
may end with the socket still open, while a handler is between connection.go:108 and :109;
`StopReleases` says that then this handler is there.

**SingleFlightProofs.** `SingleExecution`, `ResultShared`, `JoinsOverlap`, `QuietMapEmpty`, and
`Refinement`: `SingleFlight` implements `Flight`. The invariant: the map holds exactly the
callers between `Lead` and `Delete`, each under its own key (`MapInv`), so that `delete(g.m,
key)` always removes one's own entry; the WaitGroup opens after the result is stored
(`ValInv`); a follower's leader has its key and never was a follower (`JoinInv`). For the
refinement `FreshInv` adds that nothing has landed before `fn` returns; then every action is a
step of `Flight` or leaves its variables alone (`FlightStep`).

**Induction over data.** The library's induction theorems take an operator and cannot be
instantiated here. Where a proof needs induction over numbers or over finite sets it takes a
least counterexample instead (`NatMin`, from `WFMin` of `WellFoundedInduction`).

**Only model-checked.** The liveness properties (`AddEnds`, `GetReturns`, `ClosedCompletes`,
`RequestsHandled`, `PeerEndEndsConnection` and the others): they need fairness and ENABLED,
which the prover does not handle.

## 5. Not modelled

* The gob, JSON and protobuf encodings, and the byte layout of zinx packets
  (`encoding/binary` in both directions); generated protobuf code.
* HTTP plumbing (`ServeHTTP` and `HandleHTTP` of the RPC server, `debug.go`) and the
  responses to a GET that are not the registry's: they carry no list, and `Refresh` takes them
  for the empty list that a registry which has just restarted sends.
* `Register` and `registerMethods`: sequential reflection on types before the first
  connection. What it lets in is `MethodKinds` of `RpcServer`; a method whose reply is no
  pointer panics on its first request (`NewReplyvPanics`).
* `XDial` is called by `xclient.go` and defined nowhere in the repository.
* Reading configuration, listening, accessors, interfaces, demos.
* In `LRU` the eviction callback (`cache.go` passes nil) and a negative limit. In
  `GeeCache` several groups on one node, and getters that panic (see `SingleFlight`).
* Concurrent writes to `req.h.Error` by two goroutines do not occur: the child writes it only
  after `called` is received.

## 6. Plan

What the project does not have yet: `RpcSession`, the composition of `RpcClient` and `RpcServer` on
one stream, with the property that a call which completes without error got the reply to its own
request, and an abstract RPC (issue, execute at most once, complete once) that it implements. On
the two sides this is `NotifiedOnce` and `AnsweredOnce`; what is missing is that the peer of each
is the other.
