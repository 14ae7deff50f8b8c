------------------------------ MODULE Discovery ------------------------------
(***************************************************************************)
(* The service discovery of a geerpc client (xclient/discovery.go and      *)
(* discovery_gee.go) with the registry it asks.  Several goroutines of one *)
(* process share a GeeRegistryDiscovery: Refresh holds its RWMutex during  *)
(* the HTTP request, and Get takes the mutex a second time to choose.      *)
(*                                                                         *)
(* GetAll takes the read lock and releases the write lock.  What that does *)
(* depends on the counters of sync.RWMutex, so these are modelled: a       *)
(* writer takes w and announces itself, a reader that finds a writer       *)
(* announced waits for a permit, and the Unlock of GetAll, with nobody     *)
(* announced, brings the process down.  Time passes wherever goroutines    *)
(* are, also between Refresh and the choice of Get.                        *)
(***************************************************************************)
EXTENDS Registry

CONSTANTS
    Callers,       \* goroutines that use the discovery
    UpdateTimeout, \* d.timeout
    GetDelay,      \* the longest from a GET to the new list, unless it is lost
    Lists,         \* lists a user may set with Update
    Indices,       \* initial values of d.index
    MaxReaders,    \* bound on readers that GetAll has counted
    MaxWait,       \* bound on waited, where ages have reached theirs
    NoCaller

ASSUME DiscoveryAssumption ==
    /\ UpdateTimeout \in Nat \ {0} /\ GetDelay \in Nat 
    /\ MaxReaders \in Nat /\ MaxWait \in Nat
    /\ MaxAge + 2 <= Timeout + UpdateTimeout + GetDelay + MaxWait
    /\ Lists \subseteq Seq(Servers)
    /\ Indices \subseteq Nat
    /\ NoCaller \notin Callers

VARIABLES
    list,     \* d.servers
    updated,  \* time since d.lastUpdate
    index,    \* d.index
    pc,       \* pc[c]: where a goroutine is
    waited,   \* history: time since c's Refresh has returned, until it chooses
    w,        \* the writer that has d.mu, or waits for its readers to leave
    readers,  \* d.mu: readers counted, never discounted
    permits,  \* d.mu: permits for readers that wait
    get,      \* the GET of Refresh: "no", "request", "reply" or "lost"
    getAge,   \* time since it was sent
    answer,   \* its answer
    byHand,   \* history: the list was set by Update
    picks     \* history: the latest round-robin choices from these servers

listVars == <<list, updated, byHand>>
lockVars == <<w, readers, permits>>
getVars == <<get, getAge, answer>>
choiceVars == <<index, picks>>
pcVars == <<pc, waited>>
discoveryVars == <<listVars, choiceVars, pcVars, lockVars, getVars>>
vars == <<registryVars, discoveryVars>>

Init ==
    /\ RegistryInit
    /\ list = <<>>
    /\ updated = UpdateTimeout
    /\ index \in Indices
    /\ pc = [c \in Callers |-> "idle"]
    /\ waited = [c \in Callers |-> 0]
    /\ w = NoCaller
    /\ readers = 0
    /\ permits = 0
    /\ get = "no"
    /\ getAge = 0
    /\ answer = <<>>
    /\ byHand = FALSE
    /\ picks = <<>>
-----------------------------------------------------------------------------
(* sync.RWMutex                                                            *)

\* mu.Lock() that succeeds.
Lock(c) ==
    /\ w = NoCaller /\ readers = 0
    /\ w' = c
    /\ UNCHANGED <<readers, permits>>

\* mu.Lock(), a few lines and mu.Unlock().
Locked == w = NoCaller /\ readers = 0 /\ UNCHANGED lockVars

\* mu.Unlock(): the readers that wait get their permits.
Unlock ==
    /\ w' = NoCaller
    /\ permits' = permits + readers
    /\ UNCHANGED readers

Goto(c, from, to) ==
    /\ pc[c] = from
    /\ pc' = [pc EXCEPT ![c] = to]
    /\ waited' = [waited EXCEPT ![c] = 0]

\* After a read lock was taken the count of readers never comes back to zero,
\* and whoever asks for the write lock waits for ever.
LockForever(c) ==
    /\ \E from \in {"refresh", "refreshAll", "choose", "update"} :
          Goto(c, from, "stuck")
    /\ w = NoCaller /\ readers > 0
    /\ w' = c
    /\ UNCHANGED <<readers, permits, listVars, choiceVars, getVars>>
-----------------------------------------------------------------------------
(* GeeRegistryDiscovery                                                    *)

\* A goroutine enters Get, GetAll or Update.
Enter(c) ==
    /\ \/ Goto(c, "idle", "refresh")
       \/ Goto(c, "idle", "refreshAll") /\ readers < MaxReaders
       \/ Goto(c, "idle", "update")
    /\ UNCHANGED <<listVars, choiceVars, lockVars, getVars>>

\* Refresh finds the list new enough.
RefreshNot(c) ==
    /\ Locked
    /\ updated < UpdateTimeout
    /\ Goto(c, "refresh", "choose") \/ Goto(c, "refreshAll", "rlock")
    /\ UNCHANGED <<listVars, choiceVars, getVars>>

\* Faulty variant: lastUpdate is set before the request, which may fail.
RefreshStamped(c) ==
    /\ Lock(c)
    /\ updated >= UpdateTimeout
    /\ Goto(c, "refresh", "fetch") \/ Goto(c, "refreshAll", "fetchAll")
    /\ updated' = 0
    /\ get' = "request"
    /\ getAge' = 0
    /\ UNCHANGED <<answer, list, byHand, choiceVars>>

\* Refresh asks the registry, and keeps the lock.
Refresh(c) ==
    /\ Lock(c)
    /\ updated >= UpdateTimeout
    /\ Goto(c, "refresh", "fetch") \/ Goto(c, "refreshAll", "fetchAll")
    /\ get' = "request"
    /\ getAge' = 0
    /\ UNCHANGED <<answer, listVars, choiceVars>>

\* Nothing of the GET is left.
GetOver(as) == get' = as /\ getAge' = 0 /\ answer' = <<>>

\* The list changes; the history of choices is about one set of servers in
\* one order.
SetList(new, hand) ==
    /\ list' = new
    /\ updated' = 0
    /\ byHand' = hand
    /\ picks' = IF ToSet(new) = ToSet(list) /\ ~byHand /\ ~hand
                THEN picks ELSE <<>>

\* Refresh takes the answer over.
RefreshDone(c) ==
    /\ w = c /\ get = "reply"
    /\ Goto(c, "fetch", "choose") \/ Goto(c, "fetchAll", "rlock")
    /\ SetList(answer, FALSE)
    /\ GetOver("no")
    /\ Unlock
    /\ UNCHANGED index

\* Faulty variant: the error path does not unlock.
RefreshFailsLocked(c) ==
    /\ w = c /\ get \in {"request", "reply"}
    /\ Goto(c, "fetch", "idle") \/ Goto(c, "fetchAll", "idle")
    /\ GetOver("no")
    /\ UNCHANGED <<listVars, choiceVars, lockVars>>

\* http.Get returns an error, and so does the caller's Get or GetAll.
RefreshFails(c) ==
    /\ w = c /\ get \in {"request", "reply"}
    /\ Goto(c, "fetch", "idle") \/ Goto(c, "fetchAll", "idle")
    /\ GetOver("no")
    /\ Unlock
    /\ UNCHANGED <<listVars, choiceVars>>

\* The list is replaced by the user's.
Update(c) ==
    /\ Locked
    /\ Goto(c, "update", "idle")
    /\ \E new \in Lists : SetList(new, TRUE)
    /\ UNCHANGED <<index, getVars>>
-----------------------------------------------------------------------------
(* MultiServersDiscovery                                                   *)

\* d.servers[d.index % n]
Choice == list[(index % Len(list)) + 1]

\* All but one turn's worth of choices is forgotten.
LastPicks(q) == SubSeq(q, IF Len(q) < Len(list) THEN 1 ELSE 2, Len(q))

\* Get with RoundRobinSelect.
GetRoundRobin(c) ==
    /\ Locked
    /\ list # <<>>
    /\ Goto(c, "choose", "idle")
    /\ index' = (index + 1) % Len(list)
    /\ picks' = LastPicks(Append(picks, Choice))
    /\ UNCHANGED <<listVars, getVars>>

\* Get with RandomSelect, or with an error: no server, or no such mode.
GetOther(c) ==
    /\ Locked
    /\ Goto(c, "choose", "idle")
    /\ UNCHANGED <<listVars, choiceVars, getVars>>

\* GetAll's mu.RLock(): with a writer announced it waits for a permit.
RLock(c) ==
    /\ Goto(c, "rlock", IF w = NoCaller THEN "copy" ELSE "rwait")
    /\ readers' = readers + 1
    /\ UNCHANGED <<w, permits, listVars, choiceVars, getVars>>

RLocked(c) ==
    /\ permits > 0
    /\ Goto(c, "rwait", "copy")
    /\ permits' = permits - 1
    /\ UNCHANGED <<w, readers, listVars, choiceVars, getVars>>

\* The list is copied, and the deferred mu.Unlock() releases the lock of the
\* writer that waits for this reader to leave.
GetAll(c) ==
    /\ w # NoCaller
    /\ Goto(c, "copy", "idle")
    /\ Unlock
    /\ UNCHANGED <<listVars, choiceVars, getVars>>

\* Without such a writer: "fatal error: sync: Unlock of unlocked RWMutex".
GetAllFatal(c) ==
    /\ w = NoCaller /\ pc[c] = "copy"
    /\ pc' = [d \in Callers |-> "dead"]
    /\ waited' = [d \in Callers |-> 0]
    /\ UNCHANGED <<lockVars, listVars, choiceVars, getVars>>
-----------------------------------------------------------------------------
(* The GET between the two, and time                                       *)

ServeGet ==
    /\ get = "request"
    /\ get' = "reply"
    /\ answer' = aliveServers
    /\ Expire
    /\ UNCHANGED <<listVars, choiceVars, pcVars, lockVars, getAge>>

\* A message is lost without an error; http.Get has no timeout.
LoseGet ==
    /\ get \in {"request", "reply"}
    /\ GetOver("lost")
    /\ UNCHANGED <<listVars, choiceVars, pcVars, lockVars>>

\* A GET that is under way is over in time; nothing else holds the clock.
Tick ==
    /\ RegistryTick
    /\ IF get \in {"request", "reply"}
       THEN getAge < GetDelay /\ getAge' = getAge + 1
       ELSE UNCHANGED getAge
    /\ updated' = Older(updated, UpdateTimeout)
    /\ waited' = [c \in Callers |-> IF pc[c] = "choose"
                                   THEN Older(waited[c], MaxWait) ELSE 0]
    /\ UNCHANGED <<list, byHand, choiceVars, pc, lockVars, get, answer>>

Caller(c) ==
    \/ RefreshNot(c) \/ Refresh(c) \/ RefreshDone(c)
    \/ Update(c) \/ GetRoundRobin(c) \/ GetOther(c)
    \/ RLock(c) \/ RLocked(c) \/ GetAll(c) \/ GetAllFatal(c)
    \/ LockForever(c)

Next ==
    \/ RegistryNext /\ UNCHANGED discoveryVars
    \/ /\ \/ \E c \in Callers : Enter(c) \/ Caller(c) \/ RefreshFails(c)
          \/ LoseGet
       /\ UNCHANGED registryVars
    \/ ServeGet
    \/ Tick

Spec == Init /\ [][Next]_vars

\* The network delivers what it does not lose; goroutines run, at their own
\* pace, and sync.RWMutex lets nobody starve.
Fairness ==
    /\ WF_vars(ServeGet)
    /\ \A c \in Callers :
          SF_vars(Caller(c) /\ UNCHANGED registryVars)

FairSpec == Spec /\ Fairness
-----------------------------------------------------------------------------
(* Properties                                                              *)

PCs == {"idle", "refresh", "refreshAll", "fetch", "fetchAll", "choose",
        "update", "rlock", "rwait", "copy", "stuck", "dead"}

\* Types of the variables; nobody holds the mutex but to refresh or to wait.
TypeOK ==
    /\ RegistryTypeOK
    /\ list \in Seq(Servers) /\ answer \in Seq(Servers)
    /\ updated \in 0..UpdateTimeout /\ getAge \in 0..GetDelay
    /\ index \in Nat
    /\ pc \in [Callers -> PCs]
    /\ waited \in [Callers -> 0..MaxWait]
    /\ w \in Callers \cup {NoCaller}
    /\ w # NoCaller => pc[w] \in {"fetch", "fetchAll", "stuck", "dead"}
    /\ readers \in Nat /\ permits \in Nat
    /\ get \in {"no", "request", "reply", "lost"}
    /\ byHand \in BOOLEAN
    /\ picks \in Seq(Servers)

\* Get chooses among servers that were fresh when its Refresh returned: their
\* last heartbeat was then younger than the two timeouts and a GET together.
\* Since then they have aged by the time the goroutine has waited to choose,
\* and no more, however the refreshes of others succeed, fail, hang and replace
\* the list between its check of lastUpdate and its choice.
FreshWhenChosen ==
    \A c \in Callers :
        pc[c] = "choose" /\ ~byHand /\ Timeout # 0 =>
            \A s \in ToSet(list) :
                age[s] + 2 <= Timeout + UpdateTimeout + GetDelay + waited[c]

\* As long as refreshes find the same servers, round robin chooses each of
\* them once before it comes back to the first, whatever was chosen, and by
\* whomever, in between; also from a list a user has set, unless that has a
\* server twice.
RoundRobinIsFair ==
    list # <<>> /\ IsInjective(list) => Choice \notin ToSet(picks)

\* A Get comes to an end: only a GET that is never answered, or some
\* goroutine's GetAll, keeps it from returning.
GetReturns ==
    \A c \in Callers :
        pc[c] \in {"refresh", "fetch", "choose"} ~>
            (pc[c] \in {"idle", "dead"} \/ get = "lost" \/ readers > 0)
=============================================================================
