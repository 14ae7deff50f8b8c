------------------------------ MODULE XClient ------------------------------
(***************************************************************************)
(* The load-balancing client (src/geerpc/xclient/xclient.go): one client   *)
(* per address in a map under xc.mu, Call, Broadcast with its cancellation *)
(* and Close.                                                              *)
(*                                                                         *)
(* A geerpc.Client is what its users can tell: open, broken (its receive   *)
(* goroutine has ended, the connection is not closed) or closed.           *)
(* Client.Call is what RpcClient shows of it: it returns when the call has *)
(* been completed, by an answer or by the end of the client, and the       *)
(* context is done; what it returns is then always an error, so that the   *)
(* branch of Broadcast that stores a reply is never taken.  XDial, which   *)
(* the repository does not define, makes a client or fails.                *)
(***************************************************************************)
EXTENDS Naturals, FiniteSets, Sequences

CONSTANTS
    Addrs,    \* the addresses of servers
    Callers,  \* the goroutines that use Call, once each
    MaxDials, \* bound: clients ever made
    None

ASSUME XClientAssumption ==
    /\ MaxDials \in Nat /\ Addrs \cap Callers = {}
    /\ None \notin Addrs \cup Callers \cup (1..MaxDials)
    /\ None \notin {"discovery", "dial", "context"}

Clients == 1..MaxDials

\* The goroutines of Broadcast are named by their address.
Threads == Callers \cup Addrs

VARIABLES
    clients,  \* xc.clients
    state,    \* state[c]: what has become of client c
    mu,       \* who holds xc.mu while XDial works
    pc, addr, \* a goroutine in call(addr, ...)
    client,   \* client[t]: what dial gave it
    err,      \* err[t]: what call returned
    done,     \* done[t]: the context of a caller is done
    bpc,      \* Broadcast
    e,        \* the error Broadcast returns
    cancelled,\* the context of Broadcast is done
    errors    \* history: the errors of its goroutines in order

mapVars == <<clients, state, mu>>
callVars == <<pc, addr, client, err>>
bcastVars == <<bpc, e, cancelled, errors>>
vars == <<mapVars, callVars, bcastVars, done>>

Init ==
    /\ clients = [a \in Addrs |-> None]
    /\ state = [c \in Clients |-> "none"]
    /\ mu = None
    /\ pc = [t \in Threads |-> "idle"]
    /\ addr = [t \in Threads |-> None]
    /\ client = [t \in Threads |-> None]
    /\ err = [t \in Threads |-> None]
    /\ done = [t \in Callers |-> FALSE]
    /\ bpc = "idle" /\ e = None /\ cancelled = FALSE /\ errors = <<>>

Step(t, from, to) == pc[t] = from /\ pc' = [pc EXCEPT ![t] = to]
-----------------------------------------------------------------------------
(* Call, call and dial                                                     *)

\* Call: the discovery chooses an address, or has none to offer.
Call(t) ==
    /\ \/ Step(t, "idle", "dial")
          /\ \E a \in Addrs : addr' = [addr EXCEPT ![t] = a]
          /\ UNCHANGED err
       \/ Step(t, "idle", "returned")
          /\ err' = [err EXCEPT ![t] = "discovery"]
          /\ UNCHANGED addr
    /\ UNCHANGED <<mapVars, bcastVars, client, done>>

\* dial finds a client: one that is not available is closed and taken out of
\* the map, and returned all the same.
DialKnown(t) ==
    LET c == clients[addr[t]] IN
    /\ mu = None
    /\ Step(t, "dial", "call") /\ c # None
    /\ client' = [client EXCEPT ![t] = c]
    /\ IF state[c] = "open" THEN UNCHANGED <<clients, state>>
       ELSE /\ state' = [state EXCEPT ![c] = "closed"]
            /\ clients' = [clients EXCEPT ![addr[t]] = None]
    /\ UNCHANGED <<mu, bcastVars, done, addr, err>>

\* Faulty variant: xc.mu is not held, and Close may come in between.
DialNewUnlocked(t) ==
    /\ mu = None
    /\ Step(t, "dial", "xdial") /\ clients[addr[t]] = None
    /\ UNCHANGED <<mapVars, bcastVars, done, addr, client, err>>

\* dial finds none: XDial, with xc.mu held.
DialNew(t) ==
    /\ mu = None
    /\ Step(t, "dial", "xdial") /\ clients[addr[t]] = None
    /\ mu' = t
    /\ UNCHANGED <<clients, state, bcastVars, done, addr, client, err>>

\* XDial succeeds: the client is registered and returned.
XDial(t) ==
    /\ Step(t, "xdial", "call")
    /\ \E c \in Clients :
        /\ state[c] = "none" /\ \A b \in 1..c - 1 : state[b] # "none"
        /\ state' = [state EXCEPT ![c] = "open"]
        /\ clients' = [clients EXCEPT ![addr[t]] = c]
        /\ client' = [client EXCEPT ![t] = c]
    /\ mu' = None
    /\ UNCHANGED <<bcastVars, done, addr, err>>

\* XDial fails, and so does call.
XDialFails(t) ==
    /\ Step(t, "xdial", "returned")
    /\ err' = [err EXCEPT ![t] = "dial"]
    /\ mu' = None
    /\ UNCHANGED <<clients, state, bcastVars, done, addr, client>>

\* The call is completed: by the server, or because its client has ended.
Completed(t) ==
    /\ Step(t, "call", "completed")
    /\ UNCHANGED <<mapVars, bcastVars, done, addr, client, err>>

\* The second receive of Client.Call ends with the context.
CallReturns(t) ==
    /\ IF t \in Callers THEN done[t] ELSE cancelled
    /\ Step(t, "completed", "returned")
    /\ err' = [err EXCEPT ![t] = "context"]
    /\ UNCHANGED <<mapVars, bcastVars, done, addr, client>>
-----------------------------------------------------------------------------
(* Broadcast                                                               *)

\* GetAll gives the servers, or fails; one goroutine for each is started.
Broadcast ==
    /\ bpc = "idle"
    /\ \/ \E servers \in SUBSET Addrs :
            /\ pc' = [t \in Threads |->
                          IF t \in servers THEN "dial" ELSE pc[t]]
            /\ addr' = [t \in Threads |->
                          IF t \in servers THEN t ELSE addr[t]]
            /\ bpc' = "wait" /\ UNCHANGED e
       \/ bpc' = "returned" /\ e' = "discovery" /\ UNCHANGED <<pc, addr>>
    /\ UNCHANGED <<mapVars, done, cancelled, errors, client, err>>

\* Faulty variant: an error does not cancel the other calls.
MergeQuietly(a) ==
    /\ Step(a, "returned", "done")
    /\ errors' = Append(errors, err[a])
    /\ e' = IF e = None THEN err[a] ELSE e
    /\ UNCHANGED <<mapVars, done, bpc, cancelled, addr, client, err>>

\* The goroutine of a has its error: the first is kept and cancels the rest.
Merge(a) ==
    /\ Step(a, "returned", "done")
    /\ errors' = Append(errors, err[a])
    /\ IF e = None THEN e' = err[a] /\ cancelled' = TRUE
       ELSE UNCHANGED <<e, cancelled>>
    /\ UNCHANGED <<mapVars, done, bpc, addr, client, err>>

\* Faulty variant: wg.Add is called by the goroutines themselves, and Wait
\* may find the counter at zero before they do.
BroadcastReturnsEarly ==
    /\ bpc = "wait" /\ bpc' = "returned"
    /\ \A a \in Addrs : pc[a] \in {"idle", "dial", "done"}
    /\ cancelled' = TRUE
    /\ UNCHANGED <<mapVars, callVars, done, e, errors>>

\* wg.Wait(), cancel() and return e.
BroadcastReturns ==
    /\ bpc = "wait" /\ bpc' = "returned"
    /\ \A a \in Addrs : pc[a] \in {"idle", "done"}
    /\ cancelled' = TRUE
    /\ UNCHANGED <<mapVars, callVars, done, e, errors>>
-----------------------------------------------------------------------------

\* Close: every client of the map is closed and deleted.  Calls may follow,
\* and dial again.
Close ==
    /\ mu = None
    /\ state' = [c \in Clients |->
                     IF \E a \in Addrs : clients[a] = c THEN "closed"
                     ELSE state[c]]
    /\ clients' = [a \in Addrs |-> None]
    /\ UNCHANGED <<mu, callVars, bcastVars, done>>

\* The connection of a client breaks.
Break(c) ==
    /\ state[c] = "open"
    /\ state' = [state EXCEPT ![c] = "broken"]
    /\ UNCHANGED <<clients, mu, callVars, bcastVars, done>>

\* The context of a caller, or the one given to Broadcast, is done.
ContextDone(t) ==
    /\ ~ done[t]
    /\ done' = [done EXCEPT ![t] = TRUE]
    /\ UNCHANGED <<mapVars, callVars, bcastVars>>

BroadcastContextDone ==
    /\ bpc = "wait" /\ ~ cancelled
    /\ cancelled' = TRUE
    /\ UNCHANGED <<mapVars, callVars, done, bpc, e, errors>>

Goroutine(t) ==
    \/ DialKnown(t) \/ DialNew(t) \/ XDial(t) \/ XDialFails(t)
    \/ Completed(t) \/ CallReturns(t)

Next ==
    \/ \E t \in Threads : Goroutine(t)
    \/ \E t \in Callers : Call(t) \/ ContextDone(t)
    \/ \E a \in Addrs : Merge(a)
    \/ Broadcast \/ BroadcastReturns \/ BroadcastContextDone
    \/ Close
    \/ \E c \in Clients : Break(c)

Spec == Init /\ [][Next]_vars

\* A call that its server owes an answer: Client.Call waits for the first
\* completion without a look at the context (client.go:252).
Unanswered(t) == pc[t] = "call" /\ state[client[t]] = "open"

\* Goroutines run, xc.mu is granted to everyone who waits for it and XDial
\* returns.  No server owes an answer: the calls of a client that has ended
\* are completed (terminateCalls), those of an open one need not be.
\* Contexts need not end.
Fairness ==
    /\ \A t \in Threads : /\ SF_vars(DialKnown(t) \/ DialNew(t))
                          /\ WF_vars(XDial(t) \/ XDialFails(t))
                          /\ WF_vars(~ Unanswered(t) /\ Completed(t))
                          /\ WF_vars(CallReturns(t))
    /\ \A a \in Addrs : WF_vars(Merge(a))
    /\ WF_vars(BroadcastReturns)

FairSpec == Spec /\ Fairness
-----------------------------------------------------------------------------
(* Properties                                                              *)

\* Types of the variables.
TypeOK ==
    /\ clients \in [Addrs -> Clients \cup {None}]
    /\ state \in [Clients -> {"none", "open", "broken", "closed"}]
    /\ mu \in Threads \cup {None}
    /\ pc \in [Threads -> {"idle", "dial", "xdial", "call", "completed",
                           "returned", "done"}]
    /\ addr \in [Threads -> Addrs \cup {None}]
    /\ client \in [Threads -> Clients \cup {None}]
    /\ err \in [Threads -> {None, "discovery", "dial", "context"}]
    /\ done \in [Callers -> BOOLEAN] /\ cancelled \in BOOLEAN
    /\ bpc \in {"idle", "wait", "returned"}
    /\ e \in {None, "discovery", "dial", "context"}
    /\ errors \in Seq({"dial", "context"})

\* The map holds exactly the clients that are not closed, each under one
\* address, although calls, broadcasts and Close race for it: the next dial
\* or Close finds every connection, none is leaked and no address has two.
\* A closed client is not found again: dial hands out a stale one at most
\* once (xclient.go:45), and the next call gets a fresh connection.
CachedIsUnclosed ==
    \A c \in Clients :
        Cardinality({a \in Addrs : clients[a] = c}) =
            IF state[c] \in {"open", "broken"} THEN 1 ELSE 0

\* Broadcast returns the first error of its goroutines, after all of them
\* have ended: none is left that would use the context or the reply.
BroadcastKeepsFirst ==
    bpc = "returned" /\ e # "discovery" =>
        /\ \A a \in Addrs : pc[a] \in {"idle", "done"}
        /\ e = IF errors = <<>> THEN None ELSE Head(errors)

\* "An error occurred: cancel quickly" (xclient.go:110).  After the first
\* error Broadcast returns: the cancellation reaches every call that waits
\* for its context, also one that is completed later.  The exception is a
\* call that is never answered on a client that stays open: cancel() does
\* not interrupt the first receive of Client.Call (client.go:252), and
\* Broadcast hangs with it.
ErrorEndsBroadcast ==
    e # None ~> \/ bpc = "returned"
                \/ \E a \in Addrs : []Unanswered(a)
=============================================================================
