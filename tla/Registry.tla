------------------------------ MODULE Registry ------------------------------
(***************************************************************************)
(* The registry of geerpc (registry/registry.go) on a discrete clock: a    *)
(* map from addresses to the time of their last heartbeat, under a mutex.  *)
(* Heartbeats arrive whenever servers, the network and crashes let them.   *)
(*                                                                         *)
(* An instant is kept as the time that has passed since: an age of 0 is    *)
(* time.Now().  Ages stop growing at a bound above every value they are    *)
(* compared with, so that time can go on for ever.                         *)
(***************************************************************************)
EXTENDS Integers, FiniteSets, Sequences, SequencesExt

CONSTANTS
    Servers,   \* the addresses, numbered from 1 in their order as strings
    Timeout,   \* r.timeout; 0 means that servers do not expire
    MaxAge     \* bound on ages

ASSUME RegistryAssumption ==
    /\ Servers \subseteq Nat \ {0}
    /\ Timeout \in Nat /\ MaxAge \in Nat
    /\ Timeout < MaxAge

VARIABLES
    servers,   \* the keys of r.servers
    age        \* age[s]: time since the last putServer(s)

registryVars == <<servers, age>>

RegistryInit ==
    /\ servers = {}
    /\ age = [s \in Servers |-> MaxAge]

\* Faulty variant: a server that is known keeps its old start.
putServerOnce(s) ==
    /\ servers' = servers \cup {s}
    /\ age' = IF s \in servers THEN age ELSE [age EXCEPT ![s] = 0]

\* Faulty variant: a server that is not known is not added.
putServerKnown(s) ==
    /\ age' = [age EXCEPT ![s] = 0]
    /\ UNCHANGED servers

\* A server that is not known is added, one that is known gets a new start.
putServer(s) ==
    /\ servers' = servers \cup {s}
    /\ age' = [age EXCEPT ![s] = 0]

\* Faulty variant: the test of the timeout is left out.
AliveAlways == servers

\* start.Add(timeout).After(time.Now())
Alive == {s \in servers : Timeout = 0 \/ age[s] < Timeout}

\* Faulty variant: the latest heartbeat comes first.
SortedByAge(S) == SetToSortSeq(S, LAMBDA a, b : age[a] < age[b])

\* sort.Strings
Sorted(S) ==
    CHOOSE q \in [1..Cardinality(S) -> S] :
        \A i, j \in 1..Cardinality(S) : i < j => q[i] < q[j]

\* aliveServers: expired servers are deleted; the rest is the answer, in order.
aliveServers == Sorted(Alive)
Expire == servers' = Alive /\ UNCHANGED age

\* The POST of a heartbeat arrives; one without an address is refused.
ServePost(s) == putServer(s)

\* The GET of some client arrives.
ServeOther == Expire

\* The registry starts again, with an empty map.
Restart == servers' = {} /\ UNCHANGED age

Older(t, bound) == IF t < bound THEN t + 1 ELSE t

RegistryTick ==
    /\ age' = [s \in Servers |-> Older(age[s], MaxAge)]
    /\ UNCHANGED servers

RegistryNext ==
    \/ \E s \in Servers : ServePost(s)
    \/ ServeOther
    \/ Restart

RegistryTypeOK ==
    /\ servers \subseteq Servers
    /\ age \in [Servers -> 0..MaxAge]
=============================================================================
