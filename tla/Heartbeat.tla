------------------------------ MODULE Heartbeat ------------------------------
(***************************************************************************)
(* The heartbeats that keep servers in the registry (registry/registry.go, *)
(* Heartbeat and sendHeartbeat), together with the Registry they go to.    *)
(* POSTs fail, get lost or take time; servers crash and start again; the   *)
(* registry restarts with an empty map.                                    *)
(***************************************************************************)
EXTENDS Registry

CONSTANTS
    Period,    \* the period of the heartbeats
    Delay      \* the longest a POST takes, unless it is lost

\* The default period of 4 and timeout of 5 minutes leave a minute for the two
\* round trips that may lie between the first heartbeat and the second.
ASSUME HeartbeatAssumption ==
    /\ Period \in Nat /\ Delay \in Nat /\ Delay < Period
    /\ Timeout = 0 \/ Period + 2 * Delay < Timeout

VARIABLES
    beat,      \* beat[s]: where Heartbeat, or its goroutine, is
    wire,      \* wire[s]: the POST of s: "no", "request" or "reply"
    elapsed    \* elapsed[s]: time since s last sent, or made its ticker

vars == <<registryVars, beat, wire, elapsed>>

Beats == {"off", "first", "wait", "posting", "ended"}

Init ==
    /\ RegistryInit
    /\ beat = [s \in Servers |-> "off"]
    /\ wire = [s \in Servers |-> "no"]
    /\ elapsed = [s \in Servers |-> 0]

\* sendHeartbeat: the POST is sent.
sendHeartbeat(s, next) ==
    /\ beat' = [beat EXCEPT ![s] = next]
    /\ wire' = [wire EXCEPT ![s] = "request"]
    /\ elapsed' = [elapsed EXCEPT ![s] = 0]
    /\ UNCHANGED registryVars

\* A server starts, for the first time or after a crash: its first POST.
\* (A POST of before the crash has arrived by then, or is lost.)
Heartbeat(s) ==
    /\ beat[s] = "off" /\ wire[s] = "no"
    /\ sendHeartbeat(s, "first")

\* <-t.C, and the next POST.
TickerFires(s) ==
    /\ beat[s] = "wait" /\ elapsed[s] = Period
    /\ sendHeartbeat(s, "posting")

\* The registry gets the POST; the server may have given it up.
PostArrives(s) ==
    /\ wire[s] = "request"
    /\ ServePost(s)
    /\ wire' = [wire EXCEPT ![s] =
                    IF beat[s] \in {"first", "posting"} THEN "reply" ELSE "no"]
    /\ UNCHANGED <<beat, elapsed>>

\* The POST is answered, with whatever status; the ticker is made after the
\* first answer.
Answered(s) ==
    /\ beat[s] \in {"first", "posting"} /\ wire[s] = "reply"
    /\ beat' = [beat EXCEPT ![s] = "wait"]
    /\ wire' = [wire EXCEPT ![s] = "no"]
    /\ elapsed' = [elapsed EXCEPT ![s] = IF beat[s] = "first" THEN 0 ELSE @]
    /\ UNCHANGED registryVars

\* The server no longer waits for an answer; its request may still arrive.
Abandon(s, next) ==
    /\ beat' = [beat EXCEPT ![s] = next]
    /\ wire' = [wire EXCEPT ![s] = IF @ = "request" THEN @ ELSE "no"]
    /\ UNCHANGED <<registryVars, elapsed>>

\* httpClient.Do returns an error, which ends the loop.
PostFails(s) ==
    /\ beat[s] \in {"first", "posting"} /\ wire[s] # "no"
    /\ Abandon(s, "ended")

Crash(s) == beat[s] # "off" /\ Abandon(s, "off")

\* A message is lost without an error: the http.Client has no timeout, and
\* Do never returns.
Lose(s) ==
    /\ wire[s] # "no"
    /\ wire' = [wire EXCEPT ![s] = "no"]
    /\ UNCHANGED <<registryVars, beat, elapsed>>

\* Time passes, unless a POST is in its last moment or a ticker has to fire.
Tick ==
    /\ \A s \in Servers :
        /\ wire[s] # "no" => elapsed[s] < Delay
        /\ beat[s] = "wait" => elapsed[s] < Period
    /\ RegistryTick
    /\ elapsed' = [s \in Servers |-> Older(elapsed[s], Period)]
    /\ UNCHANGED <<beat, wire>>

Next ==
    \/ \E s \in Servers :
        \/ Heartbeat(s) \/ TickerFires(s) \/ PostArrives(s) \/ Answered(s)
        \/ PostFails(s) \/ Crash(s) \/ Lose(s)
    \/ (ServeOther \/ Restart) /\ UNCHANGED <<beat, wire, elapsed>>
    \/ Tick

Spec == Init /\ [][Next]_vars

\* Goroutines run, messages that are not lost arrive, and time goes on.
Fairness ==
    /\ \A s \in Servers :
        WF_vars(TickerFires(s) \/ PostArrives(s) \/ Answered(s))
    /\ WF_vars(Tick)

FairSpec == Spec /\ Fairness
-----------------------------------------------------------------------------
(* Properties                                                              *)

\* Types of the variables.
TypeOK ==
    /\ RegistryTypeOK
    /\ beat \in [Servers -> Beats]
    /\ wire \in [Servers -> {"no", "request", "reply"}]
    /\ elapsed \in [Servers -> 0..Period]

\* The heartbeat of s is running and has got through at least once.
Beating(s) ==
    \/ beat[s] = "wait"
    \/ beat[s] = "posting" /\ wire[s] # "no"
    \/ beat[s] = "first" /\ wire[s] = "reply"

\* While the heartbeat of a server runs, the registry never takes the server
\* for expired: not even between the first and the second one, which are two
\* round trips and a period apart.
BeatsInTime ==
    \A s \in Servers : Beating(s) /\ Timeout # 0 => age[s] < Timeout

\* A server whose heartbeat goes on is in the registry again after every
\* restart of it.
BeatingIsListed ==
    \A s \in Servers : Beating(s) ~> (s \in servers \/ ~ Beating(s))

\* s has crashed, its loop has ended, or it hangs in a POST that was lost.
Silent(s) ==
    \/ beat[s] \in {"off", "ended"}
    \/ beat[s] \in {"first", "posting"} /\ wire[s] = "no"

\* A server that stays silent, be it after a crash or after one failed or
\* lost POST (registry.go:110), leaves the registry's answers for good.
SilentIsForgotten ==
    Timeout # 0 => \A s \in Servers : <>[]Silent(s) => <>[](s \notin Alive)
=============================================================================
