------------------------------- MODULE Flight -------------------------------
(***************************************************************************)
(* What singleflight.Group promises its callers, whatever it does with     *)
(* mutexes and WaitGroups: calls of Do for one key that overlap are on one *)
(* flight, a flight lands once with one result, and everybody on it takes  *)
(* that result home.  While its leader has not left, others may board it.  *)
(*                                                                         *)
(* SingleFlight is shown to implement this; GeeCache is built on it, with  *)
(* the pairs of a node and a key as keys.                                  *)
(***************************************************************************)
CONSTANTS
    Callers,  \* the goroutines that call Do, once each
    Keys,     \* the keys
    Results,  \* what fn may return: values and errors
    None      \* no flight, no result

VARIABLES
    leader,   \* leader[p]: who leads the flight p is on
    current,  \* current[k]: the leader of the flight for k one can board
    landed,   \* landed[p]: the result of the flight p leads
    result    \* result[p]: what Do returned to p

flightVars == <<leader, current, landed, result>>

Init ==
    /\ leader = [p \in Callers |-> None]
    /\ current = [k \in Keys |-> None]
    /\ landed = [p \in Callers |-> None]
    /\ result = [p \in Callers |-> None]

\* Do(k): board the flight for k, or start it.
Lead(p, k) ==
    /\ leader[p] = None /\ current[k] = None
    /\ leader' = [leader EXCEPT ![p] = p]
    /\ current' = [current EXCEPT ![k] = p]
    /\ UNCHANGED <<landed, result>>

Board(p, k) ==
    /\ leader[p] = None /\ current[k] # None
    /\ leader' = [leader EXCEPT ![p] = current[k]]
    /\ UNCHANGED <<current, landed, result>>

\* fn returns r to the leader.
Land(p, r) ==
    /\ leader[p] = p /\ landed[p] = None
    /\ landed' = [landed EXCEPT ![p] = r]
    /\ UNCHANGED <<leader, current, result>>

\* Do returns; with the leader's return the flight is over.
Leave(p) ==
    /\ leader[p] # None /\ landed[leader[p]] # None /\ result[p] = None
    /\ result' = [result EXCEPT ![p] = landed[leader[p]]]
    /\ current' = [k \in Keys |-> IF current[k] = p THEN None ELSE current[k]]
    /\ UNCHANGED <<leader, landed>>

Next == \E p \in Callers :
    \/ \E k \in Keys : Lead(p, k) \/ Board(p, k)
    \/ \E r \in Results : Land(p, r)
    \/ Leave(p)

Spec == Init /\ [][Next]_flightVars
=============================================================================
