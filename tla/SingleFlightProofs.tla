------------------------- MODULE SingleFlightProofs -------------------------
(***************************************************************************)
(* Theorems about singleflight.Group, for any number of callers, keys and  *)
(* results, and whether or not fn panics.                                  *)
(***************************************************************************)
EXTENDS SingleFlight, TLAPS

Leading == {"fn", "done", "delete", "panicked"}

\* The map holds exactly the callers between Lead and Delete, each under its
\* key: this is what makes delete(g.m, key) remove one's own entry.
MapInv ==
    /\ \A k \in Keys : m[k] # None => key[m[k]] = k /\ pc[m[k]] \in Leading
    /\ \A p \in Callers : pc[p] \in Leading => m[key[p]] = p

\* wg.Done() comes after the result is stored, and the result stays.
ValInv ==
    \A p \in Callers :
        /\ pc[p] \in {"done", "delete"} => val[p] \in Results
        /\ open[p] => val[p] \in Results /\ pc[p] \in {"delete", "returned"}

\* A follower waits on a leader of its own key, which never was a follower.
JoinInv ==
    \A p \in Callers :
        /\ pc[p] \in Leading \cup {"idle"} => joined[p] = None
        /\ joined[p] # None =>
              /\ key[joined[p]] = key[p]
              /\ pc[joined[p]] \in Leading \cup {"returned"}
              /\ pc[p] = "returned" => open[joined[p]]

\* The inductive invariant.
IInv == TypeOK /\ MapInv /\ ValInv /\ JoinInv /\ SharesResult /\ JoinsLive
-----------------------------------------------------------------------------
LEMMA TypeInit == Init => TypeOK
BY FlightAssumption DEF Init, TypeOK, PCs

LEMMA TypeStep == TypeOK /\ [Next]_vars => TypeOK'
PROOF
<1> SUFFICES ASSUME TypeOK, [Next]_vars PROVE TypeOK'
  OBVIOUS
<1> USE FlightAssumption DEF TypeOK, PCs
<1>1. ASSUME NEW p \in Callers, Join(p) PROVE TypeOK'
  BY <1>1 DEF Join, Enter
<1>2. ASSUME NEW p \in Callers, Lead(p) PROVE TypeOK'
  BY <1>2 DEF Lead, Enter
<1>3. ASSUME NEW p \in Callers, FnReturns(p) PROVE TypeOK'
  BY <1>3 DEF FnReturns
<1>4. ASSUME NEW p \in Callers, FnPanics(p) PROVE TypeOK'
  BY <1>4 DEF FnPanics
<1>5. ASSUME NEW p \in Callers, Done(p) PROVE TypeOK'
  BY <1>5 DEF Done
<1>6. ASSUME NEW p \in Callers, Delete(p) PROVE TypeOK'
  BY <1>6 DEF Delete
<1>7. ASSUME NEW p \in Callers, WaitReturns(p) PROVE TypeOK'
  BY <1>7 DEF WaitReturns
<1>8. CASE UNCHANGED vars
  BY <1>8 DEF vars
<1> HIDE DEF TypeOK, PCs
<1> QED
  BY <1>1, <1>2, <1>3, <1>4, <1>5, <1>6, <1>7, <1>8 DEF Next, Do

LEMMA InductiveInit == Init => IInv
PROOF
<1> SUFFICES ASSUME Init PROVE IInv
  OBVIOUS
<1>1. MapInv /\ ValInv /\ JoinInv /\ SharesResult /\ JoinsLive
  BY DEF Init, MapInv, ValInv, JoinInv, SharesResult, JoinsLive, Leading
<1> QED
  BY <1>1, TypeInit DEF IInv

LEMMA InductiveStep == IInv /\ [Next]_vars => IInv'
PROOF
<1> SUFFICES ASSUME IInv, [Next]_vars PROVE IInv'
  OBVIOUS
<1>0. TypeOK'
  BY TypeStep DEF IInv
<1>1. ASSUME NEW p \in Callers, Join(p) PROVE IInv'
  <2> USE <1>1, FlightAssumption DEF IInv, TypeOK, Leading, Join, Enter
  <2>1. MapInv'
    BY DEF MapInv
  <2>2. ValInv'
    BY DEF ValInv
  <2>3. JoinInv'
    BY DEF JoinInv, MapInv, ValInv
  <2>4. SharesResult'
    BY DEF SharesResult, JoinInv, ValInv
  <2>5. JoinsLive'
    BY DEF JoinsLive, MapInv
  <2> HIDE DEF IInv, TypeOK, Leading, Join, Enter
  <2> QED
    BY <1>0, <2>1, <2>2, <2>3, <2>4, <2>5 DEF IInv
<1>2. ASSUME NEW p \in Callers, Lead(p) PROVE IInv'
  <2> USE <1>2, FlightAssumption DEF IInv, TypeOK, Leading, Lead, Enter
  <2>1. MapInv'
    BY DEF MapInv
  <2>2. ValInv'
    BY DEF ValInv
  <2>3. JoinInv'
    BY DEF JoinInv, MapInv, ValInv
  <2>4. SharesResult'
    BY DEF SharesResult, JoinInv, ValInv
  <2>5. JoinsLive'
    BY DEF JoinsLive, JoinInv
  <2> HIDE DEF IInv, TypeOK, Leading, Lead, Enter
  <2> QED
    BY <1>0, <2>1, <2>2, <2>3, <2>4, <2>5 DEF IInv
<1>3. ASSUME NEW p \in Callers, FnReturns(p) PROVE IInv'
  <2> USE <1>3, FlightAssumption DEF IInv, TypeOK, Leading, FnReturns
  <2>1. MapInv'
    BY DEF MapInv
  <2>2. ValInv'
    BY DEF ValInv
  <2>3. JoinInv'
    BY DEF JoinInv, MapInv, ValInv
  <2>4. SharesResult'
    BY DEF SharesResult, JoinInv, ValInv
  <2>5. JoinsLive'
    BY DEF JoinsLive, MapInv
  <2> HIDE DEF IInv, TypeOK, Leading, FnReturns
  <2> QED
    BY <1>0, <2>1, <2>2, <2>3, <2>4, <2>5 DEF IInv
<1>4. ASSUME NEW p \in Callers, FnPanics(p) PROVE IInv'
  <2> USE <1>4, FlightAssumption DEF IInv, TypeOK, Leading, FnPanics
  <2>1. MapInv'
    BY DEF MapInv
  <2>2. ValInv'
    BY DEF ValInv
  <2>3. JoinInv'
    BY DEF JoinInv, MapInv, ValInv
  <2>4. SharesResult'
    BY DEF SharesResult, JoinInv, ValInv
  <2>5. JoinsLive'
    BY DEF JoinsLive, MapInv
  <2> HIDE DEF IInv, TypeOK, Leading, FnPanics
  <2> QED
    BY <1>0, <2>1, <2>2, <2>3, <2>4, <2>5 DEF IInv
<1>5. ASSUME NEW p \in Callers, Done(p) PROVE IInv'
  <2> USE <1>5, FlightAssumption DEF IInv, TypeOK, Leading, Done
  <2>1. MapInv'
    BY DEF MapInv
  <2>2. ValInv'
    BY DEF ValInv
  <2>3. JoinInv'
    BY DEF JoinInv, MapInv, ValInv
  <2>4. SharesResult'
    BY DEF SharesResult, JoinInv, ValInv
  <2>5. JoinsLive'
    BY DEF JoinsLive, MapInv
  <2> HIDE DEF IInv, TypeOK, Leading, Done
  <2> QED
    BY <1>0, <2>1, <2>2, <2>3, <2>4, <2>5 DEF IInv
<1>6. ASSUME NEW p \in Callers, Delete(p) PROVE IInv'
  <2> USE <1>6, FlightAssumption DEF IInv, TypeOK, Leading, Delete
  <2>1. MapInv'
    BY DEF MapInv
  <2>2. ValInv'
    BY DEF ValInv
  <2>3. JoinInv'
    BY DEF JoinInv, MapInv, ValInv
  <2>4. SharesResult'
    BY DEF SharesResult, JoinInv, ValInv
  <2>5. JoinsLive'
    BY DEF JoinsLive, MapInv
  <2> HIDE DEF IInv, TypeOK, Leading, Delete
  <2> QED
    BY <1>0, <2>1, <2>2, <2>3, <2>4, <2>5 DEF IInv
<1>7. ASSUME NEW p \in Callers, WaitReturns(p) PROVE IInv'
  <2> USE <1>7, FlightAssumption DEF IInv, TypeOK, Leading, WaitReturns
  <2>1. MapInv'
    BY DEF MapInv
  <2>2. ValInv'
    BY DEF ValInv
  <2>3. JoinInv'
    BY DEF JoinInv, MapInv, ValInv
  <2>4. SharesResult'
    BY DEF SharesResult, JoinInv, ValInv
  <2>5. JoinsLive'
    BY DEF JoinsLive, MapInv
  <2> HIDE DEF IInv, TypeOK, Leading, WaitReturns
  <2> QED
    BY <1>0, <2>1, <2>2, <2>3, <2>4, <2>5 DEF IInv
<1>8. CASE UNCHANGED vars
  BY <1>0, <1>8 DEF IInv, vars, MapInv, ValInv, JoinInv, SharesResult, JoinsLive
<1> QED
  BY <1>1, <1>2, <1>3, <1>4, <1>5, <1>6, <1>7, <1>8 DEF Next, Do

\* The inductive invariant holds in every reachable state.
THEOREM Inductive == Spec => []IInv
PROOF
<1> QED
  BY InductiveInit, InductiveStep, PTL DEF Spec

\* fn never runs twice at the same time for one key (singleflight.go:18).
THEOREM SingleExecution == Spec => []OneFlight
PROOF
<1>1. IInv => OneFlight
  BY DEF IInv, MapInv, OneFlight, Leading
<1> QED
  BY <1>1, Inductive, PTL

\* Every Do returns the result of an fn for its key.
THEOREM ResultShared == Spec => []SharesResult
PROOF
<1>1. IInv => SharesResult
  BY DEF IInv
<1> QED
  BY <1>1, Inductive, PTL

\* A follower's leader had not returned when the follower entered Do.
THEOREM JoinsOverlap == Spec => []JoinsLive
PROOF
<1>1. IInv => JoinsLive
  BY DEF IInv
<1> QED
  BY <1>1, Inductive, PTL

\* When no Do is running, only panics have left entries in the map.
THEOREM QuietMapEmpty == Spec => []NoEntryLeaks
PROOF
<1>1. IInv => NoEntryLeaks
  BY FlightAssumption DEF IInv, TypeOK, MapInv, NoEntryLeaks, Leading
<1> QED
  BY <1>1, Inductive, PTL
-----------------------------------------------------------------------------
(* SingleFlight implements Flight                                          *)

\* Nothing has landed before fn returns, and nobody has a result before Do
\* returns.
FreshInv ==
    \A p \in Callers :
        /\ pc[p] \in {"idle", "wait", "fn"} => val[p] = None
        /\ pc[p] # "returned" => result[p] = None

LEMMA FreshStep == TypeOK /\ FreshInv /\ [Next]_vars => FreshInv'
PROOF
<1> SUFFICES ASSUME TypeOK, FreshInv, [Next]_vars PROVE FreshInv'
  OBVIOUS
<1> USE DEF TypeOK, FreshInv
<1>1. ASSUME NEW p \in Callers, Join(p) PROVE FreshInv'
  BY <1>1 DEF Join, Enter
<1>2. ASSUME NEW p \in Callers, Lead(p) PROVE FreshInv'
  BY <1>2 DEF Lead, Enter
<1>3. ASSUME NEW p \in Callers, FnReturns(p) PROVE FreshInv'
  BY <1>3 DEF FnReturns
<1>4. ASSUME NEW p \in Callers, FnPanics(p) PROVE FreshInv'
  BY <1>4 DEF FnPanics
<1>5. ASSUME NEW p \in Callers, Done(p) PROVE FreshInv'
  BY <1>5 DEF Done
<1>6. ASSUME NEW p \in Callers, Delete(p) PROVE FreshInv'
  BY <1>6 DEF Delete
<1>7. ASSUME NEW p \in Callers, WaitReturns(p) PROVE FreshInv'
  BY <1>7 DEF WaitReturns
<1>8. CASE UNCHANGED vars
  BY <1>8 DEF vars
<1> HIDE DEF TypeOK, FreshInv
<1> QED
  BY <1>1, <1>2, <1>3, <1>4, <1>5, <1>6, <1>7, <1>8 DEF Next, Do

\* Join is Board, Lead is Lead, FnReturns is Land, Delete and WaitReturns are
\* Leave; Done and FnPanics change nothing that Flight can see.
LEMMA FlightStep ==
    IInv /\ FreshInv /\ [Next]_vars => [F!Next]_F!flightVars
PROOF
<1> SUFFICES ASSUME IInv, FreshInv, [Next]_vars
             PROVE  F!Next \/ UNCHANGED F!flightVars
  OBVIOUS
<1> USE FlightAssumption DEF IInv, TypeOK, PCs, leaderOf
<1>1. ASSUME NEW p \in Callers, Join(p) PROVE F!Next
  <2>1. PICK k \in Keys : k = key[p]
    BY <1>1
  <2>2. leaderOf[p] = None
    BY <1>1 DEF Join, Enter
  <2>3. leaderOf' = [leaderOf EXCEPT ![p] = m[key[p]]]
    BY <1>1 DEF Join, Enter
  <2>4. F!Board(p, k)
    BY <1>1, <2>1, <2>2, <2>3 DEF Join, F!Board
  <2> QED
    BY <2>4 DEF F!Next
<1>2. ASSUME NEW p \in Callers, Lead(p) PROVE F!Next
  <2>1. PICK k \in Keys : k = key[p]
    BY <1>2
  <2>2. leaderOf[p] = None /\ joined[p] = None
    BY <1>2 DEF Lead, Enter, JoinInv
  <2>3. leaderOf' = [leaderOf EXCEPT ![p] = p]
    BY <1>2, <2>2 DEF Lead, Enter
  <2>4. F!Lead(p, k)
    BY <1>2, <2>1, <2>2, <2>3 DEF Lead, F!Lead
  <2> QED
    BY <2>4 DEF F!Next
<1>3. ASSUME NEW p \in Callers, FnReturns(p) PROVE F!Next
  <2>1. PICK r \in Results : val' = [val EXCEPT ![p] = r]
    BY <1>3 DEF FnReturns
  <2>2. F!Land(p, r)
    BY <1>3, <2>1 DEF FnReturns, F!Land, JoinInv, Leading, FreshInv
  <2> QED
    BY <2>2 DEF F!Next
<1>4. ASSUME NEW p \in Callers, FnPanics(p) PROVE UNCHANGED F!flightVars
  BY <1>4 DEF FnPanics, F!flightVars
<1>5. ASSUME NEW p \in Callers, Done(p) PROVE UNCHANGED F!flightVars
  BY <1>5 DEF Done, F!flightVars
<1>6. ASSUME NEW p \in Callers, Delete(p) PROVE F!Next
  <2>1. joined[p] = None /\ val[p] # None /\ result[p] = None
    BY <1>6 DEF Delete, JoinInv, Leading, ValInv, FreshInv
  <2>2. \A k \in Keys : (m[k] = p) <=> (k = key[p])
    BY <1>6 DEF Delete, MapInv, Leading
  <2>3. m' = [k \in Keys |-> IF m[k] = p THEN None ELSE m[k]]
    BY <1>6, <2>2 DEF Delete
  <2>4. leaderOf' = leaderOf
    BY <1>6 DEF Delete
  <2>5. F!Leave(p)
    BY <1>6, <2>1, <2>3, <2>4 DEF Delete, F!Leave
  <2> QED
    BY <2>5 DEF F!Next
<1>7. ASSUME NEW p \in Callers, WaitReturns(p) PROVE F!Next
  <2>1. joined[p] \in Callers /\ val[joined[p]] # None /\ result[p] = None
    BY <1>7 DEF WaitReturns, ValInv, FreshInv
  <2>2. \A k \in Keys : m[k] # p
    BY <1>7 DEF WaitReturns, MapInv, Leading
  <2>3. m' = [k \in Keys |-> IF m[k] = p THEN None ELSE m[k]]
    BY <1>7, <2>2 DEF WaitReturns
  <2>4. leaderOf' = leaderOf
    BY <1>7 DEF WaitReturns
  <2>5. F!Leave(p)
    BY <1>7, <2>1, <2>3, <2>4 DEF WaitReturns, F!Leave
  <2> QED
    BY <2>5 DEF F!Next
<1>8. CASE UNCHANGED vars
  BY <1>8 DEF vars, F!flightVars
<1> QED
  BY <1>1, <1>2, <1>3, <1>4, <1>5, <1>6, <1>7, <1>8 DEF Next, Do

\* Group.Do keeps the promise stated in Flight: overlapping calls for a key
\* are on one flight, it lands once, and everybody on it gets its result
\* (singleflight.go:18-43).
THEOREM Refinement == Spec => ImplementsFlight
PROOF
<1>1. Init => FreshInv
  BY DEF Init, FreshInv
<1>2. Init => F!Init
  BY DEF Init, F!Init, leaderOf
<1>3. IInv => TypeOK
  BY DEF IInv
<1> QED
  BY <1>1, <1>2, <1>3, Inductive, FreshStep, FlightStep, PTL
     DEF Spec, F!Spec, ImplementsFlight
=============================================================================
