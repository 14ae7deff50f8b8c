---------------------------- MODULE SingleFlight ----------------------------
(***************************************************************************)
(* singleflight.Group (src/geecache/singleflight/singleflight.go): callers *)
(* of Do with the same key share one execution of fn.                      *)
(*                                                                         *)
(* Every caller calls Do once; the call object that a leader puts into the *)
(* map is named by its leader.  The critical sections of Group.mu are one  *)
(* step each; between them run fn and the WaitGroup.  fn may panic: under  *)
(* net/http (http.go ServeHTTP) the server recovers the goroutine and the  *)
(* process goes on.                                                        *)
(***************************************************************************)
EXTENDS Naturals

CONSTANTS
    Callers,  \* the goroutines that call Do
    Keys,     \* the keys
    Results,  \* what fn may return: values and errors
    None,     \* nil: no call object, no result
    MayPanic  \* TRUE if fn may panic

ASSUME FlightAssumption ==
    /\ None \notin Callers \cup Results
    /\ MayPanic \in BOOLEAN

VARIABLES
    pc,       \* pc[p]: where caller p is
    key,      \* key[p]: the key it asked for
    m,        \* g.m: the call object in flight for a key
    val,      \* val[p]: Val and err of the call object p leads
    open,     \* open[p]: the WaitGroup of that call object is at zero
    joined,   \* joined[p]: the call object p waits for
    result,   \* result[p]: what Do returned to p
    before    \* history: the callers that had returned when p entered

vars == <<pc, key, m, val, open, joined, result, before>>

PCs == {"idle", "wait", "fn", "done", "delete", "returned", "panicked"}

Init ==
    /\ pc = [p \in Callers |-> "idle"]
    /\ key \in [Callers -> Keys]
    /\ m = [k \in Keys |-> None]
    /\ val = [p \in Callers |-> None]
    /\ open = [p \in Callers |-> FALSE]
    /\ joined = [p \in Callers |-> None]
    /\ result = [p \in Callers |-> None]
    /\ before = [p \in Callers |-> {}]

\* The callers whose Do has returned, recorded when p enters.
Enter(p) ==
    /\ pc[p] = "idle"
    /\ before' = [before EXCEPT ![p] = {q \in Callers : pc[q] = "returned"}]

\* Do finds a call object for its key and waits for it.
Join(p) ==
    /\ Enter(p)
    /\ m[key[p]] # None
    /\ joined' = [joined EXCEPT ![p] = m[key[p]]]
    /\ pc' = [pc EXCEPT ![p] = "wait"]
    /\ UNCHANGED <<key, m, val, open, result>>

\* Faulty variant: the map is not consulted.
LeadAlways(p) ==
    /\ Enter(p)
    /\ m' = [m EXCEPT ![key[p]] = p]
    /\ pc' = [pc EXCEPT ![p] = "fn"]
    /\ UNCHANGED <<key, val, open, joined, result>>

\* Do finds none: it registers its own and calls fn outside the lock.
Lead(p) ==
    /\ Enter(p)
    /\ m[key[p]] = None
    /\ m' = [m EXCEPT ![key[p]] = p]
    /\ pc' = [pc EXCEPT ![p] = "fn"]
    /\ UNCHANGED <<key, val, open, joined, result>>

\* Faulty variant: wg.Done() before the result is stored.
FnReturnsLate(p) ==
    /\ pc[p] = "fn"
    /\ open' = [open EXCEPT ![p] = TRUE]
    /\ pc' = [pc EXCEPT ![p] = "done"]
    /\ UNCHANGED <<key, m, val, joined, result, before>>

\* c.Val, c.err = fn()
FnReturns(p) ==
    /\ pc[p] = "fn"
    /\ \E r \in Results : val' = [val EXCEPT ![p] = r]
    /\ pc' = [pc EXCEPT ![p] = "done"]
    /\ UNCHANGED <<key, m, open, joined, result, before>>

\* fn panics: neither wg.Done() nor delete runs.
FnPanics(p) ==
    /\ MayPanic /\ pc[p] = "fn"
    /\ pc' = [pc EXCEPT ![p] = "panicked"]
    /\ UNCHANGED <<key, m, val, open, joined, result, before>>

\* Faulty variant: wg.Done() is forgotten.
DoneForgotten(p) ==
    /\ pc[p] = "done"
    /\ pc' = [pc EXCEPT ![p] = "delete"]
    /\ UNCHANGED <<key, m, val, open, joined, result, before>>

\* c.wg.Done()
Done(p) ==
    /\ pc[p] = "done"
    /\ open' = [open EXCEPT ![p] = TRUE]
    /\ pc' = [pc EXCEPT ![p] = "delete"]
    /\ UNCHANGED <<key, m, val, joined, result, before>>

\* delete(g.m, key), and the leader returns.
Delete(p) ==
    /\ pc[p] = "delete"
    /\ m' = [m EXCEPT ![key[p]] = None]
    /\ result' = [result EXCEPT ![p] = val[p]]
    /\ pc' = [pc EXCEPT ![p] = "returned"]
    /\ UNCHANGED <<key, val, open, joined, before>>

\* c.wg.Wait() passes and the follower returns the leader's result.
WaitReturns(p) ==
    /\ pc[p] = "wait" /\ open[joined[p]]
    /\ result' = [result EXCEPT ![p] = val[joined[p]]]
    /\ pc' = [pc EXCEPT ![p] = "returned"]
    /\ UNCHANGED <<key, m, val, open, joined, before>>

\* The steps of Do; FnReturns is fn's own.
Do(p) == Join(p) \/ Lead(p) \/ Done(p) \/ Delete(p) \/ WaitReturns(p)

Next == \E p \in Callers : Do(p) \/ FnReturns(p) \/ FnPanics(p)

Spec == Init /\ [][Next]_vars

\* Runnable goroutines run, and fn returns or panics.
Fairness == \A p \in Callers : /\ WF_vars(Do(p))
                               /\ WF_vars(FnReturns(p) \/ FnPanics(p))

FairSpec == Spec /\ Fairness
-----------------------------------------------------------------------------
(* Properties                                                              *)

\* Types of the variables.
TypeOK ==
    /\ pc \in [Callers -> PCs]
    /\ key \in [Callers -> Keys]
    /\ m \in [Keys -> Callers \cup {None}]
    /\ val \in [Callers -> Results \cup {None}]
    /\ open \in [Callers -> BOOLEAN]
    /\ joined \in [Callers -> Callers \cup {None}]
    /\ \A p \in Callers : pc[p] = "wait" => joined[p] # None
    /\ result \in [Callers -> Results \cup {None}]
    /\ before \in [Callers -> SUBSET Callers]

\* fn runs at most once at a time for a key (singleflight.go:18).
OneFlight ==
    \A p, q \in Callers :
        pc[p] = "fn" /\ pc[q] = "fn" /\ key[p] = key[q] => p = q

\* What Do returns is what fn returned, for a follower the fn of a leader
\* with its own key: never a half-written call object.
SharesResult ==
    \A p \in Callers : pc[p] = "returned" =>
        LET leader == IF joined[p] = None THEN p ELSE joined[p] IN
            /\ result[p] \in Results
            /\ result[p] = val[leader]
            /\ key[leader] = key[p]

\* A result is shared only between overlapping calls of Do: a follower never
\* joins a leader whose own Do had already returned.  (It may join one whose
\* fn had: the entry outlives wg.Done() by a moment.)
JoinsLive == \A p \in Callers : joined[p] # None => joined[p] \notin before[p]

\* Once the group is quiet no entry is left in the map, except those of keys
\* whose fn panicked.
NoEntryLeaks ==
    (\A p \in Callers : pc[p] \in {"idle", "returned", "panicked"}) =>
        \A k \in Keys : m[k] # None => pc[m[k]] = "panicked"

\* Every caller returns, unless fn panicked for its key: nothing else can
\* leave a follower waiting.
CallersReturn ==
    \A p \in Callers :
        pc[p] \in {"wait", "fn"} ~>
            \/ pc[p] \in {"returned", "panicked"}
            \/ \E q \in Callers : key[q] = key[p] /\ pc[q] = "panicked"

\* The flight p is on in the terms of Flight: its own, or the one it joined.
leaderOf ==
    [p \in Callers |-> IF pc[p] = "idle" THEN None
                       ELSE IF joined[p] = None THEN p ELSE joined[p]]

F == INSTANCE Flight WITH leader <- leaderOf, current <- m, landed <- val

\* Do implements the promise of Flight: with its locks, the WaitGroup that
\* opens after the result is stored and the entry that outlives it, a key
\* still has one flight at a time, which lands once, and whoever boards it
\* before its leader returns gets its result (singleflight.go:18-43).
ImplementsFlight == F!Spec
=============================================================================
