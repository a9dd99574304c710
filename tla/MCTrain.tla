------------------------------ MODULE MCTrain ------------------------------
(***************************************************************************)
(* Small trains for TLC.  A host image `app` is built from the named       *)
(* output `lib`, whose derivation has a second output `dev`.  Each run     *)
(* takes its requests and plans, and those methods of the engine that its  *)
(* question is about: the ones that requests with shared goals act on each *)
(* other with (SharingSpec), all of them on two goals, and the ones that   *)
(* move the queue (both in MCMethods).                                     *)
(***************************************************************************)
EXTENDS TrainEngine

CONSTANTS app, lib, dev, a1, a2, a3, host

MCDerivationOf == [g \in Goals |-> IF g = app THEN 1 ELSE 2]
MCGoalRank == [g \in Goals |-> CASE g = app -> 1 [] g = dev -> 2 [] OTHER -> 3]

Def(deps, op) == [dependencies |-> deps, operation |-> op]

\* A plan of the given goals that restores those of `cached`.
Plan(goals, cached) ==
    [g \in goals |-> Def(IF g = app THEN {lib} ELSE {},
                         IF g \in cached THEN "Restore" ELSE "Build")]

Req(a, roots) ==
    [attempt |-> a, target |-> host, roots |-> roots, activates |-> TRUE]

\* A plan with an undefined dependency, and one whose evidence contradicts
\* the others: submit refuses both.
Refused == {Plan({app}, {}), [g \in {app} |-> Def({}, "Build")]}

-----------------------------------------------------------------------------
(* train_sharing: an image and its two library outputs.                    *)

SharingRequests == {Req(a1, {app}), Req(a2, {app, dev})}
SharingGraphs == {Plan(Goals, {}), Plan(Goals, {app})} \cup Refused

SharingNext ==
    \/ \E r \in Requests, graph \in Graphs : SubmitAct(r, graph)
    \/ \E a \in Attempts : RetireAct(a)
    \/ \E a \in Attempts : AdmitAct(a)
    \/ \E a \in Attempts : RetryAct(a)
    \/ DispatchAct(Goals)
    \/ \E d \in workers, ok \in BOOLEAN : FinishAct(d, ok)
    \/ \E d \in stale, ok \in BOOLEAN : LateFinishAct(d, ok)
    \/ \E valid \in SUBSET KnownGoals(train) : ReconcileAct(valid)

SharingSpec == Init /\ [][SharingNext]_vars

AnyGoals == {Goals}
=============================================================================
