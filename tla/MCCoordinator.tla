--------------------------- MODULE MCCoordinator ---------------------------
(***************************************************************************)
(* Small coordinators for TLC.  A host image `app` is built from the named *)
(* output `lib`, whose derivation has a second output `dev`.               *)
(***************************************************************************)
EXTENDS Coordinator, TLC

CONSTANTS app, lib, dev, a1, a2, a3, host

MCDerivationOf == [g \in Goals |-> IF g = app THEN 1 ELSE 2]
MCGoalRank == [g \in Goals |-> CASE g = app -> 1 [] g = dev -> 2 [] OTHER -> 3]

Plan(goals, cached) ==
    [g \in goals |->
       [dependencies |-> IF g = app THEN {lib} ELSE {},
        operation |-> IF g \in cached THEN "Restore" ELSE "Build"]]

Req(a, wanted) ==
    [attempt |-> a, target |-> host, roots |-> wanted, activates |-> TRUE]

Symmetry == Permutations(Attempts)

LifeRequests == {Req(a1, {lib}), Req(a2, {lib})}
LifeGraphs == {Plan({lib}, {})}

WorkRequests == {Req(a1, {app}), Req(a2, {dev})}
WorkGraphs == {Plan({app, lib}, {}), Plan({dev}, {})}

\* Three requests for two outputs of one derivation.
SiblingRequests == {Req(a1, {lib}), Req(a2, {lib}), Req(a3, {dev})}
SiblingGraphs == {Plan({lib}, {}), Plan({dev}, {})}
=============================================================================
