------------------------------ MODULE TrainOps ------------------------------
(***************************************************************************)
(* The construction train of src/src/build_train/mod.rs as operators over  *)
(* one value t, the fields of `struct Train`.  The code changes a Train    *)
(* only through &mut methods, and the coordinator applies those methods to *)
(* a clone that it saves before it adopts it, so every method is a pair    *)
(*     CanM(t, ...)   the method returns Ok                                *)
(*     M(t, ...)      the Train after it                                   *)
(* and an Err leaves the Train as it was.  TrainEngine runs these          *)
(* operators as the library.                                               *)
(*                                                                         *)
(* Data that no property tells apart is left out: error texts (an          *)
(* Option<String> is a Boolean), source revisions, output paths (a part of *)
(* the evidence that `dependencies` stands for).  u64 counters are the     *)
(* ranges 0..MaxSequence and 0..MaxSerial: an exhausted one refuses, as    *)
(* checked_add does.                                                       *)
(***************************************************************************)
EXTENDS Integers, FiniteSets

CONSTANTS
    Attempts,       \* request identities
    Targets,        \* hosts that activating requests compete for
    Goals,          \* exact derivation and named output
    DerivationOf,   \* the derivation of each goal
    GoalRank,       \* the total order of goals that breaks ties
    None,           \* absent request, node, fence or activation
    AgingSeconds,   \* bounded wait after which the oldest goal wins
    MaxSequence,    \* largest request or fence sequence
    MaxSerial,      \* largest dispatch serial
    MaxClock        \* the clock readings are 0..MaxClock

Operation == {"Build", "Restore"}

Definition == [dependencies : SUBSET Goals, operation : Operation]

Request ==
    [attempt : Attempts, target : Targets, roots : SUBSET Goals,
     activates : BOOLEAN]

RequestRecord ==
    [request : Request, sequence : 0..MaxSequence, cancelled : BOOLEAN,
     admitted : BOOLEAN, prepared : BOOLEAN, preparation_error : BOOLEAN]

NodeState == {"Pending", "Running", "Complete", "Failed"}

\* `serial` is the field of NodeState::Running and 0 in every other state.
Node ==
    [definition : Definition, state : NodeState, serial : 0..MaxSerial,
     queued_at : 0..MaxClock]

\* The token is "<attempt>-<sequence>": the pair of both.
Fence == [attempt : Attempts, token : Attempts \X (0..MaxSequence)]

Dispatched ==
    [goal : Goals, definition : Definition, serial : 0..MaxSerial]

Train ==
    [requests : [Attempts -> RequestRecord \cup {None}],
     nodes : [Goals -> Node \cup {None}],
     fence : Fence \cup {None},
     sequence : 0..MaxSequence,
     dispatch_serial : 0..MaxSerial,
     latest_activation : [Targets -> Attempts \cup {None}]]

ASSUME BoundsAssumption ==
    /\ MaxSequence \in Nat
    /\ MaxSerial \in Nat
    /\ MaxClock \in Nat
    /\ AgingSeconds \in Nat

ASSUME NoneAssumption ==
    None \notin Attempts \cup RequestRecord \cup Node \cup Fence

\* Train::new
NewTrain ==
    [requests |-> [a \in Attempts |-> None],
     nodes |-> [g \in Goals |-> None],
     fence |-> None,
     sequence |-> 0,
     dispatch_serial |-> 0,
     latest_activation |-> [x \in Targets |-> None]]

-----------------------------------------------------------------------------
(* What the code reads off a train.                                        *)

Known(t) == {a \in Attempts : t.requests[a] # None}

KnownGoals(t) == {g \in Goals : t.nodes[g] # None}

InState(t, s) == {g \in KnownGoals(t) : t.nodes[g].state = s}

RunningGoals(t) == InState(t, "Running")

RootsOf(t, a) == t.requests[a].request.roots

\* The work lists of the code visit the least set that holds `from` and,
\* with a goal, the goals that `next` gives for it.
Closure(from, next) ==
    LET closed == {S \in SUBSET Goals :
                     from \subseteq S /\ \A g \in S : next[g] \subseteq S}
    IN  {g \in Goals : \A S \in closed : g \in S}

\* What a goal still waits for: a complete goal and a restoration prune their
\* dependencies.  The code indexes self.nodes and panics on an unknown goal; the
\* operator gives such a goal no dependencies, and EvidenceClosed says that none
\* is ever met.
BuildInputs(t) ==
    [g \in Goals |->
       IF /\ t.nodes[g] # None
          /\ t.nodes[g].state # "Complete"
          /\ t.nodes[g].definition.operation = "Build"
       THEN t.nodes[g].definition.dependencies
       ELSE {}]

\* fn needed
Needed(t, roots) == Closure(roots, BuildInputs(t))

\* Everything a goal was planned with.
Evidence(t) ==
    [g \in Goals |-> IF t.nodes[g] # None
                     THEN t.nodes[g].definition.dependencies
                     ELSE {}]

\* fn retained_graph: the known goals of the full evidence closure.
RetainedGraph(t, a) ==
    KnownGoals(t) \cap Closure(RootsOf(t, a), Evidence(t))

\* fn outcome
Outcome(t, a) ==
    LET record == t.requests[a]
    IN  CASE record.cancelled -> "Cancelled"
          [] ~record.cancelled /\ record.preparation_error -> "Failed"
          [] ~record.cancelled /\ ~record.preparation_error
             /\ ~record.prepared -> "Pending"
          [] OTHER ->
             IF Needed(t, RootsOf(t, a)) \cap InState(t, "Failed") # {}
             THEN "Failed"
             ELSE IF RootsOf(t, a) \subseteq InState(t, "Complete")
                  THEN "Ready"
                  ELSE "Pending"

Drained(t) == RunningGoals(t) = {}

-----------------------------------------------------------------------------
(* Intake.                                                                 *)

\* fn register: a known attempt with the same frozen identity is a no-op.
CanRegister(t, r) ==
    /\ r.roots # {}
    /\ IF r.attempt \in Known(t)
       THEN t.requests[r.attempt].request = r
       ELSE t.sequence < MaxSequence

Register(t, r, admitted) ==
    IF r.attempt \in Known(t)
    THEN t
    ELSE [t EXCEPT
            !.latest_activation[r.target] =
                IF r.activates THEN r.attempt ELSE @,
            !.requests[r.attempt] =
                [request |-> r, sequence |-> t.sequence + 1,
                 cancelled |-> FALSE, admitted |-> admitted,
                 prepared |-> FALSE, preparation_error |-> FALSE],
            !.sequence = @ + 1]

\* fn validate_graph: roots and dependencies are defined, and every set of
\* goals has one that needs no other of the set (the order Kahn's loop finds).
ValidGraph(roots, graph) ==
    /\ roots \subseteq DOMAIN graph
    /\ \A g \in DOMAIN graph : graph[g].dependencies \subseteq DOMAIN graph
    /\ \A S \in SUBSET DOMAIN graph :
         S # {} => \E g \in S : graph[g].dependencies \cap S = {}

CanSubmit(t, r, graph) ==
    /\ ValidGraph(r.roots, graph)
    /\ \A g \in DOMAIN graph \cap KnownGoals(t) :
         t.nodes[g].definition.dependencies = graph[g].dependencies
    /\ CanRegister(t, r)

\* The goals a plan makes this request need.
Selected(roots, graph) ==
    Closure(roots,
            [g \in Goals |->
               IF g \in DOMAIN graph /\ graph[g].operation = "Build"
               THEN graph[g].dependencies
               ELSE {}])

PreviouslyNeeded(t) ==
    UNION {Needed(t, RootsOf(t, a)) :
             a \in {b \in Known(t) : /\ t.requests[b].prepared
                                     /\ ~t.requests[b].cancelled}}

\* Mutant: any plan of a selected goal replaces the one before.
MayReplanAny(t, roots, graph) == Selected(roots, graph) \cap DOMAIN graph

MayReplan(t, roots, graph) ==
    {g \in Selected(roots, graph) \cap DOMAIN graph :
        \/ graph[g].operation = "Restore"
        \/ g \notin PreviouslyNeeded(t)}

\* The nodes after a join: a new goal is queued, a pending one may take the
\* operation of the new plan, any other stays.
JoinedNodes(t, roots, graph, now) ==
    LET replan == MayReplan(t, roots, graph)
    IN  [g \in Goals |->
           CASE g \notin DOMAIN graph -> t.nodes[g]
             [] g \in DOMAIN graph /\ t.nodes[g] = None ->
                  [definition |-> graph[g], state |-> "Pending",
                   serial |-> 0, queued_at |-> now]
             [] OTHER ->
                  IF g \in replan /\ t.nodes[g].state = "Pending"
                  THEN [t.nodes[g] EXCEPT
                          !.definition.operation = graph[g].operation]
                  ELSE t.nodes[g]]

\* fn submit, after validate_graph and the evidence check
Submit(t, r, graph, now) ==
    LET joined == Register(t, r, TRUE)
    IN  [joined EXCEPT
           !.nodes = JoinedNodes(t, r.roots, graph, now),
           !.requests[r.attempt].prepared = TRUE,
           !.requests[r.attempt].preparation_error = FALSE]

PreparationFailed(t, a) ==
    [t EXCEPT !.requests[a].preparation_error = TRUE]

-----------------------------------------------------------------------------
(* One request's own commands.                                             *)

\* Mutant: running work of the request is not looked for.
CanRetireRunning(t, a) ==
    /\ a \in Known(t)
    /\ Outcome(t, a) # "Pending"
    /\ t.fence # None => t.fence.attempt # a

CanRetire(t, a) ==
    /\ a \in Known(t)
    /\ Outcome(t, a) # "Pending"
    /\ t.fence # None => t.fence.attempt # a
    /\ RetainedGraph(t, a) \cap RunningGoals(t) = {}

\* Mutant: only the goals other requests need now are kept.
RetireKeepsNeeded(t, a) ==
    LET left == [t EXCEPT !.requests[a] = None]
        needed == UNION {Needed(left, RootsOf(left, b)) : b \in Known(left)}
    IN  [left EXCEPT
           !.nodes = [g \in Goals |->
                        IF g \in needed \cup RunningGoals(t)
                        THEN t.nodes[g] ELSE None]]

\* Mutant: the evidence goes with its request, shared or not.
RetireDropsShared(t, a) ==
    [t EXCEPT
       !.requests[a] = None,
       !.nodes = [g \in Goals |-> IF g \in RetainedGraph(t, a)
                                  THEN None ELSE t.nodes[g]]]

\* Mutant: the target's activation falls back to a request that is left.
RetirePromotes(t, a) ==
    [t EXCEPT
       !.requests[a] = None,
       !.latest_activation =
          [x \in Targets |->
             IF t.latest_activation[x] = a /\ Known(t) # {a}
             THEN CHOOSE b \in Known(t) \ {a} : TRUE
             ELSE t.latest_activation[x]]]

Retire(t, a) ==
    LET left == [t EXCEPT !.requests[a] = None]
        retained == UNION {RetainedGraph(left, b) : b \in Known(left)}
    IN  [left EXCEPT
           !.nodes = [g \in Goals |->
                        IF g \in retained \cup RunningGoals(t)
                        THEN t.nodes[g] ELSE None]]

Cancel(t, a) == [t EXCEPT !.requests[a].cancelled = TRUE]

Hold(t, a) == [t EXCEPT !.requests[a].admitted = FALSE]

CanAdmit(t, a) == a \in Known(t) /\ ~t.requests[a].cancelled

Admit(t, a) == [t EXCEPT !.requests[a].admitted = TRUE]

\* fn capture_failures: a failure seen now is the request's own from now on.
CaptureFailures(t) ==
    [t EXCEPT
       !.requests =
         [a \in Attempts |->
            IF /\ a \in Known(t)
               /\ ~t.requests[a].preparation_error
               /\ Outcome(t, a) = "Failed"
            THEN [t.requests[a] EXCEPT !.preparation_error = TRUE]
            ELSE t.requests[a]]]

\* The failed goals a retry puts back.
RetryGoals(t, a) ==
    IF t.requests[a].prepared
    THEN Needed(t, RootsOf(t, a)) \cap InState(t, "Failed")
    ELSE {}

\* Mutant: the failures of other requests are not captured first.
RetryUncaptured(t, a) ==
    [t EXCEPT
       !.nodes = [g \in Goals |->
                    IF g \in RetryGoals(t, a)
                    THEN [t.nodes[g] EXCEPT !.state = "Pending"]
                    ELSE t.nodes[g]],
       !.requests[a].cancelled = FALSE,
       !.requests[a].admitted = FALSE,
       !.requests[a].preparation_error = FALSE]

Retry(t, a) ==
    LET again == RetryGoals(t, a)
        captured == CaptureFailures(t)
    IN  [captured EXCEPT
           !.nodes = [g \in Goals |->
                        IF g \in again
                        THEN [t.nodes[g] EXCEPT !.state = "Pending"]
                        ELSE t.nodes[g]],
           !.requests[a].cancelled = FALSE,
           !.requests[a].admitted = FALSE,
           !.requests[a].preparation_error = FALSE]

-----------------------------------------------------------------------------
(* Scheduling.                                                             *)

NeededBy(t, a) == Needed(t, RootsOf(t, a))

\* The requests whose needs compete for workers, with their needs.
Interests(t) ==
    {[attempt |-> a, needed |-> NeededBy(t, a)] :
        a \in {b \in Known(t) : /\ t.requests[b].admitted
                                /\ t.requests[b].prepared
                                /\ Outcome(t, b) = "Pending"}}

\* Mutant: a sibling output may run at the same time.
FrontierSiblings(t, eligible) ==
    {g \in UNION {i.needed : i \in Interests(t)} \cap eligible :
       /\ g \in InState(t, "Pending")
       /\ \/ t.nodes[g].definition.operation = "Restore"
          \/ t.nodes[g].definition.dependencies \subseteq InState(t, "Complete")}

\* Mutant: a build does not wait for its dependencies.
FrontierUnordered(t, eligible) ==
    {g \in UNION {i.needed : i \in Interests(t)} \cap eligible :
       /\ g \in InState(t, "Pending")
       /\ \A h \in RunningGoals(t) : DerivationOf[h] # DerivationOf[g]}

\* Mutant: a restoration waits for dependencies that nobody builds.
FrontierRestoreWaits(t, eligible) ==
    {g \in FrontierUnordered(t, eligible) :
       t.nodes[g].definition.dependencies \subseteq InState(t, "Complete")}

\* What may start now: wanted, pending, no sibling output running, and for a
\* build every dependency complete.
Frontier(t, eligible) ==
    {g \in UNION {i.needed : i \in Interests(t)} \cap eligible :
       /\ g \in InState(t, "Pending")
       /\ \A h \in RunningGoals(t) : DerivationOf[h] # DerivationOf[g]
       /\ \/ t.nodes[g].definition.operation = "Restore"
          \/ t.nodes[g].definition.dependencies \subseteq InState(t, "Complete")}

\* Interested requests per goal, and for a build per derivation.
InterestCount(t, interests, g) ==
    IF t.nodes[g].definition.operation = "Restore"
    THEN Cardinality({i \in interests : g \in i.needed})
    ELSE Cardinality({i \in interests :
           \E h \in i.needed :
             /\ t.nodes[h].definition.operation = "Build"
             /\ DerivationOf[h] = DerivationOf[g]})

\* Saturating: a clock reading before queued_at is no wait at all.
Waited(t, g, now) ==
    IF now > t.nodes[g].queued_at THEN now - t.nodes[g].queued_at ELSE 0

Aged(t, g, now) == Waited(t, g, now) >= AgingSeconds

\* Mutant: waiting never outweighs the shared interest.
PriorityUnaged(t, interests, g, now) ==
    <<1, 0, -InterestCount(t, interests, g), 1, t.nodes[g].queued_at, GoalRank[g]>>

Priority(t, interests, g, now) ==
    LET aged == Aged(t, g, now)
    IN  << IF aged THEN 0 ELSE 1,
           IF aged THEN t.nodes[g].queued_at ELSE 0,
           IF aged THEN 0 ELSE -InterestCount(t, interests, g),
           IF \E i \in interests : g \in RootsOf(t, i.attempt) THEN 0 ELSE 1,
           t.nodes[g].queued_at,
           GoalRank[g] >>

Precedes(p, q) ==
    \E i \in 1..6 : p[i] < q[i] /\ \A j \in 1..(i - 1) : p[j] = q[j]

\* fn dispatch_where: the goals the code would choose (one, or none).
Choices(t, now, eligible) ==
    LET interests == Interests(t)
        ranked == {<<g, Priority(t, interests, g, now)>> :
                     g \in Frontier(t, eligible)}
    IN  {p[1] : p \in {r \in ranked :
                         \A q \in ranked \ {r} : Precedes(r[2], q[2])}}

\* Mutant: the fence is not looked at.
CanDispatchFenced(t) == t.dispatch_serial < MaxSerial

CanDispatch(t) ==
    /\ t.fence = None
    /\ t.dispatch_serial < MaxSerial

Dispatch(t, g) ==
    [t EXCEPT !.dispatch_serial = @ + 1,
              !.nodes[g].state = "Running",
              !.nodes[g].serial = t.dispatch_serial + 1]

\* The Dispatch value handed to the worker that runs g.
ReceiptOf(t, g) ==
    [goal |-> g, definition |-> t.nodes[g].definition,
     serial |-> t.nodes[g].serial]

\* Mutant: any receipt ends a running goal, whatever its generation.
AcceptsAny(t, d) == d.goal \in RunningGoals(t)

\* fn finish: only the receipt of the running generation is accepted.
Accepts(t, d) ==
    d.goal \in RunningGoals(t) /\ t.nodes[d.goal].serial = d.serial

Settled(t, g, s) ==
    [t EXCEPT !.nodes[g].state = s, !.nodes[g].serial = 0]

Finish(t, d, ok) ==
    IF ~Accepts(t, d)
    THEN t
    ELSE IF ok THEN Settled(t, d.goal, "Complete")
               ELSE CaptureFailures(Settled(t, d.goal, "Failed"))

\* Mutant: failures are not captured before the evidence is applied.
ReconcileUncaptured(t, valid) ==
    [t EXCEPT
       !.nodes =
         [g \in Goals |->
            CASE g \in KnownGoals(t) \cap valid ->
                   [t.nodes[g] EXCEPT !.state = "Complete", !.serial = 0]
              [] g \in (InState(t, "Running") \cup InState(t, "Complete"))
                       \ valid ->
                   [t.nodes[g] EXCEPT !.state = "Pending", !.serial = 0]
              [] OTHER -> t.nodes[g]]]

\* fn reconcile: store evidence replaces interrupted and vanished work.
Reconcile(t, valid) ==
    LET captured == CaptureFailures(t)
    IN  [captured EXCEPT
           !.nodes =
             [g \in Goals |->
                CASE g \in KnownGoals(t) \cap valid ->
                       [t.nodes[g] EXCEPT !.state = "Complete", !.serial = 0]
                  [] g \in (InState(t, "Running") \cup InState(t, "Complete"))
                           \ valid ->
                       [t.nodes[g] EXCEPT !.state = "Pending", !.serial = 0]
                  [] OTHER -> t.nodes[g]]]

-----------------------------------------------------------------------------
(* Handover.                                                               *)

\* Mutant: the sequence is not checked before it is counted up.
CanFenceUnchecked(t, a) ==
    /\ a \in Known(t)
    /\ t.fence # None => t.fence.attempt = a

CanFence(t, a) ==
    /\ a \in Known(t)
    /\ IF t.fence = None THEN t.sequence < MaxSequence
                         ELSE t.fence.attempt = a

\* fn fence: the owner of a standing fence gets the same token again.
SetFence(t, a) ==
    IF t.fence # None
    THEN t
    ELSE [t EXCEPT !.sequence = @ + 1,
                   !.fence = [attempt |-> a,
                              token |-> <<a, t.sequence + 1>>]]

CanReleaseFence(t, token) ==
    /\ t.fence # None
    /\ t.fence.token = token
    /\ Drained(t)

ReleaseFence(t) == [t EXCEPT !.fence = None]

\* fn authorize_activation: the newest activating request of the target, once
\* the caller admitted it and everything it wants is built.
Authorized(t, a) ==
    /\ a \in Known(t)
    /\ t.requests[a].request.activates
    /\ t.requests[a].admitted
    /\ t.latest_activation[t.requests[a].request.target] = a
    /\ Outcome(t, a) = "Ready"

-----------------------------------------------------------------------------
(* What every train satisfies, as predicates that both the library and the *)
(* service are checked against.                                            *)

\* A prepared request's roots are known, and so are a known goal's
\* dependencies.
EvidenceClosedIn(t) ==
    /\ \A a \in Known(t) :
         t.requests[a].prepared => RootsOf(t, a) \subseteq KnownGoals(t)
    /\ \A g \in KnownGoals(t) :
         t.nodes[g].definition.dependencies \subseteq KnownGoals(t)

\* A running goal is part of the evidence of some request.
RunningOwnedIn(t) ==
    \A g \in RunningGoals(t) : \E a \in Known(t) : g \in RetainedGraph(t, a)

\* At most one output of a derivation runs.
OneWorkerIn(t) ==
    \A g, h \in RunningGoals(t) : DerivationOf[g] = DerivationOf[h] => g = h

\* The dependencies of a running build are complete.
InputsPresentIn(t) ==
    \A g \in RunningGoals(t) :
      t.nodes[g].definition.operation = "Build" =>
        t.nodes[g].definition.dependencies \subseteq InState(t, "Complete")

Sound(t) ==
    /\ EvidenceClosedIn(t)
    /\ RunningOwnedIn(t)
    /\ OneWorkerIn(t)
    /\ InputsPresentIn(t)
=============================================================================
