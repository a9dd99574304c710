--------------------------- MODULE TrainOpsProofs ---------------------------
(***************************************************************************)
(* Lemmas about the operators of TrainOps: what the closures contain, that *)
(* every method of a train yields a train, that every method keeps it      *)
(* sound, and what a method for one request leaves to the others.          *)
(***************************************************************************)
EXTENDS TrainOps, TLAPS

\* A closure contains what it starts from.
LEMMA ClosureContains ==
    ASSUME NEW from \in SUBSET Goals, NEW next
    PROVE  from \subseteq Closure(from, next)
BY DEF Closure

\* A closure is closed under next.
LEMMA ClosureClosed ==
    ASSUME NEW from \in SUBSET Goals, NEW next,
           \A g \in Goals : next[g] \subseteq Goals
    PROVE  \A g \in Closure(from, next) : next[g] \subseteq Closure(from, next)
BY DEF Closure

\* Every closed set above `from` contains the closure.
LEMMA ClosureLeast ==
    ASSUME NEW from, NEW next, NEW S \in SUBSET Goals,
           from \subseteq S, \A g \in S : next[g] \subseteq S
    PROVE  Closure(from, next) \subseteq S
BY DEF Closure

-----------------------------------------------------------------------------
(* Types.                                                                  *)

\* A train starts as a train.
LEMMA NewTrainType == NewTrain \in Train
BY BoundsAssumption DEF NewTrain, Train

\* register yields a train.
LEMMA RegisterType ==
    ASSUME NEW t \in Train, NEW r \in Request, NEW admitted \in BOOLEAN,
           CanRegister(t, r)
    PROVE  Register(t, r, admitted) \in Train
<1>1. CASE r.attempt \in Known(t)
  BY <1>1 DEF Register
<1>2. CASE r.attempt \notin Known(t)
  <2> DEFINE record == [request |-> r, sequence |-> t.sequence + 1,
                        cancelled |-> FALSE, admitted |-> admitted,
                        prepared |-> FALSE, preparation_error |-> FALSE]
             requests == [t.requests EXCEPT ![r.attempt] = record]
             latest == [t.latest_activation EXCEPT ![r.target] =
                          IF r.activates THEN r.attempt ELSE @]
  <2>1. t.sequence + 1 \in 0..MaxSequence
    BY <1>2, BoundsAssumption DEF CanRegister, Train
  <2>2. record \in RequestRecord
    BY <2>1 DEF RequestRecord
  <2>3. requests \in [Attempts -> RequestRecord \cup {None}]
    BY <2>2 DEF Train
  <2>4. latest \in [Targets -> Attempts \cup {None}]
    BY DEF Train, Request
  <2>5. Register(t, r, admitted) =
          [t EXCEPT !.requests = requests, !.latest_activation = latest,
                    !.sequence = t.sequence + 1]
    BY <1>2 DEF Register, Train
  <2> QED
    BY <2>1, <2>3, <2>4, <2>5 DEF Train
<1> QED
  BY <1>1, <1>2

\* After register the attempt is known, with the frozen identity.
LEMMA RegisteredRecord ==
    ASSUME NEW t \in Train, NEW r \in Request, NEW admitted \in BOOLEAN,
           CanRegister(t, r)
    PROVE  /\ Known(Register(t, r, admitted)) = Known(t) \cup {r.attempt}
           /\ Register(t, r, admitted).requests[r.attempt].request = r
           /\ \A a \in Known(t) :
                Register(t, r, admitted).requests[a] = t.requests[a]
           /\ Register(t, r, admitted).nodes = t.nodes
<1>1. CASE r.attempt \in Known(t)
  BY <1>1 DEF Register, CanRegister, Known
<1>2. CASE r.attempt \notin Known(t)
  <2> DEFINE record == [request |-> r, sequence |-> t.sequence + 1,
                        cancelled |-> FALSE, admitted |-> admitted,
                        prepared |-> FALSE, preparation_error |-> FALSE]
  <2>1. record \in RequestRecord
    BY <1>2, BoundsAssumption DEF CanRegister, Train, RequestRecord
  <2>2. Register(t, r, admitted).requests = [t.requests EXCEPT ![r.attempt] = record]
    BY <1>2 DEF Register, Train
  <2>3. Register(t, r, admitted).nodes = t.nodes
    BY <1>2 DEF Register, Train
  <2>4. record # None
    BY <2>1, NoneAssumption
  <2>5. record.request = r
    OBVIOUS
  <2>6. r.attempt \in Attempts
    BY DEF Request
  <2> HIDE DEF record
  <2> QED
    BY <1>2, <2>2, <2>3, <2>4, <2>5, <2>6 DEF Known, Train
<1> QED
  BY <1>1, <1>2

\* Other request records or other nodes make a train of a train.
LEMMA PartsType ==
    ASSUME NEW t \in Train
    PROVE  /\ \A requests \in [Attempts -> RequestRecord \cup {None}] :
                [t EXCEPT !.requests = requests] \in Train
           /\ \A nodes \in [Goals -> Node \cup {None}] :
                [t EXCEPT !.nodes = nodes] \in Train
BY DEF Train

\* A known request has a record.
LEMMA KnownType ==
    ASSUME NEW t \in Train, NEW a \in Known(t)
    PROVE  /\ a \in Attempts
           /\ t.requests[a] \in RequestRecord
           /\ RootsOf(t, a) \in SUBSET Goals
BY DEF Train, Known, RootsOf, RequestRecord, Request

\* A known goal has a node.
LEMMA KnownGoalType ==
    ASSUME NEW t \in Train, NEW g \in KnownGoals(t)
    PROVE  /\ g \in Goals
           /\ t.nodes[g] \in Node
           /\ t.nodes[g].definition.dependencies \in SUBSET Goals
BY DEF Train, KnownGoals, Node, Definition

\* The commands on one known request yield a train.
LEMMA CommandType ==
    ASSUME NEW t \in Train, NEW a \in Known(t)
    PROVE  /\ PreparationFailed(t, a) \in Train
           /\ Cancel(t, a) \in Train
           /\ Hold(t, a) \in Train
           /\ Admit(t, a) \in Train
<1> DEFINE With(record) == [t EXCEPT !.requests = [t.requests EXCEPT ![a] = record]]
<1>1. \A record \in RequestRecord : With(record) \in Train
  <2> SUFFICES ASSUME NEW record \in RequestRecord
               PROVE  [t.requests EXCEPT ![a] = record]
                        \in [Attempts -> RequestRecord \cup {None}]
    BY PartsType
  <2> QED
    BY KnownType DEF Train
<1>2. /\ [t.requests[a] EXCEPT !.preparation_error = TRUE] \in RequestRecord
      /\ [t.requests[a] EXCEPT !.cancelled = TRUE] \in RequestRecord
      /\ [t.requests[a] EXCEPT !.admitted = FALSE] \in RequestRecord
      /\ [t.requests[a] EXCEPT !.admitted = TRUE] \in RequestRecord
  BY KnownType DEF RequestRecord
<1>3. /\ PreparationFailed(t, a) =
           With([t.requests[a] EXCEPT !.preparation_error = TRUE])
      /\ Cancel(t, a) = With([t.requests[a] EXCEPT !.cancelled = TRUE])
      /\ Hold(t, a) = With([t.requests[a] EXCEPT !.admitted = FALSE])
      /\ Admit(t, a) = With([t.requests[a] EXCEPT !.admitted = TRUE])
  BY DEF PreparationFailed, Cancel, Hold, Admit
<1> QED
  BY <1>1, <1>2, <1>3

\* retire yields a train.
LEMMA RetireType ==
    ASSUME NEW t \in Train, NEW a \in Attempts
    PROVE  Retire(t, a) \in Train
BY DEF Retire, Train

\* capture_failures yields a train.
LEMMA CaptureFailuresType ==
    ASSUME NEW t \in Train
    PROVE  CaptureFailures(t) \in Train
<1> DEFINE requests == CaptureFailures(t).requests
<1>1. CaptureFailures(t) = [t EXCEPT !.requests = requests]
  BY DEF CaptureFailures, Train
<1>2. requests =
        [a \in Attempts |->
            IF /\ a \in Known(t)
               /\ ~t.requests[a].preparation_error
               /\ Outcome(t, a) = "Failed"
            THEN [t.requests[a] EXCEPT !.preparation_error = TRUE]
            ELSE t.requests[a]]
  BY DEF CaptureFailures, Train
<1>3. \A a \in Known(t) :
        [t.requests[a] EXCEPT !.preparation_error = TRUE] \in RequestRecord
  BY KnownType DEF RequestRecord
<1>4. requests \in [Attempts -> RequestRecord \cup {None}]
  BY <1>2, <1>3 DEF Train
<1> QED
  BY <1>1, <1>4, PartsType

\* retry yields a train.
LEMMA RetryType ==
    ASSUME NEW t \in Train, NEW a \in Known(t)
    PROVE  Retry(t, a) \in Train
<1> DEFINE captured == CaptureFailures(t)
           record == [captured.requests[a] EXCEPT !.cancelled = FALSE,
                        !.admitted = FALSE, !.preparation_error = FALSE]
           requests == [captured.requests EXCEPT ![a] = record]
           nodes == [g \in Goals |->
                       IF g \in RetryGoals(t, a)
                       THEN [t.nodes[g] EXCEPT !.state = "Pending"]
                       ELSE t.nodes[g]]
<1>1. captured \in Train /\ a \in Attempts
  BY CaptureFailuresType DEF Known
<1>2. captured.requests[a] \in RequestRecord
  <2>1. captured.requests[a] \in {t.requests[a],
                [t.requests[a] EXCEPT !.preparation_error = TRUE]}
    BY <1>1 DEF CaptureFailures, Train
  <2> QED
    BY <2>1, KnownType DEF RequestRecord
<1>3. record \in RequestRecord
  BY <1>2 DEF RequestRecord
<1>4. requests \in [Attempts -> RequestRecord \cup {None}]
  BY <1>1, <1>3 DEF Train
<1>5. nodes \in [Goals -> Node \cup {None}]
  <2>1. \A g \in RetryGoals(t, a) : g \in KnownGoals(t)
    BY DEF RetryGoals, InState
  <2>2. \A g \in RetryGoals(t, a) :
          [t.nodes[g] EXCEPT !.state = "Pending"] \in Node
    BY <2>1, KnownGoalType DEF Node, NodeState
  <2> QED
    BY <2>2 DEF Train
<1>6. Retry(t, a) = [[captured EXCEPT !.nodes = nodes]
                       EXCEPT !.requests = requests]
  BY <1>1 DEF Retry, Train
<1>7. [captured EXCEPT !.nodes = nodes] \in Train
  BY <1>1, <1>5, PartsType
<1> HIDE DEF captured, nodes, requests
<1> QED
  BY <1>4, <1>6, <1>7, PartsType

\* What submit does to the nodes yields nodes.
LEMMA JoinedNodesType ==
    ASSUME NEW t \in Train, NEW roots, NEW graph, NEW now \in 0..MaxClock,
           DOMAIN graph \subseteq Goals,
           \A g \in DOMAIN graph : graph[g] \in Definition
    PROVE  JoinedNodes(t, roots, graph, now) \in [Goals -> Node \cup {None}]
<1> SUFFICES ASSUME NEW g \in Goals
             PROVE  JoinedNodes(t, roots, graph, now)[g] \in Node \cup {None}
  BY DEF JoinedNodes
<1> DEFINE fresh == [definition |-> graph[g], state |-> "Pending",
                     serial |-> 0, queued_at |-> now]
           replanned == [t.nodes[g] EXCEPT
                           !.definition.operation = graph[g].operation]
<1>1. JoinedNodes(t, roots, graph, now)[g] \in {t.nodes[g], fresh, replanned}
  BY DEF JoinedNodes
<1>2. t.nodes[g] \in Node \cup {None}
  BY DEF Train
<1>3. g \in DOMAIN graph => fresh \in Node
  BY BoundsAssumption DEF Node, NodeState
<1>4. g \in DOMAIN graph /\ t.nodes[g] # None => replanned \in Node
  BY <1>2 DEF Node, Definition
<1> QED
  BY <1>1, <1>2, <1>3, <1>4 DEF JoinedNodes

\* submit yields a train.
LEMMA SubmitType ==
    ASSUME NEW t \in Train, NEW r \in Request, NEW graph, NEW now \in 0..MaxClock,
           DOMAIN graph \subseteq Goals,
           \A g \in DOMAIN graph : graph[g] \in Definition,
           CanSubmit(t, r, graph)
    PROVE  Submit(t, r, graph, now) \in Train
<1> DEFINE joined == Register(t, r, TRUE)
           nodes == JoinedNodes(t, r.roots, graph, now)
           record == [joined.requests[r.attempt] EXCEPT
                        !.prepared = TRUE, !.preparation_error = FALSE]
           requests == [joined.requests EXCEPT ![r.attempt] = record]
<1>1. joined \in Train /\ r.attempt \in Attempts
  BY RegisterType DEF CanSubmit, Request
<1>2. joined.requests[r.attempt] \in RequestRecord
  <2>1. CASE r.attempt \in Known(t)
    BY <2>1, KnownType DEF Register
  <2>2. CASE r.attempt \notin Known(t)
    <3>1. r.attempt \in Known(joined)
      BY RegisteredRecord DEF CanSubmit
    <3> QED
      BY <3>1, <1>1, KnownType
  <2> QED
    BY <2>1, <2>2
<1>3. record \in RequestRecord
  BY <1>2 DEF RequestRecord
<1>4. requests \in [Attempts -> RequestRecord \cup {None}]
  BY <1>1, <1>3 DEF Train
<1>5. nodes \in [Goals -> Node \cup {None}]
  BY JoinedNodesType
<1>6. Submit(t, r, graph, now) =
        [[joined EXCEPT !.nodes = nodes] EXCEPT !.requests = requests]
  BY <1>1 DEF Submit, Train
<1>7. [joined EXCEPT !.nodes = nodes] \in Train
  BY <1>1, <1>5, PartsType
<1> HIDE DEF joined, nodes, requests
<1> QED
  BY <1>4, <1>6, <1>7, PartsType

\* Another state of one known goal yields a train.
LEMMA NodeType ==
    ASSUME NEW t \in Train, NEW g \in KnownGoals(t), NEW s \in NodeState,
           NEW n \in 0..MaxSerial
    PROVE  [t EXCEPT !.nodes[g].state = s, !.nodes[g].serial = n] \in Train
<1> DEFINE node == [t.nodes[g] EXCEPT !.state = s, !.serial = n]
           nodes == [t.nodes EXCEPT ![g] = node]
<1>1. node \in Node
  BY KnownGoalType DEF Node
<1>2. nodes \in [Goals -> Node \cup {None}]
  BY <1>1 DEF Train
<1>3. [t EXCEPT !.nodes[g].state = s, !.nodes[g].serial = n]
        = [t EXCEPT !.nodes = nodes]
  BY KnownGoalType DEF Train
<1> QED
  BY <1>2, <1>3, PartsType

\* Starting a known goal yields a train.
LEMMA DispatchType ==
    ASSUME NEW t \in Train, NEW g \in KnownGoals(t), CanDispatch(t)
    PROVE  Dispatch(t, g) \in Train
<1>1. t.dispatch_serial + 1 \in 0..MaxSerial
  BY BoundsAssumption DEF CanDispatch, Train
<1> DEFINE node == [t.nodes[g] EXCEPT !.state = "Running",
                                      !.serial = t.dispatch_serial + 1]
           nodes == [t.nodes EXCEPT ![g] = node]
<1>2. node \in Node
  BY <1>1, KnownGoalType DEF Node, NodeState
<1>3. nodes \in [Goals -> Node \cup {None}]
  BY <1>2 DEF Train
<1>4. Dispatch(t, g) = [t EXCEPT !.dispatch_serial = t.dispatch_serial + 1,
                                 !.nodes = nodes]
  BY KnownGoalType DEF Dispatch, Train
<1> HIDE DEF nodes
<1> QED
  BY <1>1, <1>3, <1>4 DEF Train

\* finish yields a train, whatever receipt it is given.
LEMMA FinishType ==
    ASSUME NEW t \in Train, NEW d, NEW ok \in BOOLEAN
    PROVE  Finish(t, d, ok) \in Train
<1>1. CASE ~Accepts(t, d)
  BY <1>1 DEF Finish
<1>2. CASE Accepts(t, d)
  <2>1. d.goal \in KnownGoals(t)
    BY <1>2 DEF Accepts, RunningGoals, InState
  <2>2. \A s \in NodeState : Settled(t, d.goal, s) \in Train
    <3> SUFFICES ASSUME NEW s \in NodeState
                 PROVE  Settled(t, d.goal, s) \in Train
      OBVIOUS
    <3>1. 0 \in 0..MaxSerial
      BY BoundsAssumption
    <3> QED
      BY <2>1, <3>1, NodeType DEF Settled
  <2> QED
    BY <1>2, <2>2, CaptureFailuresType DEF Finish, NodeState
<1> QED
  BY <1>1, <1>2

\* reconcile yields a train.
LEMMA ReconcileType ==
    ASSUME NEW t \in Train, NEW valid
    PROVE  Reconcile(t, valid) \in Train
<1> DEFINE nodes == Reconcile(t, valid).nodes
           captured == CaptureFailures(t)
<1>1. captured \in Train
  BY CaptureFailuresType
<1>2. Reconcile(t, valid) = [captured EXCEPT !.nodes = nodes]
  BY <1>1 DEF Reconcile, Train
<1>3. ASSUME NEW g \in Goals
      PROVE  nodes[g] \in Node \cup {None}
  <2>1. nodes[g] \in {t.nodes[g],
                      [t.nodes[g] EXCEPT !.state = "Complete", !.serial = 0],
                      [t.nodes[g] EXCEPT !.state = "Pending", !.serial = 0]}
    BY <1>1 DEF Reconcile, Train
  <2>2. t.nodes[g] \in Node =>
          /\ [t.nodes[g] EXCEPT !.state = "Complete", !.serial = 0] \in Node
          /\ [t.nodes[g] EXCEPT !.state = "Pending", !.serial = 0] \in Node
    <3>1. 0 \in 0..MaxSerial
      BY BoundsAssumption
    <3> SUFFICES ASSUME NEW n \in Node
                 PROVE  /\ [n EXCEPT !.state = "Complete", !.serial = 0] \in Node
                        /\ [n EXCEPT !.state = "Pending", !.serial = 0] \in Node
      OBVIOUS
    <3> QED
      BY <3>1 DEF Node, NodeState
  <2>3. g \notin KnownGoals(t) => nodes[g] = t.nodes[g]
    BY <1>1 DEF Reconcile, Train, InState
  <2> QED
    BY <2>1, <2>2, <2>3 DEF Train, KnownGoals
<1>4. nodes = [g \in Goals |-> nodes[g]]
  BY <1>1 DEF Reconcile, Train
<1>5. nodes \in [Goals -> Node \cup {None}]
  BY <1>3, <1>4
<1> HIDE DEF nodes, captured
<1> QED
  BY <1>1, <1>2, <1>5, PartsType

\* fence and release_fence yield trains.
LEMMA FenceType ==
    ASSUME NEW t \in Train
    PROVE  /\ \A a \in Attempts : CanFence(t, a) => SetFence(t, a) \in Train
           /\ ReleaseFence(t) \in Train
<1>1. ASSUME NEW a \in Attempts, CanFence(t, a)
      PROVE  SetFence(t, a) \in Train
  <2>1. CASE t.fence # None
    BY <2>1 DEF SetFence
  <2>2. CASE t.fence = None
    <3>1. t.sequence + 1 \in 0..MaxSequence
      BY <1>1, <2>2, BoundsAssumption DEF CanFence, Train
    <3>2. [attempt |-> a, token |-> <<a, t.sequence + 1>>] \in Fence
      BY <3>1 DEF Fence
    <3> QED
      BY <2>2, <3>1, <3>2 DEF SetFence, Train
  <2> QED
    BY <2>1, <2>2
<1>2. ReleaseFence(t) \in Train
  BY DEF ReleaseFence, Train
<1> QED
  BY <1>1, <1>2

-----------------------------------------------------------------------------
(* Scheduling.                                                             *)

\* A chosen goal is of the frontier: known, pending, without a running
\* sibling and with its inputs.
LEMMA ChoiceReady ==
    ASSUME NEW t, NEW now, NEW eligible, NEW g \in Choices(t, now, eligible)
    PROVE  /\ g \in KnownGoals(t)
           /\ t.nodes[g].state = "Pending"
           /\ \A h \in RunningGoals(t) : DerivationOf[h] # DerivationOf[g]
           /\ t.nodes[g].definition.operation = "Build" =>
                t.nodes[g].definition.dependencies \subseteq InState(t, "Complete")
           /\ \E i \in Interests(t) : g \in i.needed
<1>1. g \in Frontier(t, eligible)
  BY DEF Choices
<1> QED
  BY <1>1 DEF Frontier, InState

-----------------------------------------------------------------------------
(* Evidence.                                                               *)

\* Evidence leads from goals to goals.
LEMMA EvidenceType ==
    ASSUME NEW t \in Train
    PROVE  \A g \in Goals : Evidence(t)[g] \subseteq Goals
BY KnownGoalType DEF Evidence, KnownGoals

\* What a request needs belongs to its evidence.
LEMMA NeededRetained ==
    ASSUME NEW t \in Train, NEW a \in Known(t)
    PROVE  Needed(t, RootsOf(t, a)) \cap KnownGoals(t) \subseteq RetainedGraph(t, a)
<1> DEFINE C == Closure(RootsOf(t, a), Evidence(t))
<1>1. C \in SUBSET Goals
  BY DEF Closure
<1>2. RootsOf(t, a) \subseteq C
  BY KnownType, ClosureContains
<1>3. \A g \in C : Evidence(t)[g] \subseteq C
  BY KnownType, EvidenceType, ClosureClosed
<1>4. \A g \in C : BuildInputs(t)[g] \subseteq C
  BY <1>1, <1>3 DEF BuildInputs, Evidence
<1>5. Closure(RootsOf(t, a), BuildInputs(t)) \subseteq C
  BY <1>1, <1>2, <1>4, ClosureLeast
<1> QED
  BY <1>5 DEF Needed, RetainedGraph

\* A known root is retained.
LEMMA RootsRetained ==
    ASSUME NEW t \in Train, NEW a \in Known(t)
    PROVE  RootsOf(t, a) \cap KnownGoals(t) \subseteq RetainedGraph(t, a)
BY KnownType, ClosureContains DEF RetainedGraph

\* With a goal its known dependencies are retained.
LEMMA DependenciesRetained ==
    ASSUME NEW t \in Train, NEW a \in Known(t), NEW g \in RetainedGraph(t, a)
    PROVE  t.nodes[g].definition.dependencies \cap KnownGoals(t)
             \subseteq RetainedGraph(t, a)
<1>1. g \in KnownGoals(t) /\ g \in Closure(RootsOf(t, a), Evidence(t))
  BY DEF RetainedGraph
<1>2. Evidence(t)[g] \subseteq Closure(RootsOf(t, a), Evidence(t))
  BY <1>1, KnownType, EvidenceType, ClosureClosed
<1>3. Evidence(t)[g] = t.nodes[g].definition.dependencies
  BY <1>1 DEF Evidence, KnownGoals
<1> QED
  BY <1>2, <1>3 DEF RetainedGraph

\* Retained goals stay retained as long as their own evidence stays.
LEMMA RetainedKept ==
    ASSUME NEW t \in Train, NEW u \in Train, NEW a \in Known(t), a \in Known(u),
           RootsOf(u, a) = RootsOf(t, a),
           RetainedGraph(t, a) \subseteq KnownGoals(u),
           \A g \in RetainedGraph(t, a) :
             u.nodes[g].definition.dependencies = t.nodes[g].definition.dependencies
    PROVE  RetainedGraph(t, a) \subseteq RetainedGraph(u, a)
<1> DEFINE roots == RootsOf(t, a)
           C == Closure(roots, Evidence(t))
           D == Closure(roots, Evidence(u))
<1>1. roots \in SUBSET Goals
  BY KnownType
<1>2. roots \subseteq C \cap D
  BY <1>1, ClosureContains
<1>3. \A g \in C : Evidence(t)[g] \subseteq C
  BY <1>1, EvidenceType, ClosureClosed
<1>4. \A g \in D : Evidence(u)[g] \subseteq D
  BY <1>1, EvidenceType, ClosureClosed
<1>5. ASSUME NEW g \in C \cap D
      PROVE  Evidence(t)[g] \subseteq C \cap D
  <2>1. CASE g \in KnownGoals(t)
    <3>1. g \in RetainedGraph(t, a)
      BY <2>1 DEF RetainedGraph
    <3>2. Evidence(t)[g] = Evidence(u)[g]
      BY <2>1, <3>1 DEF Evidence, KnownGoals
    <3> QED
      BY <1>3, <1>4, <3>2
  <2>2. CASE g \notin KnownGoals(t)
    BY <2>2 DEF Evidence, KnownGoals, Closure
  <2> QED
    BY <2>1, <2>2
<1>6. C \cap D \in SUBSET Goals
  BY DEF Closure
<1>7. C \subseteq C \cap D
  <2> HIDE DEF C, D
  <2>1. \A g \in C \cap D : Evidence(t)[g] \subseteq C \cap D
    BY <1>5
  <2>2. Closure(roots, Evidence(t)) \subseteq C \cap D
    BY <1>2, <1>6, <2>1, ClosureLeast
  <2> QED
    BY <2>2 DEF C
<1> QED
  BY <1>7 DEF RetainedGraph

\* Closed evidence retains nothing more as long as it stays.
LEMMA RetainedNoMore ==
    ASSUME NEW t \in Train, NEW u \in Train, NEW a \in Known(t), EvidenceClosedIn(t),
           RootsOf(u, a) = RootsOf(t, a),
           RootsOf(t, a) \subseteq KnownGoals(t),
           \A g \in RetainedGraph(t, a) \cap KnownGoals(u) :
             u.nodes[g].definition.dependencies = t.nodes[g].definition.dependencies
    PROVE  RetainedGraph(u, a) \subseteq RetainedGraph(t, a)
<1> DEFINE G == RetainedGraph(t, a)
<1>1. G \in SUBSET Goals /\ G \subseteq KnownGoals(t)
  BY DEF RetainedGraph, KnownGoals
<1>2. RootsOf(t, a) \subseteq G
  BY RootsRetained
<1>3. ASSUME NEW g \in G
      PROVE  Evidence(u)[g] \subseteq G
  <2>1. CASE g \in KnownGoals(u)
    <3>1. Evidence(u)[g] = t.nodes[g].definition.dependencies
      BY <1>1, <2>1 DEF Evidence, KnownGoals
    <3>2. t.nodes[g].definition.dependencies \subseteq KnownGoals(t)
      BY <1>1 DEF EvidenceClosedIn
    <3> QED
      BY <3>1, <3>2, DependenciesRetained
  <2>2. CASE g \notin KnownGoals(u)
    BY <1>1, <2>2 DEF Evidence, KnownGoals
  <2> QED
    BY <2>1, <2>2
<1> HIDE DEF G
<1>4. Closure(RootsOf(u, a), Evidence(u)) \subseteq G
  BY <1>1, <1>2, <1>3, ClosureLeast
<1> QED
  BY <1>4 DEF RetainedGraph, G

\* A train that only learns goals and requests keeps closed evidence closed and
\* owned goals owned.
LEMMA GrowthKeepsEvidence ==
    ASSUME NEW t \in Train, NEW u \in Train, EvidenceClosedIn(t),
           Known(t) \subseteq Known(u),
           \A a \in Known(t) : RootsOf(u, a) = RootsOf(t, a),
           \A a \in Known(u) :
             u.requests[a].prepared => RootsOf(u, a) \subseteq KnownGoals(u),
           KnownGoals(t) \subseteq KnownGoals(u),
           \A g \in KnownGoals(t) :
             u.nodes[g].definition.dependencies = t.nodes[g].definition.dependencies,
           \A g \in KnownGoals(u) \ KnownGoals(t) :
             u.nodes[g].definition.dependencies \subseteq KnownGoals(u)
    PROVE  /\ EvidenceClosedIn(u)
           /\ \A a \in Known(t) : RetainedGraph(t, a) \subseteq RetainedGraph(u, a)
<1>1. EvidenceClosedIn(u)
  BY DEF EvidenceClosedIn
<1>2. ASSUME NEW a \in Known(t)
      PROVE  RetainedGraph(t, a) \subseteq RetainedGraph(u, a)
  <2>1. RetainedGraph(t, a) \subseteq KnownGoals(t)
    BY DEF RetainedGraph
  <2> QED
    BY <2>1, RetainedKept
<1> QED
  BY <1>1, <1>2

-----------------------------------------------------------------------------
(* Every method keeps a sound train sound.                                 *)

\* A change that leaves the nodes alone and prepares no request.
LEMMA SameNodesSound ==
    ASSUME NEW t \in Train, NEW u \in Train, Sound(t), u.nodes = t.nodes,
           Known(t) \subseteq Known(u),
           \A a \in Known(t) : RootsOf(u, a) = RootsOf(t, a),
           \A a \in Known(u) :
             u.requests[a].prepared => a \in Known(t) /\ t.requests[a].prepared
    PROVE  Sound(u)
<1>1. /\ KnownGoals(u) = KnownGoals(t)
      /\ RunningGoals(u) = RunningGoals(t)
      /\ \A s : InState(u, s) = InState(t, s)
  BY DEF KnownGoals, RunningGoals, InState
<1>2. \A a \in Known(u) :
        u.requests[a].prepared => RootsOf(u, a) \subseteq KnownGoals(u)
  BY <1>1 DEF Sound, EvidenceClosedIn
<1>3. /\ EvidenceClosedIn(u)
      /\ \A a \in Known(t) : RetainedGraph(t, a) \subseteq RetainedGraph(u, a)
  BY <1>1, <1>2, GrowthKeepsEvidence DEF Sound
<1>4. RunningOwnedIn(u)
  BY <1>1, <1>3 DEF Sound, RunningOwnedIn
<1>5. OneWorkerIn(u) /\ InputsPresentIn(u)
  BY <1>1 DEF Sound, OneWorkerIn, InputsPresentIn
<1> QED
  BY <1>3, <1>4, <1>5 DEF Sound

\* A change of node states that starts nothing, and takes no complete goal back
\* while anything runs.
LEMMA NewStatesSound ==
    ASSUME NEW t \in Train, NEW u \in Train, Sound(t),
           Known(u) = Known(t),
           \A a \in Known(t) : /\ RootsOf(u, a) = RootsOf(t, a)
                               /\ u.requests[a].prepared => t.requests[a].prepared,
           KnownGoals(u) = KnownGoals(t),
           \A g \in KnownGoals(t) : u.nodes[g].definition = t.nodes[g].definition,
           RunningGoals(u) \subseteq RunningGoals(t),
           RunningGoals(u) # {} =>
             InState(t, "Complete") \subseteq InState(u, "Complete")
    PROVE  Sound(u)
<1>1. /\ EvidenceClosedIn(u)
      /\ \A a \in Known(t) : RetainedGraph(t, a) \subseteq RetainedGraph(u, a)
  BY GrowthKeepsEvidence DEF Sound, EvidenceClosedIn
<1>2. RunningOwnedIn(u)
  BY <1>1 DEF Sound, RunningOwnedIn
<1>3. OneWorkerIn(u)
  BY DEF Sound, OneWorkerIn
<1>4. InputsPresentIn(u)
  BY DEF Sound, InputsPresentIn, RunningGoals, InState
<1> QED
  BY <1>1, <1>2, <1>3, <1>4 DEF Sound

\* An empty train is sound.
LEMMA NewTrainSound == Sound(NewTrain)
BY DEF Sound, NewTrain, EvidenceClosedIn, RunningOwnedIn, OneWorkerIn,
       InputsPresentIn, Known, KnownGoals, RunningGoals, InState

\* register
LEMMA RegisterSound ==
    ASSUME NEW t \in Train, NEW r \in Request, NEW admitted \in BOOLEAN,
           CanRegister(t, r), Sound(t)
    PROVE  Sound(Register(t, r, admitted))
<1> DEFINE u == Register(t, r, admitted)
<1>1. CASE r.attempt \in Known(t)
  BY <1>1 DEF Register
<1>2. CASE r.attempt \notin Known(t)
  <2>1. ~u.requests[r.attempt].prepared
    BY <1>2 DEF Register, Train, Request
  <2>2. /\ u \in Train
        /\ u.nodes = t.nodes
        /\ Known(u) = Known(t) \cup {r.attempt}
        /\ \A a \in Known(t) : u.requests[a] = t.requests[a]
    BY RegisterType, RegisteredRecord
  <2> HIDE DEF u
  <2>3. \A a \in Known(t) : RootsOf(u, a) = RootsOf(t, a)
    BY <2>2 DEF RootsOf
  <2>4. Sound(u)
    BY <2>1, <2>2, <2>3, SameNodesSound
  <2> QED
    BY <2>4 DEF u
<1> QED
  BY <1>1, <1>2

\* What the commands on one request leave of the records.
LEMMA CommandEffect ==
    ASSUME NEW t \in Train, NEW a \in Known(t),
           NEW u \in {PreparationFailed(t, a), Cancel(t, a), Hold(t, a), Admit(t, a)}
    PROVE  /\ u \in Train
           /\ u.nodes = t.nodes
           /\ u.fence = t.fence
           /\ u.dispatch_serial = t.dispatch_serial
           /\ Known(u) = Known(t)
           /\ \A b \in Known(t) :
                /\ u.requests[b].request = t.requests[b].request
                /\ u.requests[b].prepared = t.requests[b].prepared
<1>1. u \in Train
  BY CommandType
<1>2. /\ u.nodes = t.nodes
      /\ u.fence = t.fence
      /\ u.dispatch_serial = t.dispatch_serial
  BY DEF PreparationFailed, Cancel, Hold, Admit, Train
<1>3. \E record \in RequestRecord :
        /\ record.request = t.requests[a].request
        /\ record.prepared = t.requests[a].prepared
        /\ u.requests = [t.requests EXCEPT ![a] = record]
  <2> DEFINE W1 == [t.requests[a] EXCEPT !.preparation_error = TRUE]
             W2 == [t.requests[a] EXCEPT !.cancelled = TRUE]
             W3 == [t.requests[a] EXCEPT !.admitted = FALSE]
             W4 == [t.requests[a] EXCEPT !.admitted = TRUE]
  <2>1. \A w \in {W1, W2, W3, W4} :
          /\ w \in RequestRecord
          /\ w.request = t.requests[a].request
          /\ w.prepared = t.requests[a].prepared
    BY KnownType DEF RequestRecord
  <2>2. \E w \in {W1, W2, W3, W4} : u.requests = [t.requests EXCEPT ![a] = w]
    BY DEF PreparationFailed, Cancel, Hold, Admit, Train
  <2> HIDE DEF W1, W2, W3, W4
  <2> QED
    BY <2>1, <2>2
<1>4. Known(u) = Known(t)
  BY <1>3, NoneAssumption DEF Known, Train
<1>5. \A b \in Known(t) : /\ u.requests[b].request = t.requests[b].request
                          /\ u.requests[b].prepared = t.requests[b].prepared
  BY <1>3 DEF Known, Train
<1> QED
  BY <1>1, <1>2, <1>4, <1>5

\* preparation_failed, cancel, hold, admit
LEMMA CommandSound ==
    ASSUME NEW t \in Train, NEW a \in Known(t), Sound(t),
           NEW u \in {PreparationFailed(t, a), Cancel(t, a), Hold(t, a), Admit(t, a)}
    PROVE  Sound(u)
<1>1. /\ u \in Train
      /\ u.nodes = t.nodes
      /\ Known(u) = Known(t)
      /\ \A b \in Known(t) : u.requests[b].prepared = t.requests[b].prepared
  BY CommandEffect
<1>2. \A b \in Known(t) : RootsOf(u, b) = RootsOf(t, b)
  BY CommandEffect DEF RootsOf
<1> QED
  BY <1>1, <1>2, SameNodesSound

\* fence and release_fence
LEMMA FenceSound ==
    ASSUME NEW t \in Train, Sound(t)
    PROVE  /\ \A a \in Attempts : CanFence(t, a) => Sound(SetFence(t, a))
           /\ Sound(ReleaseFence(t))
<1>1. ASSUME NEW u \in Train, u.nodes = t.nodes, u.requests = t.requests
      PROVE  Sound(u)
  <2>1. /\ Known(u) = Known(t)
        /\ \A a \in Known(t) : RootsOf(u, a) = RootsOf(t, a)
    BY <1>1 DEF Known, RootsOf
  <2>2. \A a \in Known(u) :
          u.requests[a].prepared => a \in Known(t) /\ t.requests[a].prepared
    BY <1>1, <2>1
  <2> QED
    BY <1>1, <2>1, <2>2, SameNodesSound
<1>2. ASSUME NEW a \in Attempts, CanFence(t, a)
      PROVE  Sound(SetFence(t, a))
  <2>1. SetFence(t, a) \in Train
    BY <1>2, FenceType
  <2>2. /\ SetFence(t, a).nodes = t.nodes
        /\ SetFence(t, a).requests = t.requests
    BY DEF SetFence, Train
  <2> QED
    BY <1>1, <2>1, <2>2
<1>3. Sound(ReleaseFence(t))
  <2>1. /\ ReleaseFence(t).nodes = t.nodes
        /\ ReleaseFence(t).requests = t.requests
    BY DEF ReleaseFence, Train
  <2> QED
    BY <1>1, <2>1, FenceType
<1> QED
  BY <1>2, <1>3

\* What capture_failures leaves of the records.
LEMMA CaptureEffect ==
    ASSUME NEW t \in Train
    PROVE  /\ CaptureFailures(t) \in Train
           /\ CaptureFailures(t).nodes = t.nodes
           /\ CaptureFailures(t).fence = t.fence
           /\ CaptureFailures(t).dispatch_serial = t.dispatch_serial
           /\ Known(CaptureFailures(t)) = Known(t)
           /\ \A a \in Known(t) :
                /\ CaptureFailures(t).requests[a].request = t.requests[a].request
                /\ CaptureFailures(t).requests[a].prepared = t.requests[a].prepared
<1> DEFINE u == CaptureFailures(t)
           With(a) == [t.requests[a] EXCEPT !.preparation_error = TRUE]
<1>1. u \in Train
  BY CaptureFailuresType
<1>2. /\ u.nodes = t.nodes
      /\ u.fence = t.fence
      /\ u.dispatch_serial = t.dispatch_serial
  BY DEF CaptureFailures, Train
<1>3. ASSUME NEW a \in Known(t)
      PROVE  /\ With(a) \in RequestRecord
             /\ With(a).request = t.requests[a].request
             /\ With(a).prepared = t.requests[a].prepared
  BY KnownType DEF RequestRecord
<1>4. ASSUME NEW a \in Attempts
      PROVE  IF a \in Known(t) THEN u.requests[a] \in {t.requests[a], With(a)}
                               ELSE u.requests[a] = t.requests[a]
  BY DEF CaptureFailures, Train
<1> HIDE DEF u, With
<1>5. Known(u) = Known(t)
  BY <1>3, <1>4, NoneAssumption DEF Known
<1>6. \A a \in Known(t) : /\ u.requests[a].request = t.requests[a].request
                          /\ u.requests[a].prepared = t.requests[a].prepared
  BY <1>3, <1>4 DEF Known
<1> QED
  BY <1>1, <1>2, <1>5, <1>6 DEF u

\* capture_failures
LEMMA CaptureSound ==
    ASSUME NEW t \in Train, Sound(t)
    PROVE  Sound(CaptureFailures(t))
<1>1. \A a \in Known(t) : RootsOf(CaptureFailures(t), a) = RootsOf(t, a)
  BY CaptureEffect DEF RootsOf
<1> QED
  BY <1>1, CaptureEffect, SameNodesSound

\* What a new state of one known goal leaves of the train.
LEMMA SettledEffect ==
    ASSUME NEW t \in Train, NEW g \in KnownGoals(t),
           NEW s \in NodeState \ {"Running"}
    PROVE  /\ Settled(t, g, s) \in Train
           /\ Settled(t, g, s).requests = t.requests
           /\ Settled(t, g, s).fence = t.fence
           /\ Settled(t, g, s).dispatch_serial = t.dispatch_serial
           /\ KnownGoals(Settled(t, g, s)) = KnownGoals(t)
           /\ RunningGoals(Settled(t, g, s)) = RunningGoals(t) \ {g}
           /\ \A h \in KnownGoals(t) :
                Settled(t, g, s).nodes[h].definition = t.nodes[h].definition
           /\ \A h \in Goals \ {g} : Settled(t, g, s).nodes[h] = t.nodes[h]
           /\ Settled(t, g, s).nodes[g].state = s
<1> DEFINE u == Settled(t, g, s)
           node == [t.nodes[g] EXCEPT !.state = s, !.serial = 0]
<1>1. 0 \in 0..MaxSerial
  BY BoundsAssumption
<1>2. u \in Train
  BY <1>1, NodeType DEF Settled
<1>3. /\ node \in Node
      /\ node.state = s
      /\ node.definition = t.nodes[g].definition
  BY <1>1, KnownGoalType DEF Node
<1>4. /\ u.requests = t.requests
      /\ u.fence = t.fence
      /\ u.dispatch_serial = t.dispatch_serial
      /\ u.nodes = [t.nodes EXCEPT ![g] = node]
  BY KnownGoalType DEF Settled, Train
<1> HIDE DEF u, node
<1>5. /\ u.nodes[g] = node
      /\ \A h \in Goals \ {g} : u.nodes[h] = t.nodes[h]
  BY <1>4, KnownGoalType DEF Train
<1>6. KnownGoals(u) = KnownGoals(t)
  BY <1>3, <1>5, NoneAssumption DEF KnownGoals
<1>7. RunningGoals(u) = RunningGoals(t) \ {g}
  BY <1>3, <1>5, <1>6 DEF RunningGoals, InState, KnownGoals
<1>8. \A h \in KnownGoals(t) : u.nodes[h].definition = t.nodes[h].definition
  BY <1>3, <1>5 DEF KnownGoals
<1> QED
  BY <1>2, <1>3, <1>4, <1>5, <1>6, <1>7, <1>8 DEF u

\* finish
LEMMA FinishSound ==
    ASSUME NEW t \in Train, NEW d, NEW ok \in BOOLEAN, Sound(t)
    PROVE  Sound(Finish(t, d, ok))
<1>1. CASE ~Accepts(t, d)
  BY <1>1 DEF Finish
<1>2. CASE Accepts(t, d)
  <2>1. d.goal \in KnownGoals(t) /\ t.nodes[d.goal].state = "Running"
    BY <1>2 DEF Accepts, RunningGoals, InState
  <2>2. ASSUME NEW s \in NodeState \ {"Running"}
        PROVE  Sound(Settled(t, d.goal, s)) /\ Settled(t, d.goal, s) \in Train
    <3> DEFINE u == Settled(t, d.goal, s)
    <3>1. /\ u \in Train
          /\ u.requests = t.requests
          /\ KnownGoals(u) = KnownGoals(t)
          /\ RunningGoals(u) \subseteq RunningGoals(t)
          /\ \A h \in KnownGoals(t) : u.nodes[h].definition = t.nodes[h].definition
          /\ \A h \in Goals \ {d.goal} : u.nodes[h] = t.nodes[h]
      BY <2>1, SettledEffect
    <3> HIDE DEF u
    <3>2. /\ Known(u) = Known(t)
          /\ \A a \in Known(t) :
               /\ RootsOf(u, a) = RootsOf(t, a)
               /\ u.requests[a].prepared => t.requests[a].prepared
      BY <3>1 DEF Known, RootsOf
    <3>3. InState(t, "Complete") \subseteq InState(u, "Complete")
      BY <2>1, <3>1 DEF InState, KnownGoals
    <3>4. Sound(u)
      BY <3>1, <3>2, <3>3, NewStatesSound
    <3> QED
      BY <3>1, <3>4 DEF u
  <2> QED
    BY <1>2, <2>2, CaptureSound DEF Finish, NodeState
<1> QED
  BY <1>1, <1>2

\* What an accepted receipt leaves of the train.
LEMMA FinishEffect ==
    ASSUME NEW t \in Train, NEW d, NEW ok \in BOOLEAN, Accepts(t, d)
    PROVE  /\ RunningGoals(Finish(t, d, ok)) = RunningGoals(t) \ {d.goal}
           /\ \A g \in RunningGoals(t) \ {d.goal} :
                Finish(t, d, ok).nodes[g] = t.nodes[g]
           /\ Finish(t, d, ok).dispatch_serial = t.dispatch_serial
           /\ Finish(t, d, ok).fence = t.fence
           /\ Known(Finish(t, d, ok)) = Known(t)
           /\ \A a \in Known(t) :
                /\ Finish(t, d, ok).requests[a].request = t.requests[a].request
                /\ Finish(t, d, ok).requests[a].prepared = t.requests[a].prepared
           /\ KnownGoals(Finish(t, d, ok)) = KnownGoals(t)
           /\ \A g \in KnownGoals(t) :
                Finish(t, d, ok).nodes[g].definition = t.nodes[g].definition
<1>1. d.goal \in KnownGoals(t)
  BY DEF Accepts, RunningGoals, InState
<1> DEFINE Settles(u) ==
             /\ RunningGoals(u) = RunningGoals(t) \ {d.goal}
             /\ \A g \in RunningGoals(t) \ {d.goal} : u.nodes[g] = t.nodes[g]
             /\ u.dispatch_serial = t.dispatch_serial
             /\ u.fence = t.fence
             /\ Known(u) = Known(t)
             /\ \A a \in Known(t) :
                  /\ u.requests[a].request = t.requests[a].request
                  /\ u.requests[a].prepared = t.requests[a].prepared
             /\ KnownGoals(u) = KnownGoals(t)
             /\ \A g \in KnownGoals(t) : u.nodes[g].definition = t.nodes[g].definition
<1>2. ASSUME NEW s \in NodeState \ {"Running"}
      PROVE  Settled(t, d.goal, s) \in Train /\ Settles(Settled(t, d.goal, s))
  BY <1>1, SettledEffect DEF RunningGoals, InState, KnownGoals, Known
<1>3. ASSUME NEW u \in Train, Settles(u)
      PROVE  Settles(CaptureFailures(u))
  BY <1>3, CaptureEffect DEF RunningGoals, InState, KnownGoals
<1>4. CASE ok
  BY <1>2, <1>4 DEF Finish, NodeState
<1>5. CASE ~ok
  <2> DEFINE failed == Settled(t, d.goal, "Failed")
  <2>1. "Failed" \in NodeState \ {"Running"}
    BY DEF NodeState
  <2>2. Finish(t, d, ok) = CaptureFailures(failed)
    BY <1>5 DEF Finish
  <2>3. failed \in Train /\ Settles(failed)
    BY <1>2, <2>1
  <2> HIDE DEF failed, Settles
  <2>4. Settles(Finish(t, d, ok))
    BY <1>3, <2>2, <2>3
  <2> QED
    BY <2>4 DEF Settles
<1> QED
  BY <1>4, <1>5

\* What retry leaves of the train.
LEMMA RetryEffect ==
    ASSUME NEW t \in Train, NEW a \in Known(t)
    PROVE  /\ Retry(t, a) \in Train
           /\ Known(Retry(t, a)) = Known(t)
           /\ \A b \in Known(t) :
                /\ RootsOf(Retry(t, a), b) = RootsOf(t, b)
                /\ Retry(t, a).requests[b].request = t.requests[b].request
                /\ Retry(t, a).requests[b].prepared = t.requests[b].prepared
           /\ Retry(t, a).fence = t.fence
           /\ Retry(t, a).dispatch_serial = t.dispatch_serial
           /\ KnownGoals(Retry(t, a)) = KnownGoals(t)
           /\ \A g \in KnownGoals(t) :
                Retry(t, a).nodes[g].definition = t.nodes[g].definition
           /\ RunningGoals(Retry(t, a)) = RunningGoals(t)
           /\ \A g \in RunningGoals(t) : Retry(t, a).nodes[g] = t.nodes[g]
           /\ InState(t, "Complete") \subseteq InState(Retry(t, a), "Complete")
<1> DEFINE u == Retry(t, a)
           captured == CaptureFailures(t)
           record == [captured.requests[a] EXCEPT !.cancelled = FALSE,
                        !.admitted = FALSE, !.preparation_error = FALSE]
           With(g) == [t.nodes[g] EXCEPT !.state = "Pending"]
<1>1. u \in Train
  BY RetryType
<1>2. captured \in Train /\ a \in Known(captured)
  BY CaptureEffect
<1>3. /\ u.requests = [captured.requests EXCEPT ![a] = record]
      /\ u.fence = t.fence
      /\ u.dispatch_serial = t.dispatch_serial
  BY <1>2, CaptureEffect DEF Retry, Train
<1>4. /\ record \in RequestRecord
      /\ record.request = captured.requests[a].request
      /\ record.prepared = captured.requests[a].prepared
  BY <1>2, KnownType DEF RequestRecord
<1>5. ASSUME NEW b \in Attempts
      PROVE  u.requests[b] = IF b = a THEN record ELSE captured.requests[b]
  BY <1>2, <1>3 DEF Train, Known
<1>6. Known(u) = Known(t)
  <2> HIDE DEF u, captured, record
  <2>1. Known(u) = Known(captured)
    BY <1>2, <1>4, <1>5, NoneAssumption DEF Known
  <2> QED
    BY <2>1, CaptureEffect DEF captured
<1>7. \A b \in Known(t) :
        /\ RootsOf(u, b) = RootsOf(t, b)
        /\ u.requests[b].request = t.requests[b].request
        /\ u.requests[b].prepared = t.requests[b].prepared
  <2> HIDE DEF u, record
  <2> SUFFICES ASSUME NEW b \in Known(t)
               PROVE  /\ u.requests[b].request = t.requests[b].request
                      /\ u.requests[b].prepared = t.requests[b].prepared
    BY DEF RootsOf
  <2>1. b \in Attempts
    BY DEF Known
  <2>2. /\ captured.requests[b].request = t.requests[b].request
        /\ captured.requests[b].prepared = t.requests[b].prepared
    BY CaptureEffect
  <2> QED
    BY <1>4, <1>5, <2>1, <2>2
<1>8. ASSUME NEW g \in Goals
      PROVE  u.nodes[g] = IF g \in RetryGoals(t, a) THEN With(g) ELSE t.nodes[g]
  BY <1>2, CaptureEffect DEF Retry, Train
<1>9. ASSUME NEW g \in RetryGoals(t, a)
      PROVE  /\ g \in KnownGoals(t)
             /\ t.nodes[g].state = "Failed"
             /\ With(g) \in Node
             /\ With(g).state = "Pending"
             /\ With(g).definition = t.nodes[g].definition
  <2>1. g \in KnownGoals(t) /\ t.nodes[g].state = "Failed"
    BY DEF RetryGoals, InState
  <2> QED
    BY <2>1, KnownGoalType DEF Node, NodeState
<1> HIDE DEF u, With
<1>10. KnownGoals(u) = KnownGoals(t)
  BY <1>8, <1>9, NoneAssumption DEF KnownGoals
<1>11. \A g \in KnownGoals(t) : u.nodes[g].definition = t.nodes[g].definition
  BY <1>8, <1>9 DEF KnownGoals
<1>12. RunningGoals(u) = RunningGoals(t)
  BY <1>8, <1>9, <1>10 DEF RunningGoals, InState, KnownGoals
<1>13. \A g \in RunningGoals(t) : u.nodes[g] = t.nodes[g]
  BY <1>8, <1>9 DEF RunningGoals, InState, KnownGoals
<1>14. InState(t, "Complete") \subseteq InState(u, "Complete")
  BY <1>8, <1>9, <1>10 DEF InState, KnownGoals
<1> QED
  BY <1>1, <1>3, <1>6, <1>7, <1>10, <1>11, <1>12, <1>13, <1>14 DEF u

\* retry
LEMMA RetrySound ==
    ASSUME NEW t \in Train, NEW a \in Known(t), Sound(t)
    PROVE  Sound(Retry(t, a))
<1> DEFINE u == Retry(t, a)
<1>1. /\ u \in Train
      /\ Known(u) = Known(t)
      /\ \A b \in Known(t) : /\ RootsOf(u, b) = RootsOf(t, b)
                             /\ u.requests[b].prepared = t.requests[b].prepared
      /\ KnownGoals(u) = KnownGoals(t)
      /\ \A g \in KnownGoals(t) : u.nodes[g].definition = t.nodes[g].definition
      /\ RunningGoals(u) = RunningGoals(t)
      /\ InState(t, "Complete") \subseteq InState(u, "Complete")
  BY RetryEffect
<1> HIDE DEF u
<1>2. Sound(u)
  BY <1>1, NewStatesSound
<1> QED
  BY <1>2 DEF u

\* What reconcile leaves of the train.
LEMMA ReconcileEffect ==
    ASSUME NEW t \in Train, NEW valid
    PROVE  /\ Reconcile(t, valid) \in Train
           /\ Known(Reconcile(t, valid)) = Known(t)
           /\ \A b \in Known(t) :
                /\ RootsOf(Reconcile(t, valid), b) = RootsOf(t, b)
                /\ Reconcile(t, valid).requests[b].request = t.requests[b].request
                /\ Reconcile(t, valid).requests[b].prepared = t.requests[b].prepared
           /\ Reconcile(t, valid).fence = t.fence
           /\ Reconcile(t, valid).dispatch_serial = t.dispatch_serial
           /\ KnownGoals(Reconcile(t, valid)) = KnownGoals(t)
           /\ \A g \in KnownGoals(t) :
                Reconcile(t, valid).nodes[g].definition = t.nodes[g].definition
           /\ RunningGoals(Reconcile(t, valid)) = {}
<1> DEFINE u == Reconcile(t, valid)
           captured == CaptureFailures(t)
           Done(g) == [t.nodes[g] EXCEPT !.state = "Complete", !.serial = 0]
           Again(g) == [t.nodes[g] EXCEPT !.state = "Pending", !.serial = 0]
<1>1. u \in Train
  BY ReconcileType
<1>2. /\ u.requests = captured.requests
      /\ u.fence = t.fence
      /\ u.dispatch_serial = t.dispatch_serial
  BY CaptureEffect DEF Reconcile, Train
<1>3. /\ Known(u) = Known(t)
      /\ \A b \in Known(t) :
           /\ RootsOf(u, b) = RootsOf(t, b)
           /\ u.requests[b].request = t.requests[b].request
           /\ u.requests[b].prepared = t.requests[b].prepared
  <2> HIDE DEF u
  <2>1. Known(u) = Known(captured)
    BY <1>2 DEF Known
  <2> QED
    BY <1>2, <2>1, CaptureEffect DEF RootsOf
<1>4. ASSUME NEW g \in KnownGoals(t)
      PROVE  /\ u.nodes[g] \in {Done(g), Again(g), t.nodes[g]}
             /\ u.nodes[g] = t.nodes[g] => t.nodes[g].state # "Running"
  <2>1. u.nodes[g] = CASE g \in KnownGoals(t) \cap valid -> Done(g)
                       [] g \in (InState(t, "Running") \cup InState(t, "Complete"))
                                \ valid -> Again(g)
                       [] OTHER -> t.nodes[g]
    BY CaptureFailuresType, KnownGoalType DEF Reconcile, Train
  <2>2. Done(g).state = "Complete" /\ Again(g).state = "Pending"
    BY KnownGoalType DEF Node
  <2> HIDE DEF Done, Again
  <2> QED
    BY <2>1, <2>2 DEF InState
<1>5. ASSUME NEW g \in Goals, g \notin KnownGoals(t)
      PROVE  u.nodes[g] = None
  BY <1>5, CaptureFailuresType DEF Reconcile, Train, InState, KnownGoals
<1>6. ASSUME NEW g \in KnownGoals(t)
      PROVE  /\ g \in Goals
             /\ Done(g) \in Node /\ Again(g) \in Node /\ t.nodes[g] \in Node
             /\ Done(g).state # "Running" /\ Again(g).state # "Running"
             /\ Done(g).definition = t.nodes[g].definition
             /\ Again(g).definition = t.nodes[g].definition
  <2>1. 0 \in 0..MaxSerial
    BY BoundsAssumption
  <2> QED
    BY <2>1, KnownGoalType DEF Node, NodeState
<1> HIDE DEF u, Done, Again
<1>7. KnownGoals(u) = KnownGoals(t)
  BY <1>4, <1>5, <1>6, NoneAssumption DEF KnownGoals
<1>8. \A g \in KnownGoals(t) : u.nodes[g].definition = t.nodes[g].definition
  BY <1>4, <1>6
<1>9. RunningGoals(u) = {}
  BY <1>4, <1>6, <1>7 DEF RunningGoals, InState
<1> QED
  BY <1>1, <1>2, <1>3, <1>7, <1>8, <1>9 DEF u

\* reconcile
LEMMA ReconcileSound ==
    ASSUME NEW t \in Train, NEW valid, Sound(t)
    PROVE  Sound(Reconcile(t, valid))
BY ReconcileEffect, NewStatesSound

\* Dispatching changes one node: it runs, under the next serial.
LEMMA DispatchEffect ==
    ASSUME NEW t \in Train, NEW g \in KnownGoals(t), CanDispatch(t)
    PROVE  /\ KnownGoals(Dispatch(t, g)) = KnownGoals(t)
           /\ Dispatch(t, g).requests = t.requests
           /\ Dispatch(t, g).fence = t.fence
           /\ Dispatch(t, g).dispatch_serial = t.dispatch_serial + 1
           /\ \A h \in Goals \ {g} : Dispatch(t, g).nodes[h] = t.nodes[h]
           /\ Dispatch(t, g).nodes[g].definition = t.nodes[g].definition
           /\ Dispatch(t, g).nodes[g].state = "Running"
           /\ Dispatch(t, g).nodes[g].serial = t.dispatch_serial + 1
<1> DEFINE node == [t.nodes[g] EXCEPT !.state = "Running",
                                      !.serial = t.dispatch_serial + 1]
           nodes == [t.nodes EXCEPT ![g] = node]
<1>1. g \in Goals /\ t.nodes[g] \in Node
  BY KnownGoalType
<1>2. Dispatch(t, g) = [t EXCEPT !.dispatch_serial = t.dispatch_serial + 1,
                                 !.nodes = nodes]
  BY <1>1 DEF Dispatch, Train
<1>3. /\ node.definition = t.nodes[g].definition
      /\ node.state = "Running"
      /\ node.serial = t.dispatch_serial + 1
  BY <1>1 DEF Node
<1>4. node # None
  <2>1. t.dispatch_serial + 1 \in 0..MaxSerial
    BY BoundsAssumption DEF CanDispatch, Train
  <2>2. node \in Node
    BY <1>1, <2>1 DEF Node, NodeState
  <2> QED
    BY <2>2, NoneAssumption
<1> HIDE DEF node
<1> QED
  BY <1>1, <1>2, <1>3, <1>4 DEF Train, KnownGoals

\* dispatch_where
LEMMA DispatchSound ==
    ASSUME NEW t \in Train, Sound(t), CanDispatch(t),
           NEW now, NEW eligible, NEW g \in Choices(t, now, eligible)
    PROVE  Sound(Dispatch(t, g))
<1> DEFINE u == Dispatch(t, g)
<1>1. /\ g \in KnownGoals(t)
      /\ \A h \in RunningGoals(t) : DerivationOf[h] # DerivationOf[g]
      /\ t.nodes[g].state = "Pending"
      /\ t.nodes[g].definition.operation = "Build" =>
           t.nodes[g].definition.dependencies \subseteq InState(t, "Complete")
  BY ChoiceReady
<1>2. /\ u \in Train
      /\ KnownGoals(u) = KnownGoals(t)
      /\ u.requests = t.requests
      /\ \A h \in Goals \ {g} : u.nodes[h] = t.nodes[h]
      /\ u.nodes[g].definition = t.nodes[g].definition
      /\ u.nodes[g].state = "Running"
  BY <1>1, DispatchType, DispatchEffect
<1>3. PICK a \in Known(t) : t.requests[a].prepared /\ g \in Needed(t, RootsOf(t, a))
  <2>1. \E i \in Interests(t) : g \in i.needed
    BY ChoiceReady
  <2> QED
    BY <2>1 DEF Interests, NeededBy
<1>4. g \in RetainedGraph(t, a)
  BY <1>1, <1>3, NeededRetained
<1> HIDE DEF u
<1>5. /\ Known(u) = Known(t)
      /\ \A b \in Known(t) : RootsOf(u, b) = RootsOf(t, b)
      /\ \A h \in KnownGoals(t) : u.nodes[h].definition = t.nodes[h].definition
  BY <1>2 DEF Known, RootsOf, KnownGoals
<1>6. RunningGoals(u) = RunningGoals(t) \cup {g}
  BY <1>1, <1>2 DEF RunningGoals, InState, KnownGoals
<1>7. InState(t, "Complete") \subseteq InState(u, "Complete")
  BY <1>1, <1>2 DEF InState, KnownGoals
<1>8. /\ EvidenceClosedIn(u)
      /\ \A b \in Known(t) : RetainedGraph(t, b) \subseteq RetainedGraph(u, b)
  <2>1. /\ \A b \in Known(u) :
              u.requests[b].prepared => RootsOf(u, b) \subseteq KnownGoals(u)
    BY <1>2, <1>5 DEF Sound, EvidenceClosedIn
  <2>2. EvidenceClosedIn(t)
    BY DEF Sound
  <2> QED
    BY <1>2, <1>5, <2>1, <2>2, GrowthKeepsEvidence
<1>9. RunningOwnedIn(u)
  BY <1>3, <1>4, <1>5, <1>6, <1>8 DEF Sound, RunningOwnedIn
<1>10. OneWorkerIn(u)
  BY <1>1, <1>6 DEF Sound, OneWorkerIn
<1>11. InputsPresentIn(u)
  <2>1. RunningGoals(u) \subseteq KnownGoals(t)
    BY <1>2 DEF RunningGoals, InState
  <2> QED
    BY <1>1, <1>5, <1>6, <1>7, <2>1 DEF Sound, InputsPresentIn
<1>12. Sound(u)
  BY <1>8, <1>9, <1>10, <1>11 DEF Sound
<1> QED
  BY <1>12 DEF u

\* What submit leaves of the train: requests and goals only come in, only
\* pending nodes change, and they keep their evidence.
LEMMA SubmitEffect ==
    ASSUME NEW t \in Train, NEW r \in Request, NEW graph, NEW now \in 0..MaxClock,
           DOMAIN graph \subseteq Goals,
           \A g \in DOMAIN graph : graph[g] \in Definition,
           CanSubmit(t, r, graph)
    PROVE  /\ Known(Submit(t, r, graph, now)) = Known(t) \cup {r.attempt}
           /\ RootsOf(Submit(t, r, graph, now), r.attempt) = r.roots
           /\ \A a \in Known(t) :
                /\ RootsOf(Submit(t, r, graph, now), a) = RootsOf(t, a)
                /\ Submit(t, r, graph, now).requests[a].request = t.requests[a].request
           /\ \A a \in Known(t) \ {r.attempt} :
                Submit(t, r, graph, now).requests[a] = t.requests[a]
           /\ Submit(t, r, graph, now).fence = t.fence
           /\ Submit(t, r, graph, now).dispatch_serial = t.dispatch_serial
           /\ KnownGoals(Submit(t, r, graph, now)) = KnownGoals(t) \cup DOMAIN graph
           /\ \A g \in KnownGoals(t) :
                /\ Submit(t, r, graph, now).nodes[g].definition.dependencies
                     = t.nodes[g].definition.dependencies
                /\ Submit(t, r, graph, now).nodes[g].state = t.nodes[g].state
                /\ t.nodes[g].state # "Pending" =>
                     Submit(t, r, graph, now).nodes[g] = t.nodes[g]
           /\ \A g \in DOMAIN graph \ KnownGoals(t) :
                /\ Submit(t, r, graph, now).nodes[g].definition = graph[g]
                /\ Submit(t, r, graph, now).nodes[g].state = "Pending"
<1> DEFINE joined == Register(t, r, TRUE)
           nodes == JoinedNodes(t, r.roots, graph, now)
           record == [joined.requests[r.attempt] EXCEPT
                        !.prepared = TRUE, !.preparation_error = FALSE]
           u == Submit(t, r, graph, now)
<1>1. CanRegister(t, r)
  BY DEF CanSubmit
<1>2. /\ joined \in Train
      /\ r.attempt \in Attempts
      /\ Known(joined) = Known(t) \cup {r.attempt}
      /\ joined.requests[r.attempt].request = r
      /\ \A a \in Known(t) : joined.requests[a] = t.requests[a]
      /\ joined.nodes = t.nodes
  BY <1>1, RegisterType, RegisteredRecord DEF Request
<1>3. joined.fence = t.fence /\ joined.dispatch_serial = t.dispatch_serial
  BY DEF Register, Train
<1>4. /\ u.nodes = nodes
      /\ u.fence = joined.fence
      /\ u.dispatch_serial = joined.dispatch_serial
      /\ u.requests = [joined.requests EXCEPT ![r.attempt] = record]
  BY <1>2 DEF Submit, Train
<1>5. /\ record \in RequestRecord
      /\ record.request = r
  <2> HIDE DEF joined
  <2>1. joined.requests[r.attempt] \in RequestRecord
    BY <1>2, KnownType
  <2> QED
    BY <1>2, <2>1 DEF RequestRecord
<1>6. ASSUME NEW a \in Attempts
      PROVE  u.requests[a] = IF a = r.attempt THEN record ELSE joined.requests[a]
  BY <1>2, <1>4 DEF Train
<1>7. /\ Known(u) = Known(t) \cup {r.attempt}
      /\ RootsOf(u, r.attempt) = r.roots
      /\ \A a \in Known(t) : /\ RootsOf(u, a) = RootsOf(t, a)
                              /\ u.requests[a].request = t.requests[a].request
      /\ \A a \in Known(t) \ {r.attempt} : u.requests[a] = t.requests[a]
  <2> HIDE DEF u, record, joined
  <2>1. Known(u) = Known(joined)
    BY <1>2, <1>5, <1>6, NoneAssumption DEF Known
  <2>2. \A a \in Known(t) \ {r.attempt} : u.requests[a] = t.requests[a]
    BY <1>2, <1>6 DEF Known
  <2>3. u.requests[r.attempt].request = r
    BY <1>2, <1>5, <1>6
  <2>4. ASSUME NEW a \in Known(t)
        PROVE  u.requests[a].request = t.requests[a].request
    BY <1>2, <2>2, <2>3
  <2> QED
    BY <1>2, <2>1, <2>2, <2>3, <2>4 DEF RootsOf
<1>8. ASSUME NEW g \in Goals
      PROVE  nodes[g] \in Node \cup {None}
  BY JoinedNodesType
<1>9. ASSUME NEW g \in KnownGoals(t)
      PROVE  /\ g \in Goals
             /\ nodes[g] # None
             /\ nodes[g].definition.dependencies = t.nodes[g].definition.dependencies
             /\ nodes[g].state = t.nodes[g].state
             /\ t.nodes[g].state # "Pending" => nodes[g] = t.nodes[g]
  <2> DEFINE replanned == [t.nodes[g] EXCEPT
                             !.definition.operation = graph[g].operation]
  <2>1. g \in Goals /\ t.nodes[g] \in Node /\ t.nodes[g] # None
    BY KnownGoalType DEF KnownGoals
  <2>2. /\ replanned.definition.dependencies = t.nodes[g].definition.dependencies
        /\ replanned.state = t.nodes[g].state
    BY <2>1 DEF Node, Definition
  <2>3. nodes[g] = IF /\ g \in DOMAIN graph
                      /\ g \in MayReplan(t, r.roots, graph)
                      /\ t.nodes[g].state = "Pending"
                   THEN replanned ELSE t.nodes[g]
    BY <2>1 DEF JoinedNodes
  <2>4. replanned # None \/ g \notin DOMAIN graph
    <3>1. g \in DOMAIN graph => replanned \in Node
      BY <2>1 DEF Node, Definition
    <3> QED
      BY <3>1, NoneAssumption
  <2> HIDE DEF replanned, nodes
  <2> QED
    BY <2>1, <2>2, <2>3, <2>4
<1>10. ASSUME NEW g \in DOMAIN graph \ KnownGoals(t)
       PROVE  /\ nodes[g] # None
              /\ nodes[g].definition = graph[g]
              /\ nodes[g].state = "Pending"
  <2>1. nodes[g] = [definition |-> graph[g], state |-> "Pending",
                    serial |-> 0, queued_at |-> now]
    BY DEF JoinedNodes, KnownGoals
  <2>2. [definition |-> graph[g], state |-> "Pending",
         serial |-> 0, queued_at |-> now] \in Node
    BY BoundsAssumption DEF Node, NodeState
  <2>3. nodes[g] # None
    BY <2>1, <2>2, NoneAssumption
  <2> QED
    BY <2>1, <2>3
<1>11. ASSUME NEW g \in Goals, g \notin KnownGoals(t), g \notin DOMAIN graph
       PROVE  nodes[g] = None
  BY <1>11 DEF JoinedNodes, KnownGoals
<1> HIDE DEF u, nodes, joined
<1>12. KnownGoals(u) = KnownGoals(t) \cup DOMAIN graph
  BY <1>4, <1>9, <1>10, <1>11 DEF KnownGoals
<1> QED
  BY <1>3, <1>4, <1>7, <1>9, <1>10, <1>12 DEF u

\* submit
LEMMA SubmitSound ==
    ASSUME NEW t \in Train, NEW r \in Request, NEW graph, NEW now \in 0..MaxClock,
           DOMAIN graph \subseteq Goals,
           \A g \in DOMAIN graph : graph[g] \in Definition,
           CanSubmit(t, r, graph), Sound(t)
    PROVE  /\ Sound(Submit(t, r, graph, now))
           /\ RunningGoals(Submit(t, r, graph, now)) = RunningGoals(t)
<1> DEFINE u == Submit(t, r, graph, now)
<1>1. u \in Train
  BY SubmitType
<1>2. /\ Known(u) = Known(t) \cup {r.attempt}
      /\ RootsOf(u, r.attempt) = r.roots
      /\ \A a \in Known(t) : RootsOf(u, a) = RootsOf(t, a)
      /\ \A a \in Known(t) \ {r.attempt} : u.requests[a] = t.requests[a]
      /\ KnownGoals(u) = KnownGoals(t) \cup DOMAIN graph
      /\ \A g \in KnownGoals(t) :
           /\ u.nodes[g].definition.dependencies = t.nodes[g].definition.dependencies
           /\ u.nodes[g].state = t.nodes[g].state
           /\ t.nodes[g].state # "Pending" => u.nodes[g] = t.nodes[g]
      /\ \A g \in DOMAIN graph \ KnownGoals(t) :
           u.nodes[g].definition = graph[g] /\ u.nodes[g].state = "Pending"
  BY SubmitEffect
<1>3. r.roots \subseteq DOMAIN graph
  BY DEF CanSubmit, ValidGraph
<1>4. \A g \in DOMAIN graph : graph[g].dependencies \subseteq DOMAIN graph
  BY DEF CanSubmit, ValidGraph
<1> HIDE DEF u
<1>5. RunningGoals(u) = RunningGoals(t)
  BY <1>2 DEF RunningGoals, InState
<1>6. InState(t, "Complete") \subseteq InState(u, "Complete")
  BY <1>2 DEF InState
<1>7. /\ EvidenceClosedIn(u)
      /\ \A a \in Known(t) : RetainedGraph(t, a) \subseteq RetainedGraph(u, a)
  <2>1. ASSUME NEW a \in Known(u), u.requests[a].prepared
        PROVE  RootsOf(u, a) \subseteq KnownGoals(u)
    <3>1. CASE a = r.attempt
      BY <1>2, <1>3, <3>1
    <3>2. CASE a # r.attempt
      BY <1>2, <2>1, <3>2 DEF Sound, EvidenceClosedIn
    <3> QED
      BY <3>1, <3>2
  <2>2. \A g \in KnownGoals(u) \ KnownGoals(t) :
          u.nodes[g].definition.dependencies \subseteq KnownGoals(u)
    BY <1>2, <1>4
  <2>3. EvidenceClosedIn(t) /\ Known(t) \subseteq Known(u)
        /\ KnownGoals(t) \subseteq KnownGoals(u)
    BY <1>2 DEF Sound
  <2>4. /\ \A a \in Known(t) : RootsOf(u, a) = RootsOf(t, a)
        /\ \A g \in KnownGoals(t) :
             u.nodes[g].definition.dependencies = t.nodes[g].definition.dependencies
    BY <1>2
  <2> QED
    BY <1>1, <2>1, <2>2, <2>3, <2>4, GrowthKeepsEvidence
<1>8. RunningOwnedIn(u)
  BY <1>2, <1>5, <1>7 DEF Sound, RunningOwnedIn
<1>9. OneWorkerIn(u)
  BY <1>5 DEF Sound, OneWorkerIn
<1>10. InputsPresentIn(u)
  <2>1. \A g \in RunningGoals(t) : u.nodes[g] = t.nodes[g]
    BY <1>2 DEF RunningGoals, InState
  <2> QED
    BY <1>5, <1>6, <2>1 DEF Sound, InputsPresentIn
<1>11. Sound(u)
  BY <1>7, <1>8, <1>9, <1>10 DEF Sound
<1> QED
  BY <1>5, <1>11 DEF u

\* What retire leaves of the train.
LEMMA RetireEffect ==
    ASSUME NEW t \in Train, NEW a \in Known(t), Sound(t), CanRetire(t, a)
    PROVE  /\ Known(Retire(t, a)) = Known(t) \ {a}
           /\ \A b \in Known(t) \ {a} :
                Retire(t, a).requests[b] = t.requests[b]
           /\ Retire(t, a).fence = t.fence
           /\ Retire(t, a).dispatch_serial = t.dispatch_serial
           /\ KnownGoals(Retire(t, a)) =
                UNION {RetainedGraph(t, b) : b \in Known(t) \ {a}}
           /\ \A g \in KnownGoals(Retire(t, a)) :
                g \in KnownGoals(t) /\ Retire(t, a).nodes[g] = t.nodes[g]
           /\ RunningGoals(Retire(t, a)) = RunningGoals(t)
<1> DEFINE left == [t EXCEPT !.requests[a] = None]
           u == Retire(t, a)
           kept == UNION {RetainedGraph(t, b) : b \in Known(t) \ {a}}
           leftKept == UNION {RetainedGraph(left, b) : b \in Known(left)}
<1>1. a \in Attempts
  BY DEF Known
<1>2. /\ left.nodes = t.nodes
      /\ left.fence = t.fence
      /\ left.dispatch_serial = t.dispatch_serial
      /\ left.requests = [t.requests EXCEPT ![a] = None]
  BY DEF Train
<1>3. /\ u.requests = left.requests
      /\ u.fence = left.fence
      /\ u.dispatch_serial = left.dispatch_serial
      /\ \A g \in Goals : u.nodes[g] = IF g \in leftKept \cup RunningGoals(t)
                                       THEN t.nodes[g] ELSE None
  BY DEF Retire, Train
<1> HIDE DEF left, u
<1>4. /\ Known(left) = Known(t) \ {a}
      /\ \A b \in Known(t) \ {a} : left.requests[b] = t.requests[b]
  BY <1>1, <1>2 DEF Known, Train
<1>5. \A b \in Known(left) : RetainedGraph(left, b) = RetainedGraph(t, b)
  BY <1>2, <1>4 DEF RetainedGraph, RootsOf, Evidence, KnownGoals
<1>6. leftKept = kept
  BY <1>4, <1>5
<1>7. RunningGoals(t) \subseteq kept
  <2> SUFFICES ASSUME NEW g \in RunningGoals(t)
               PROVE  \E b \in Known(t) \ {a} : g \in RetainedGraph(t, b)
    OBVIOUS
  <2>1. PICK b \in Known(t) : g \in RetainedGraph(t, b)
    BY DEF Sound, RunningOwnedIn
  <2>2. b # a
    BY <2>1 DEF CanRetire
  <2> QED
    BY <2>1, <2>2
<1>8. kept \subseteq KnownGoals(t)
  BY DEF RetainedGraph
<1> HIDE DEF kept, leftKept
<1>9. KnownGoals(u) = kept
  BY <1>3, <1>6, <1>7, <1>8 DEF KnownGoals
<1>10. \A g \in KnownGoals(u) : g \in KnownGoals(t) /\ u.nodes[g] = t.nodes[g]
  BY <1>3, <1>6, <1>8, <1>9 DEF KnownGoals
<1>11. RunningGoals(u) = RunningGoals(t)
  BY <1>7, <1>9, <1>10 DEF RunningGoals, InState
<1>12. Known(u) = Known(t) \ {a}
  BY <1>3, <1>4 DEF Known
<1> QED
  BY <1>2, <1>3, <1>4, <1>9, <1>10, <1>11, <1>12 DEF u, kept

\* retire
LEMMA RetireSound ==
    ASSUME NEW t \in Train, NEW a \in Known(t), Sound(t), CanRetire(t, a)
    PROVE  Sound(Retire(t, a))
<1> DEFINE u == Retire(t, a)
<1>1. u \in Train
  BY RetireType DEF Known
<1>2. /\ Known(u) = Known(t) \ {a}
      /\ \A b \in Known(t) \ {a} : u.requests[b] = t.requests[b]
      /\ KnownGoals(u) = UNION {RetainedGraph(t, b) : b \in Known(t) \ {a}}
      /\ \A g \in KnownGoals(u) : g \in KnownGoals(t) /\ u.nodes[g] = t.nodes[g]
      /\ RunningGoals(u) = RunningGoals(t)
  BY RetireEffect
<1> HIDE DEF u
<1>3. \A b \in Known(u) : b \in Known(t) /\ RootsOf(u, b) = RootsOf(t, b)
  BY <1>2 DEF RootsOf
<1>4. \A b \in Known(u) : RetainedGraph(t, b) \subseteq KnownGoals(u)
  BY <1>2
<1>5. EvidenceClosedIn(u)
  <2>1. ASSUME NEW b \in Known(u), u.requests[b].prepared
        PROVE  RootsOf(u, b) \subseteq KnownGoals(u)
    <3>1. RootsOf(t, b) \subseteq KnownGoals(t)
      BY <1>2, <2>1 DEF Sound, EvidenceClosedIn
    <3>2. RootsOf(t, b) \subseteq RetainedGraph(t, b)
      BY <1>3, <3>1, RootsRetained
    <3> QED
      BY <1>3, <1>4, <3>2
  <2>2. ASSUME NEW g \in KnownGoals(u)
        PROVE  u.nodes[g].definition.dependencies \subseteq KnownGoals(u)
    <3>1. PICK b \in Known(u) : g \in RetainedGraph(t, b)
      BY <1>2
    <3>2. t.nodes[g].definition.dependencies \subseteq KnownGoals(t)
      BY <1>2 DEF Sound, EvidenceClosedIn
    <3>3. t.nodes[g].definition.dependencies \subseteq RetainedGraph(t, b)
      BY <1>3, <3>1, <3>2, DependenciesRetained
    <3> QED
      BY <1>2, <1>4, <3>1, <3>3
  <2> QED
    BY <2>1, <2>2 DEF EvidenceClosedIn
<1>6. RunningOwnedIn(u)
  <2> SUFFICES ASSUME NEW g \in RunningGoals(u)
               PROVE  \E b \in Known(u) : g \in RetainedGraph(u, b)
    BY DEF RunningOwnedIn
  <2>1. g \in KnownGoals(u)
    BY DEF RunningGoals, InState
  <2>2. PICK b \in Known(u) : g \in RetainedGraph(t, b)
    BY <1>2, <2>1
  <2>3. \A h \in RetainedGraph(t, b) :
          u.nodes[h].definition.dependencies = t.nodes[h].definition.dependencies
    BY <1>2, <1>4
  <2>4. RetainedGraph(t, b) \subseteq RetainedGraph(u, b)
    BY <1>1, <1>3, <1>4, <2>3, RetainedKept
  <2> QED
    BY <2>2, <2>4
<1>7. OneWorkerIn(u)
  BY <1>2 DEF Sound, OneWorkerIn
<1>8. InputsPresentIn(u)
  <2> SUFFICES ASSUME NEW g \in RunningGoals(u),
                      u.nodes[g].definition.operation = "Build",
                      NEW h \in u.nodes[g].definition.dependencies
               PROVE  h \in InState(u, "Complete")
    BY DEF InputsPresentIn
  <2>1. g \in KnownGoals(u) /\ g \in RunningGoals(t)
    BY <1>2 DEF RunningGoals, InState
  <2>2. h \in InState(t, "Complete")
    BY <1>2, <2>1 DEF Sound, InputsPresentIn
  <2>3. h \in KnownGoals(u)
    BY <1>5, <2>1 DEF EvidenceClosedIn
  <2> QED
    BY <1>2, <2>2, <2>3 DEF InState
<1>9. Sound(u)
  BY <1>5, <1>6, <1>7, <1>8 DEF Sound
<1> QED
  BY <1>9 DEF u

-----------------------------------------------------------------------------
(* What a request is told depends on its own record and its evidence.      *)

\* A closure depends on `next` only where it gets.
LEMMA ClosureAgrees ==
    ASSUME NEW from \in SUBSET Goals, NEW f, NEW h,
           \A g \in Goals : f[g] \subseteq Goals,
           \A g \in Closure(from, f) : h[g] = f[g]
    PROVE  Closure(from, h) = Closure(from, f)
<1> DEFINE C == Closure(from, f)
           D == Closure(from, h)
<1>1. C \subseteq Goals /\ from \subseteq C /\ \A g \in C : f[g] \subseteq C
  BY ClosureContains, ClosureClosed DEF Closure
<1>2. D \subseteq C
  <2>1. \A g \in C : h[g] \subseteq C
    BY <1>1
  <2> HIDE DEF C
  <2> QED
    BY <1>1, <2>1, ClosureLeast
<1>3. C \subseteq D
  <2>1. from \subseteq D /\ D \subseteq Goals
    BY ClosureContains DEF Closure
  <2>2. ASSUME NEW g \in D PROVE h[g] \subseteq D
    <3>1. ASSUME NEW S \in SUBSET Goals, from \subseteq S, \A k \in S : h[k] \subseteq S
          PROVE  g \in S
      BY <3>1 DEF Closure
    <3>2. h[g] \subseteq Goals
      BY <1>1, <1>2
    <3> QED
      BY <3>2 DEF Closure
  <2>3. \A g \in D : f[g] \subseteq D
    BY <1>2, <2>2
  <2> HIDE DEF D
  <2> QED
    BY <2>1, <2>3, ClosureLeast
<1> QED
  BY <1>2, <1>3

\* The build inputs of a goal are goals, and part of its evidence.
LEMMA BuildInputsType ==
    ASSUME NEW t \in Train
    PROVE  \A g \in Goals : /\ BuildInputs(t)[g] \subseteq Goals
                            /\ BuildInputs(t)[g] \subseteq Evidence(t)[g]
BY KnownGoalType DEF BuildInputs, Evidence, KnownGoals

\* What a request needs lies within its evidence.
LEMMA NeedsWithin ==
    ASSUME NEW t \in Train, NEW roots \in SUBSET Goals
    PROVE  Needed(t, roots) \subseteq Closure(roots, Evidence(t))
<1> DEFINE E == Closure(roots, Evidence(t))
<1>1. E \in SUBSET Goals /\ roots \subseteq E /\ \A g \in E : Evidence(t)[g] \subseteq E
  BY EvidenceType, ClosureContains, ClosureClosed DEF Closure
<1>2. \A g \in E : BuildInputs(t)[g] \subseteq E
  BY <1>1, BuildInputsType
<1> HIDE DEF E
<1> QED
  BY <1>1, <1>2, ClosureLeast DEF Needed, E

\* A request with the same record, over the same nodes in its evidence, has
\* the same needs and the same outcome.
LEMMA SameEvidenceSameOutcome ==
    ASSUME NEW t \in Train, NEW u \in Train, NEW b \in Known(t),
           u.requests[b] = t.requests[b],
           \A g \in Closure(RootsOf(t, b), Evidence(t)) : u.nodes[g] = t.nodes[g]
    PROVE  /\ NeededBy(u, b) = NeededBy(t, b)
           /\ Outcome(u, b) = Outcome(t, b)
<1> DEFINE roots == RootsOf(t, b)
           E == Closure(roots, Evidence(t))
<1>1. roots \in SUBSET Goals /\ RootsOf(u, b) = roots
  BY KnownType DEF RootsOf
<1>2. E \in SUBSET Goals /\ roots \subseteq E
  BY <1>1, ClosureContains DEF Closure
<1>3. NeededBy(t, b) \subseteq E
  BY <1>1, NeedsWithin DEF NeededBy
<1>4. NeededBy(u, b) = NeededBy(t, b)
  <2>1. \A g \in Goals : BuildInputs(t)[g] \subseteq Goals
    BY BuildInputsType
  <2>2. \A g \in E : BuildInputs(u)[g] = BuildInputs(t)[g]
    BY <1>2 DEF BuildInputs
  <2>3. \A g \in Closure(roots, BuildInputs(t)) : BuildInputs(u)[g] = BuildInputs(t)[g]
    BY <1>3, <2>2 DEF NeededBy, Needed
  <2> HIDE DEF roots, E
  <2>4. Closure(roots, BuildInputs(u)) = Closure(roots, BuildInputs(t))
    BY <1>1, <2>1, <2>3, ClosureAgrees
  <2> QED
    BY <1>1, <2>4 DEF NeededBy, Needed, roots
<1>5. \A s : \A g \in E : (g \in InState(u, s)) = (g \in InState(t, s))
  BY <1>2 DEF InState, KnownGoals
<1>6. NeededBy(u, b) \cap InState(u, "Failed") = NeededBy(t, b) \cap InState(t, "Failed")
  BY <1>3, <1>4, <1>5
<1>7. (roots \subseteq InState(u, "Complete")) = (roots \subseteq InState(t, "Complete"))
  BY <1>2, <1>5
<1>8. Outcome(u, b) = Outcome(t, b)
  BY <1>1, <1>6, <1>7 DEF Outcome, NeededBy
<1> QED
  BY <1>4, <1>8

\* retire leaves every other request its record and its evidence.
LEMMA RetireApart ==
    ASSUME NEW t \in Train, NEW a \in Known(t), NEW b \in Known(t) \ {a}
    PROVE  /\ b \in Known(Retire(t, a))
           /\ Retire(t, a).requests[b] = t.requests[b]
           /\ NeededBy(Retire(t, a), b) = NeededBy(t, b)
           /\ Outcome(Retire(t, a), b) = Outcome(t, b)
<1> DEFINE left == [t EXCEPT !.requests[a] = None]
           u == Retire(t, a)
           E == Closure(RootsOf(t, b), Evidence(t))
<1>1. /\ left.nodes = t.nodes
      /\ left.requests = [t.requests EXCEPT ![a] = None]
      /\ u.requests = left.requests
  BY DEF Train, Retire
<1>2. /\ u.requests[b] = t.requests[b] /\ left.requests[b] = t.requests[b]
      /\ b \in Known(left) /\ b \in Known(u)
  BY <1>1 DEF Train, Known
<1>3. RetainedGraph(left, b) = KnownGoals(t) \cap E
  BY <1>1, <1>2 DEF RetainedGraph, KnownGoals, Evidence, RootsOf
<1>4. ASSUME NEW g \in E PROVE u.nodes[g] = t.nodes[g]
  <2>1. g \in Goals
    BY DEF Closure
  <2>2. CASE g \in KnownGoals(t)
    <3>1. g \in RetainedGraph(left, b)
      BY <1>3, <2>2
    <3> QED
      BY <1>2, <2>1, <3>1 DEF Retire, Train
  <2>3. CASE g \notin KnownGoals(t)
    BY <2>1, <2>3 DEF Retire, Train, KnownGoals
  <2> QED
    BY <2>2, <2>3
<1>5. u \in Train
  BY RetireType, KnownType
<1> HIDE DEF u
<1> QED
  BY <1>2, <1>4, <1>5, SameEvidenceSameOutcome DEF u

\* capture_failures marks the requests that fail now, and changes no other.
LEMMA CaptureKeeps ==
    ASSUME NEW t \in Train
    PROVE  /\ CaptureFailures(t).latest_activation = t.latest_activation
           /\ \A b \in Known(t) :
                /\ Outcome(t, b) # "Failed" => CaptureFailures(t).requests[b] = t.requests[b]
                /\ Outcome(t, b) = "Failed" =>
                     /\ CaptureFailures(t).requests[b].preparation_error
                     /\ CaptureFailures(t).requests[b].cancelled = t.requests[b].cancelled
<1>1. CaptureFailures(t).latest_activation = t.latest_activation
  BY DEF CaptureFailures, Train
<1>2. ASSUME NEW b \in Known(t)
      PROVE  CaptureFailures(t).requests[b] =
               IF ~t.requests[b].preparation_error /\ Outcome(t, b) = "Failed"
               THEN [t.requests[b] EXCEPT !.preparation_error = TRUE]
               ELSE t.requests[b]
  BY DEF CaptureFailures, Train, Known
<1>3. ASSUME NEW b \in Known(t), Outcome(t, b) = "Failed"
      PROVE  /\ CaptureFailures(t).requests[b].preparation_error
             /\ CaptureFailures(t).requests[b].cancelled = t.requests[b].cancelled
  <2>1. t.requests[b] \in RequestRecord
    BY KnownType
  <2> QED
    BY <1>2, <1>3, <2>1 DEF RequestRecord
<1> QED
  BY <1>1, <1>2, <1>3

\* A failure that is captured stays, whatever becomes of the nodes.
LEMMA CapturedFails ==
    ASSUME NEW t \in Train, NEW u, NEW b \in Known(t), Outcome(t, b) = "Failed",
           u.requests[b] = CaptureFailures(t).requests[b]
    PROVE  Outcome(u, b) = "Failed"
<1>1. ~t.requests[b].cancelled
  BY DEF Outcome
<1>2. u.requests[b].preparation_error /\ u.requests[b].cancelled = t.requests[b].cancelled
  BY CaptureKeeps
<1> QED
  BY <1>1, <1>2 DEF Outcome

\* retry changes the states of failed goals, and of other requests' records
\* only what capture_failures does.
LEMMA RetryChanges ==
    ASSUME NEW t \in Train, NEW a \in Known(t)
    PROVE  /\ \A b \in Known(t) \ {a} :
                Retry(t, a).requests[b] = CaptureFailures(t).requests[b]
           /\ \A g \in Goals :
                Retry(t, a).nodes[g] =
                  IF g \in RetryGoals(t, a) THEN [t.nodes[g] EXCEPT !.state = "Pending"]
                  ELSE t.nodes[g]
<1> DEFINE captured == CaptureFailures(t)
           record == [captured.requests[a] EXCEPT !.cancelled = FALSE,
                        !.admitted = FALSE, !.preparation_error = FALSE]
           nodes == [g \in Goals |-> IF g \in RetryGoals(t, a)
                                    THEN [t.nodes[g] EXCEPT !.state = "Pending"]
                                    ELSE t.nodes[g]]
<1>1. captured \in Train /\ captured.nodes = t.nodes
  BY CaptureEffect
<1> HIDE DEF captured
<1>2. /\ Retry(t, a).requests = [captured.requests EXCEPT ![a] = record]
      /\ Retry(t, a).nodes = nodes
  BY <1>1 DEF Retry, Train, captured
<1>3. \A b \in Known(t) \ {a} : Retry(t, a).requests[b] = captured.requests[b]
  <2> HIDE DEF record
  <2> QED
    BY <1>1, <1>2 DEF Train, Known
<1>4. \A g \in Goals : Retry(t, a).nodes[g] = nodes[g]
  BY <1>2
<1> QED
  BY <1>3, <1>4 DEF captured

\* retry leaves every other request its outcome.
LEMMA RetryApart ==
    ASSUME NEW t \in Train, NEW a \in Known(t), NEW b \in Known(t) \ {a}
    PROVE  Outcome(Retry(t, a), b) = Outcome(t, b)
<1> DEFINE u == Retry(t, a)
<1>1. CASE Outcome(t, b) = "Failed"
  BY <1>1, RetryChanges, CapturedFails
<1>2. CASE Outcome(t, b) # "Failed"
  <2>1. u.requests[b] = t.requests[b]
    BY <1>2, RetryChanges, CaptureKeeps
  <2>2. \A g \in RetryGoals(t, a) :
           /\ g \in KnownGoals(t)
           /\ t.nodes[g].state = "Failed"
    BY DEF RetryGoals, InState
  <2>3. ASSUME NEW g \in KnownGoals(t)
        PROVE  /\ u.nodes[g] # None
               /\ u.nodes[g].definition = t.nodes[g].definition
               /\ \/ u.nodes[g].state = t.nodes[g].state
                  \/ t.nodes[g].state = "Failed" /\ u.nodes[g].state = "Pending"
    <3>1. g \in Goals /\ t.nodes[g] \in Node
      BY KnownGoalType
    <3> DEFINE again == [t.nodes[g] EXCEPT !.state = "Pending"]
    <3>2. /\ again \in Node
          /\ again.state = "Pending"
          /\ again.definition = t.nodes[g].definition
      BY <3>1 DEF Node, NodeState
    <3>3. u.nodes[g] = IF g \in RetryGoals(t, a) THEN again ELSE t.nodes[g]
      BY <3>1, RetryChanges
    <3> HIDE DEF u, again
    <3> QED
      BY <3>1, <3>2, <3>3, <2>2, NoneAssumption
  <2>4. ASSUME NEW g \in Goals, g \notin KnownGoals(t) PROVE u.nodes[g] = None
    BY <2>2, <2>4, RetryChanges DEF KnownGoals
  <2> HIDE DEF u
  <2>5. BuildInputs(u) = BuildInputs(t)
    BY <2>3, <2>4 DEF BuildInputs, KnownGoals
  <2>6. Needed(u, RootsOf(u, b)) = Needed(t, RootsOf(t, b)) /\ RootsOf(u, b) = RootsOf(t, b)
    BY <2>1, <2>5 DEF Needed, RootsOf
  <2>7. /\ InState(u, "Failed") \subseteq InState(t, "Failed")
        /\ InState(u, "Complete") = InState(t, "Complete")
    BY <2>3, <2>4 DEF InState, KnownGoals
  <2>8. Needed(t, RootsOf(t, b)) \cap InState(t, "Failed") = {} =>
          Needed(u, RootsOf(u, b)) \cap InState(u, "Failed") = {}
    BY <2>6, <2>7
  <2>9. Outcome(u, b) = Outcome(t, b)
    BY <1>2, <2>1, <2>6, <2>7, <2>8 DEF Outcome
  <2> QED
    BY <2>9 DEF u
<1> QED
  BY <1>1, <1>2
=============================================================================
