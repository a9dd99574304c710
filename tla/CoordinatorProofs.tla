------------------------- MODULE CoordinatorProofs -------------------------
(***************************************************************************)
(* Theorems about the service: what its runs in MCCoordinator check on two *)
(* or three requests, for every set of requests, plans and limits.         *)
(***************************************************************************)
EXTENDS Coordinator, TrainOpsProofs, FiniteSetTheorems

-----------------------------------------------------------------------------
(* What the methods of a train leave of it, as far as the service relies   *)
(* on it.                                                                  *)

\* A train the service may hold: each record is filed under its own attempt.
Good(t) ==
    /\ t \in Train
    /\ Sound(t)
    /\ \A a \in Known(t) : t.requests[a].request.attempt = a

\* u still runs what t runs, knows the requests that are left by the same
\* identity, and their roots as well as t did.
Keeps(t, u) ==
    /\ Good(u)
    /\ RunningGoals(u) = RunningGoals(t)
    /\ \A g \in RunningGoals(t) : u.nodes[g] = t.nodes[g]
    /\ \A a \in Known(t) \cap Known(u) :
         /\ u.requests[a].request = t.requests[a].request
         /\ RootsOf(t, a) \subseteq KnownGoals(t) =>
              RootsOf(u, a) \subseteq KnownGoals(u)

\* A train keeps itself.
LEMMA KeepsSelf ==
    ASSUME NEW t, Good(t)
    PROVE  Keeps(t, t)
BY DEF Keeps

\* Methods that take in no request and lose no goal keep the train.
LEMMA SameRequestsKeeps ==
    ASSUME NEW t, Good(t), NEW u \in Train, Sound(u),
           Known(u) = Known(t),
           \A a \in Known(t) : u.requests[a].request = t.requests[a].request,
           KnownGoals(t) \subseteq KnownGoals(u),
           RunningGoals(u) = RunningGoals(t),
           \A g \in RunningGoals(t) : u.nodes[g] = t.nodes[g]
    PROVE  Keeps(t, u)
BY DEF Keeps, Good, RootsOf

\* The same nodes are the same goals in the same states.
LEMMA SameNodes ==
    ASSUME NEW t, NEW u, u.nodes = t.nodes
    PROVE  /\ KnownGoals(u) = KnownGoals(t)
           /\ RunningGoals(u) = RunningGoals(t)
           /\ \A g \in RunningGoals(t) : u.nodes[g] = t.nodes[g]
BY DEF RunningGoals, InState, KnownGoals

\* register
LEMMA RegisterKeeps ==
    ASSUME NEW t, Good(t), NEW r \in Request, NEW admitted \in BOOLEAN,
           CanRegister(t, r)
    PROVE  /\ Keeps(t, Register(t, r, admitted))
           /\ Known(Register(t, r, admitted)) = Known(t) \cup {r.attempt}
           /\ Register(t, r, admitted).fence = t.fence
<1> DEFINE u == Register(t, r, admitted)
<1> USE DEF Good
<1>1. /\ u \in Train
      /\ Sound(u)
      /\ Known(u) = Known(t) \cup {r.attempt}
      /\ u.requests[r.attempt].request = r
      /\ u.nodes = t.nodes
      /\ \A a \in Known(t) : u.requests[a] = t.requests[a]
  BY RegisterType, RegisterSound, RegisteredRecord
<1>2. u.fence = t.fence
  BY DEF Register, Train
<1> HIDE DEF u
<1>3. \A a \in Known(u) : u.requests[a].request.attempt = a
  BY <1>1
<1>4. Keeps(t, u)
  BY <1>1, <1>3, SameNodes DEF Keeps, RootsOf
<1> QED
  BY <1>1, <1>2, <1>4 DEF u

\* preparation_failed, cancel and admit
LEMMA CommandKeeps ==
    ASSUME NEW t, Good(t), NEW a \in Known(t),
           NEW u \in {PreparationFailed(t, a), Cancel(t, a), Hold(t, a), Admit(t, a)}
    PROVE  Keeps(t, u) /\ Known(u) = Known(t) /\ u.fence = t.fence
<1>1. /\ u \in Train
      /\ Sound(u)
      /\ u.nodes = t.nodes
      /\ Known(u) = Known(t)
      /\ u.fence = t.fence
      /\ \A b \in Known(t) : u.requests[b].request = t.requests[b].request
  BY CommandEffect, CommandSound DEF Good
<1> QED
  BY <1>1, SameNodes, SameRequestsKeeps

\* fence and release_fence
LEMMA FenceKeeps ==
    ASSUME NEW t, Good(t)
    PROVE  /\ \A a \in Attempts :
                CanFence(t, a) =>
                  /\ Keeps(t, SetFence(t, a))
                  /\ Known(SetFence(t, a)) = Known(t)
                  /\ SetFence(t, a).fence \in Fence
                  /\ t.fence # None => SetFence(t, a).fence = t.fence
           /\ Keeps(t, ReleaseFence(t))
           /\ Known(ReleaseFence(t)) = Known(t)
<1> USE DEF Good
<1>1. ASSUME NEW u \in Train, Sound(u), u.nodes = t.nodes, u.requests = t.requests
      PROVE  Keeps(t, u) /\ Known(u) = Known(t)
  <2>1. Known(u) = Known(t)
    BY <1>1 DEF Known
  <2> QED
    BY <1>1, <2>1, SameNodes, SameRequestsKeeps
<1>2. ASSUME NEW a \in Attempts, CanFence(t, a)
      PROVE  /\ Keeps(t, SetFence(t, a))
             /\ Known(SetFence(t, a)) = Known(t)
             /\ SetFence(t, a).fence \in Fence
             /\ t.fence # None => SetFence(t, a).fence = t.fence
  <2>1. SetFence(t, a) \in Train /\ Sound(SetFence(t, a))
    BY <1>2, FenceType, FenceSound
  <2>2. /\ SetFence(t, a).nodes = t.nodes
        /\ SetFence(t, a).requests = t.requests
        /\ SetFence(t, a).fence = IF t.fence # None THEN t.fence
                                  ELSE [attempt |-> a, token |-> <<a, t.sequence + 1>>]
    BY DEF SetFence, Train
  <2>3. SetFence(t, a).fence # None
    BY <2>2, NoneAssumption, <1>2, BoundsAssumption DEF CanFence, Fence, Train
  <2> QED
    BY <1>1, <2>1, <2>2, <2>3 DEF Train
<1>3. Keeps(t, ReleaseFence(t)) /\ Known(ReleaseFence(t)) = Known(t)
  <2>1. ReleaseFence(t) \in Train /\ Sound(ReleaseFence(t))
    BY FenceType, FenceSound
  <2>2. /\ ReleaseFence(t).nodes = t.nodes
        /\ ReleaseFence(t).requests = t.requests
    BY DEF ReleaseFence, Train
  <2> QED
    BY <1>1, <2>1, <2>2
<1> QED
  BY <1>2, <1>3

\* retry
LEMMA RetryKeeps ==
    ASSUME NEW t, Good(t), NEW a \in Known(t)
    PROVE  /\ Keeps(t, Retry(t, a))
           /\ Known(Retry(t, a)) = Known(t)
           /\ Retry(t, a).fence = t.fence
<1> DEFINE u == Retry(t, a)
<1>1. /\ u \in Train
      /\ Sound(u)
      /\ Known(u) = Known(t)
      /\ u.fence = t.fence
      /\ \A b \in Known(t) : u.requests[b].request = t.requests[b].request
      /\ KnownGoals(u) = KnownGoals(t)
      /\ RunningGoals(u) = RunningGoals(t)
      /\ \A g \in RunningGoals(t) : u.nodes[g] = t.nodes[g]
  BY RetryEffect, RetrySound DEF Good
<1> HIDE DEF u
<1>2. Keeps(t, u)
  BY <1>1, SameRequestsKeeps
<1> QED
  BY <1>1, <1>2 DEF u

\* retire
LEMMA RetireKeeps ==
    ASSUME NEW t, Good(t), NEW a \in Known(t), CanRetire(t, a)
    PROVE  /\ Keeps(t, Retire(t, a))
           /\ Known(Retire(t, a)) = Known(t) \ {a}
           /\ Retire(t, a).fence = t.fence
<1> DEFINE u == Retire(t, a)
<1> USE DEF Good
<1>1. /\ u \in Train
      /\ Sound(u)
      /\ Known(u) = Known(t) \ {a}
      /\ u.fence = t.fence
      /\ \A b \in Known(t) \ {a} : u.requests[b] = t.requests[b]
      /\ KnownGoals(u) = UNION {RetainedGraph(t, b) : b \in Known(t) \ {a}}
      /\ \A g \in KnownGoals(u) : u.nodes[g] = t.nodes[g]
      /\ RunningGoals(u) = RunningGoals(t)
  BY RetireType, RetireSound, RetireEffect DEF Known
<1> HIDE DEF u
<1>2. \A g \in RunningGoals(t) : u.nodes[g] = t.nodes[g]
  BY <1>1 DEF RunningGoals, InState
<1>3. ASSUME NEW b \in Known(t) \ {a}, RootsOf(t, b) \subseteq KnownGoals(t)
      PROVE  RootsOf(u, b) \subseteq KnownGoals(u)
  <2>1. RootsOf(u, b) = RootsOf(t, b)
    BY <1>1 DEF RootsOf
  <2>2. RootsOf(t, b) \subseteq RetainedGraph(t, b)
    BY <1>3, RootsRetained
  <2> QED
    BY <1>1, <2>1, <2>2
<1>4. Keeps(t, u)
  BY <1>1, <1>2, <1>3 DEF Keeps
<1> QED
  BY <1>1, <1>4 DEF u

\* A flag of one record, whatever becomes of the others' names.
Flagged(t, a, flag) == [t EXCEPT !.requests[a].prepared = flag]

\* Setting `prepared` changes that flag and nothing else.
LEMMA FlagEffect ==
    ASSUME NEW t \in Train, NEW a \in Known(t), NEW flag \in BOOLEAN
    PROVE  /\ Flagged(t, a, flag) \in Train
           /\ Flagged(t, a, flag).nodes = t.nodes
           /\ Flagged(t, a, flag).fence = t.fence
           /\ Known(Flagged(t, a, flag)) = Known(t)
           /\ \A b \in Known(t) :
                /\ Flagged(t, a, flag).requests[b].request = t.requests[b].request
                /\ Flagged(t, a, flag).requests[b].prepared =
                     IF b = a THEN flag ELSE t.requests[b].prepared
<1> DEFINE record == [t.requests[a] EXCEPT !.prepared = flag]
           requests == [t.requests EXCEPT ![a] = record]
           u == Flagged(t, a, flag)
<1>1. /\ record \in RequestRecord
      /\ record.request = t.requests[a].request
      /\ record.prepared = flag
  BY KnownType DEF RequestRecord
<1>2. /\ requests \in [Attempts -> RequestRecord \cup {None}]
      /\ u = [t EXCEPT !.requests = requests]
      /\ u.requests = requests
      /\ u.nodes = t.nodes
      /\ u.fence = t.fence
  BY <1>1, KnownType DEF Flagged, Train
<1>3. \A b \in Attempts : u.requests[b] = IF b = a THEN record ELSE t.requests[b]
  BY <1>2 DEF Train
<1>4. u \in Train
  BY <1>2, PartsType
<1> HIDE DEF record, requests, u
<1>5. Known(u) = Known(t)
  BY <1>1, <1>3, NoneAssumption DEF Known
<1>6. \A b \in Known(t) :
        /\ u.requests[b].request = t.requests[b].request
        /\ u.requests[b].prepared = IF b = a THEN flag ELSE t.requests[b].prepared
  BY <1>1, <1>3 DEF Known
<1> QED
  BY <1>2, <1>4, <1>5, <1>6 DEF u

\* A request may count as prepared when its roots are known, and as unprepared
\* always.
LEMMA FlagKeeps ==
    ASSUME NEW t, Good(t), NEW a \in Known(t), NEW flag \in BOOLEAN,
           flag => RootsOf(t, a) \subseteq KnownGoals(t)
    PROVE  Keeps(t, Flagged(t, a, flag))
<1> DEFINE u == Flagged(t, a, flag)
<1> USE DEF Good
<1>1. /\ u \in Train
      /\ u.nodes = t.nodes
      /\ Known(u) = Known(t)
      /\ \A b \in Known(t) :
           /\ u.requests[b].request = t.requests[b].request
           /\ u.requests[b].prepared = IF b = a THEN flag ELSE t.requests[b].prepared
  BY FlagEffect
<1> HIDE DEF u
<1>2. /\ KnownGoals(u) = KnownGoals(t)
      /\ RunningGoals(u) = RunningGoals(t)
      /\ \A s : InState(u, s) = InState(t, s)
      /\ \A b \in Known(t) : RootsOf(u, b) = RootsOf(t, b)
      /\ Evidence(u) = Evidence(t)
  BY <1>1 DEF KnownGoals, RunningGoals, InState, RootsOf, Evidence
<1>3. \A b \in Known(t) : RetainedGraph(u, b) = RetainedGraph(t, b)
  BY <1>2 DEF RetainedGraph
<1>4. EvidenceClosedIn(u)
  BY <1>1, <1>2 DEF Sound, EvidenceClosedIn
<1>5. RunningOwnedIn(u) /\ OneWorkerIn(u) /\ InputsPresentIn(u)
  BY <1>1, <1>2, <1>3
     DEF Sound, RunningOwnedIn, OneWorkerIn, InputsPresentIn
<1>6. Keeps(t, u)
  BY <1>1, <1>2, <1>4, <1>5, SameNodes, SameRequestsKeeps DEF Sound
<1> QED
  BY <1>6 DEF u

\* submit with the plan of a known request, which stays unprepared
LEMMA PlanKeeps ==
    ASSUME NEW t, Good(t), NEW a \in Known(t),
           NEW graph \in Graphs, NEW now \in 0..MaxClock,
           CanSubmit(t, t.requests[a].request, graph)
    PROVE  LET joined == Submit(t, t.requests[a].request, graph, now)
               u == Flagged(joined, a, FALSE)
           IN  /\ Keeps(t, joined) /\ Known(joined) = Known(t)
               /\ Keeps(t, u) /\ Known(u) = Known(t)
               /\ u.fence = t.fence
               /\ RootsOf(u, a) \subseteq KnownGoals(u)
<1> DEFINE r == t.requests[a].request
           joined == Submit(t, r, graph, now)
           u == Flagged(joined, a, FALSE)
<1> USE DEF Good
<1>1. r \in Request /\ r.attempt = a
  BY KnownType DEF RequestRecord
<1>2. /\ DOMAIN graph \subseteq Goals
      /\ \A g \in DOMAIN graph : graph[g] \in Definition
      /\ r.roots \subseteq DOMAIN graph
      /\ CanSubmit(t, r, graph)
  BY InputsAssumption DEF CanSubmit, ValidGraph
<1> HIDE DEF r
<1>3. /\ joined \in Train
      /\ Sound(joined)
      /\ RunningGoals(joined) = RunningGoals(t)
  BY <1>1, <1>2, SubmitType, SubmitSound
<1>4. /\ Known(joined) = Known(t) \cup {r.attempt}
      /\ RootsOf(joined, r.attempt) = r.roots
      /\ \A b \in Known(t) : joined.requests[b].request = t.requests[b].request
      /\ joined.fence = t.fence
      /\ KnownGoals(joined) = KnownGoals(t) \cup DOMAIN graph
      /\ \A g \in KnownGoals(t) :
           t.nodes[g].state # "Pending" => joined.nodes[g] = t.nodes[g]
  BY <1>1, <1>2, SubmitEffect
<1> HIDE DEF joined
<1>5. Known(joined) = Known(t)
  BY <1>1, <1>4
<1>6. \A g \in RunningGoals(t) : joined.nodes[g] = t.nodes[g]
  BY <1>4 DEF RunningGoals, InState
<1>7. Keeps(t, joined)
  BY <1>3, <1>4, <1>5, <1>6, SameRequestsKeeps
<1>8. Good(joined) /\ a \in Known(joined) /\ FALSE \in BOOLEAN
  BY <1>5, <1>7 DEF Keeps
<1>9. /\ Known(u) = Known(joined)
      /\ u.fence = joined.fence
  <2>1. joined \in Train /\ a \in Known(joined) /\ FALSE \in BOOLEAN
    BY <1>8
  <2> QED
    BY <2>1, FlagEffect
<1>10. Keeps(joined, u)
  BY <1>8, FlagKeeps
<1>11. RootsOf(joined, a) \subseteq KnownGoals(joined)
  BY <1>1, <1>2, <1>4
<1> HIDE DEF u
<1>12. Keeps(t, u)
  BY <1>5, <1>7, <1>9, <1>10 DEF Keeps
<1>13. RootsOf(u, a) \subseteq KnownGoals(u)
  BY <1>8, <1>9, <1>10, <1>11 DEF Keeps
<1> QED
  BY <1>4, <1>5, <1>7, <1>9, <1>12, <1>13 DEF r, joined, u

\* with_evidence completes goals that do not run.
LEMMA EvidenceKeeps ==
    ASSUME NEW t, Good(t), NEW valid, valid \cap RunningGoals(t) = {}
    PROVE  /\ Keeps(t, WithEvidence(t, valid))
           /\ Known(WithEvidence(t, valid)) = Known(t)
           /\ KnownGoals(WithEvidence(t, valid)) = KnownGoals(t)
           /\ WithEvidence(t, valid).fence = t.fence
<1> DEFINE Done(g) == [t.nodes[g] EXCEPT !.state = "Complete", !.serial = 0]
           nodes == [g \in Goals |-> IF g \in valid \cap KnownGoals(t)
                                     THEN Done(g) ELSE t.nodes[g]]
           u == WithEvidence(t, valid)
<1> USE DEF Good
<1>1. ASSUME NEW g \in KnownGoals(t)
      PROVE  /\ g \in Goals
             /\ Done(g) \in Node
             /\ Done(g).state = "Complete"
             /\ Done(g).definition = t.nodes[g].definition
  <2>1. 0 \in 0..MaxSerial
    BY BoundsAssumption
  <2> QED
    BY <2>1, KnownGoalType DEF Node, NodeState
<1>2. nodes \in [Goals -> Node \cup {None}]
  BY <1>1 DEF Train
<1>3. /\ u = [t EXCEPT !.nodes = nodes]
      /\ u.nodes = nodes
      /\ u.requests = t.requests
      /\ u.fence = t.fence
  BY DEF WithEvidence, Train
<1>4. u \in Train
  BY <1>2, <1>3, PartsType
<1>5. \A g \in Goals : u.nodes[g] = IF g \in valid \cap KnownGoals(t)
                                    THEN Done(g) ELSE t.nodes[g]
  BY <1>3
<1> HIDE DEF Done, nodes, u
<1>6. KnownGoals(u) = KnownGoals(t)
  BY <1>1, <1>5, NoneAssumption DEF KnownGoals
<1>7. /\ RunningGoals(u) = RunningGoals(t)
      /\ \A g \in RunningGoals(t) : u.nodes[g] = t.nodes[g]
      /\ InState(t, "Complete") \subseteq InState(u, "Complete")
  BY <1>1, <1>5, <1>6 DEF RunningGoals, InState
<1>8. \A g \in KnownGoals(t) : u.nodes[g].definition = t.nodes[g].definition
  BY <1>1, <1>5
<1>9. /\ Known(u) = Known(t)
      /\ \A a \in Known(t) : RootsOf(u, a) = RootsOf(t, a)
  BY <1>3 DEF Known, RootsOf
<1>10. Sound(u)
  BY <1>3, <1>4, <1>6, <1>7, <1>8, <1>9, NewStatesSound
<1>11. Keeps(t, u)
  BY <1>3, <1>4, <1>6, <1>7, <1>9, <1>10, SameRequestsKeeps
<1> QED
  BY <1>3, <1>6, <1>9, <1>11 DEF u

\* finish ends one build, and the outputs found with it start none.
LEMMA CompletedEffect ==
    ASSUME NEW t, Good(t), NEW d, NEW ok \in BOOLEAN, Accepts(t, d),
           NEW valid, \A g \in valid : DerivationOf[g] = DerivationOf[d.goal]
    PROVE  LET u == WithEvidence(Finish(t, d, ok), valid)
           IN  /\ Good(u)
               /\ RunningGoals(u) = RunningGoals(t) \ {d.goal}
               /\ \A g \in RunningGoals(t) \ {d.goal} : u.nodes[g] = t.nodes[g]
               /\ Known(u) = Known(t)
               /\ KnownGoals(u) = KnownGoals(t)
               /\ \A a \in Known(t) : RootsOf(u, a) = RootsOf(t, a)
               /\ u.fence = t.fence
<1> DEFINE finished == Finish(t, d, ok)
           u == WithEvidence(finished, valid)
<1> USE DEF Good
<1>1. /\ finished \in Train
      /\ Sound(finished)
  BY FinishType, FinishSound
<1>2. /\ RunningGoals(finished) = RunningGoals(t) \ {d.goal}
      /\ \A g \in RunningGoals(t) \ {d.goal} : finished.nodes[g] = t.nodes[g]
      /\ Known(finished) = Known(t)
      /\ \A a \in Known(t) : finished.requests[a].request = t.requests[a].request
      /\ KnownGoals(finished) = KnownGoals(t)
      /\ finished.fence = t.fence
  BY FinishEffect
<1> HIDE DEF finished
<1>3. Good(finished)
  BY <1>1, <1>2
<1>4. d.goal \in RunningGoals(t)
  BY DEF Accepts
<1>5. valid \cap RunningGoals(finished) = {}
  BY <1>2, <1>4 DEF Sound, OneWorkerIn
<1>6. /\ Keeps(finished, u)
      /\ Known(u) = Known(finished)
      /\ KnownGoals(u) = KnownGoals(finished)
      /\ u.fence = finished.fence
  BY <1>3, <1>5, EvidenceKeeps
<1> HIDE DEF u
<1> QED
  BY <1>2, <1>6 DEF Keeps, RootsOf, u, finished

\* dispatch starts one build of a derivation that none is running for.
LEMMA DispatchGood ==
    ASSUME NEW t, Good(t), CanDispatch(t),
           NEW now, NEW g \in Choices(t, now, Goals)
    PROVE  LET u == Dispatch(t, g)
           IN  /\ Good(u)
               /\ g \notin RunningGoals(t)
               /\ RunningGoals(u) = RunningGoals(t) \cup {g}
               /\ \A h \in RunningGoals(t) : u.nodes[h] = t.nodes[h]
               /\ Known(u) = Known(t)
               /\ KnownGoals(u) = KnownGoals(t)
               /\ \A a \in Known(t) : RootsOf(u, a) = RootsOf(t, a)
<1> DEFINE u == Dispatch(t, g)
<1> USE DEF Good
<1>1. g \in KnownGoals(t) /\ t.nodes[g].state = "Pending"
  BY ChoiceReady
<1>2. u \in Train /\ Sound(u)
  BY <1>1, DispatchType, DispatchSound
<1>3. /\ KnownGoals(u) = KnownGoals(t)
      /\ u.requests = t.requests
      /\ \A h \in Goals \ {g} : u.nodes[h] = t.nodes[h]
      /\ u.nodes[g].state = "Running"
  BY <1>1, DispatchEffect
<1> HIDE DEF u
<1>4. g \notin RunningGoals(t) /\ RunningGoals(u) = RunningGoals(t) \cup {g}
  BY <1>1, <1>3 DEF RunningGoals, InState, KnownGoals
<1>5. \A h \in RunningGoals(t) : u.nodes[h] = t.nodes[h]
  BY <1>3, <1>4 DEF RunningGoals, InState, KnownGoals
<1>6. Known(u) = Known(t) /\ \A a \in Known(t) : RootsOf(u, a) = RootsOf(t, a)
  BY <1>3 DEF Known, RootsOf
<1> QED
  BY <1>2, <1>3, <1>4, <1>5, <1>6 DEF u, Known

-----------------------------------------------------------------------------
(* The inductive invariant.                                                *)

\* No two builds have the same goal, and what a build may find besides its own
\* output is of its derivation.
WorkersApart ==
    \A w \in workers :
      /\ \A v \in workers : v.receipt.goal = w.receipt.goal => v = w
      /\ \A g \in w.siblings : DerivationOf[g] = DerivationOf[w.receipt.goal]

\* The plan of a request that is being retained has joined the train.
Rooted ==
    \A a \in Live : planners[a].step = "Retaining" =>
                      RootsOf(train, a) \subseteq KnownGoals(train)

\* Nothing is in memory while no service runs.
DownClean ==
    at = "down" => /\ train = NewTrain
                   /\ planners = NoPlanners
                   /\ workers = {}
                   /\ waiters = NoWaiters
                   /\ job = None

\* A command between two writes: its request is as its guards found it.
JobSound ==
    job # None =>
      /\ at = "commands"
      /\ job.step = "intake" => /\ job.attempt \in Known(train)
                                /\ waiters[job.attempt] < WaiterLimit
      /\ job.step # "intake" => /\ archive[job.attempt] # None
                                /\ job.attempt \notin Live
      /\ job.step = "archived" => CanRetire(train, job.attempt)

IInv ==
    /\ TypeOK
    /\ Good(train) /\ Good(journal)
    /\ BuildsJournalled
    /\ WorkersApart
    /\ ThreadsKnown
    /\ Rooted
    /\ DownClean
    /\ JobSound
    /\ HandoverQuiet

-----------------------------------------------------------------------------
(* What a step does to the trains and the builds.                          *)

\* Nothing starts or ends: both trains keep what the train in memory keeps, and
\* no request goes whose thread runs.
Quiet ==
    /\ workers' = workers
    /\ Keeps(train, train')
    /\ journal' = journal \/ Keeps(train, journal')
    /\ Live \subseteq Known(train')

\* The fence stays where it is.
FencesKept ==
    /\ handover' = handover
    /\ Up' => Up
    /\ train'.fence = train.fence
    /\ \/ journal'.fence = journal.fence
       \/ Up /\ journal'.fence = train.fence

\* Requests neither come nor go, and no client is told more of them.
MembersKept ==
    /\ UNCHANGED <<archive, told>>
    /\ Up' => Up
    /\ Known(train') = Known(train)
    /\ \/ journal' = journal
       \/ Up /\ Known(journal') = Known(train)

RetireCommand ==
    \E a \in Attempts : RetireAct(a) \/ RetireJournalled(a) \/ RetireSealed(a)

FenceCommand ==
    \/ \E a \in Attempts : FenceAct(a)
    \/ \E token \in Attempts \X (0..MaxSequence) : ReleaseFenceAct(token)
    \/ InspectAct


Ends(w, ok, valid) ==
    /\ w \in workers
    /\ at = "completions"
    /\ UNCHANGED <<at, planners, archive, clients>>
    /\ valid \subseteq w.siblings
    /\ Commit(WithEvidence(Finish(train, w.receipt, ok), valid))
    /\ workers' = workers \ {w}

Starts(now) ==
    /\ CanDispatch(train)
    /\ at = "dispatch"
    /\ UNCHANGED <<at, planners, archive, clients>>
    /\ \E g \in Choices(train, now, Goals) :
         /\ Commit(Dispatch(train, g))
         /\ workers' = workers \cup
              {[receipt |-> ReceiptOf(train', g),
                siblings |-> {h \in KnownGoals(train) :
                                DerivationOf[h] = DerivationOf[g]}]}

Restarts(valid) ==
    /\ at = "down"
    /\ UNCHANGED <<planners, workers, archive, clients>>
    /\ Commit(Reconcile(journal, valid))

\* A save of a train that keeps what the one in memory holds is quiet.
LEMMA SaveQuiet ==
    ASSUME Good(train), NEW u, Keeps(train, u), Live \subseteq Known(u),
           ThreadsKnown, UNCHANGED workers, Commit(u) \/ CommitFails(u)
    PROVE  /\ Quiet
           /\ Up /\ UNCHANGED <<at, handover>> /\ u.fence = train.fence => FencesKept
           /\ Up /\ UNCHANGED <<at, archive, told>> /\ Known(u) = Known(train)
                => MembersKept
BY KeepsSelf
   DEF Quiet, FencesKept, MembersKept, Commit, CommitFails, ThreadsKnown, Up

\* A step that leaves the train and its journal alone is quiet.
LEMMA StillQuiet ==
    ASSUME Good(train), ThreadsKnown, UNCHANGED <<train, workers, journal>>
    PROVE  /\ Quiet
           /\ UNCHANGED handover /\ (at' # "down" => at # "down") => FencesKept
           /\ UNCHANGED <<archive, told>> /\ (at' # "down" => at # "down")
                => MembersKept
BY KeepsSelf DEF Quiet, FencesKept, MembersKept, ThreadsKnown, Up

\* The receipts of planners, and the deadlines.
LEMMA PlannerKinds ==
    ASSUME IInv, NEW a \in Attempts,
           \/ DropReceipt(a) \/ RetainReceipt(a) \/ FailedReceipt(a) \/ DeadlineAct(a)
           \/ \E graph \in Graphs, now \in 0..MaxClock : PlanReceipt(a, graph, now)
    PROVE  Quiet /\ FencesKept /\ MembersKept
<1> USE DEF IInv
<1>1. Live \subseteq Known(train)
  BY DEF ThreadsKnown
<1>2. CASE DropReceipt(a)
  BY <1>2, StillQuiet DEF DropReceipt, disk, clients
<1>3. CASE RetainReceipt(a)
  <2> DEFINE u == Flagged(train, a, TRUE)
  <2>1. a \in Known(train) /\ RootsOf(train, a) \subseteq KnownGoals(train)
    BY <1>1, <1>3 DEF RetainReceipt, Heard, Rooted
  <2>2. Keeps(train, u)
    BY <2>1, FlagKeeps
  <2>3. Known(u) = Known(train) /\ u.fence = train.fence
    <3>1. train \in Train /\ TRUE \in BOOLEAN
      BY DEF Good
    <3> QED
      BY <2>1, <3>1, FlagEffect
  <2>4. Commit(u) /\ Up /\ UNCHANGED <<at, workers, archive, clients>>
    BY <1>3 DEF RetainReceipt, Heard, Flagged, Up
  <2> HIDE DEF u
  <2> QED
    BY <1>1, <2>2, <2>3, <2>4, SaveQuiet DEF clients
<1>4. CASE FailedReceipt(a) \/ DeadlineAct(a)
  <2> DEFINE u == PreparationFailed(train, a)
  <2>1. a \in Known(train)
    BY <1>1, <1>4 DEF FailedReceipt, DeadlineAct, Heard
  <2>2. Keeps(train, u) /\ Known(u) = Known(train) /\ u.fence = train.fence
    BY <2>1, CommandKeeps
  <2>3. Commit(u) /\ Up /\ UNCHANGED <<at, workers, archive, clients>>
    BY <1>4 DEF FailedReceipt, DeadlineAct, Heard, Up
  <2> HIDE DEF u
  <2> QED
    BY <1>1, <2>2, <2>3, SaveQuiet DEF clients
<1>5. ASSUME NEW graph \in Graphs, NEW now \in 0..MaxClock,
             PlanReceipt(a, graph, now)
      PROVE  Quiet /\ FencesKept /\ MembersKept
  <2> DEFINE u == Flagged(Submit(train, train.requests[a].request, graph, now), a, FALSE)
  <2>1. a \in Known(train) /\ CanSubmit(train, train.requests[a].request, graph)
    BY <1>1, <1>5 DEF PlanReceipt, Heard
  <2>2. Keeps(train, u) /\ Known(u) = Known(train) /\ u.fence = train.fence
    BY <2>1, PlanKeeps
  <2>3. Commit(u) /\ Up /\ UNCHANGED <<at, workers, archive, clients>>
    BY <1>5 DEF PlanReceipt, Heard, Flagged, Up
  <2> HIDE DEF u
  <2> QED
    BY <1>1, <2>2, <2>3, SaveQuiet DEF clients
<1> QED
  BY <1>2, <1>3, <1>4, <1>5

\* The commands of intake.
LEMMA IntakeKinds ==
    ASSUME IInv,
           \/ \E kind \in Commands, r \in Requests :
                IntakeAct(kind, r) \/ RepeatAct(kind, r)
           \/ \E a \in Attempts : IntakeRetained(a) \/ IntakeUnretained(a)
    PROVE  /\ Quiet /\ FencesKept
           /\ MembersKept \/ \E kind \in Commands, r \in Requests : IntakeAct(kind, r)
<1> USE DEF IInv
<1>1. Live \subseteq Known(train)
  BY DEF ThreadsKnown
<1>2. ASSUME NEW kind \in Commands, NEW r \in Requests, IntakeAct(kind, r)
      PROVE  Quiet /\ FencesKept
  <2> DEFINE u == Register(train, r, kind = "Submit")
  <2>1. r \in Request /\ CanRegister(train, r)
    BY <1>2, InputsAssumption DEF IntakeAct, CanIntake
  <2>2. (kind = "Submit") \in BOOLEAN
    OBVIOUS
  <2>3. /\ Keeps(train, u)
        /\ Known(u) = Known(train) \cup {r.attempt}
        /\ u.fence = train.fence
    BY <2>1, <2>2, RegisterKeeps
  <2>4. Commit(u) \/ CommitFails(u)
    BY <1>2 DEF IntakeAct
  <2>5. Up /\ UNCHANGED <<at, workers, archive, clients>>
    BY <1>2 DEF IntakeAct, Receives, Up
  <2> HIDE DEF u
  <2> QED
    BY <1>1, <2>3, <2>4, <2>5, SaveQuiet DEF clients
<1>3. ASSUME NEW a \in Attempts, IntakeRetained(a)
      PROVE  Quiet /\ FencesKept /\ MembersKept
  BY <1>3, StillQuiet DEF IntakeRetained, clients
<1>4. ASSUME NEW a \in Attempts, IntakeUnretained(a)
      PROVE  Quiet /\ FencesKept /\ MembersKept
  <2> DEFINE u == PreparationFailed(train, a)
  <2>1. a \in Known(train) /\ Up
    BY <1>4, AbsenceAssumption DEF IntakeUnretained, JobSound, Job, Up
  <2>2. Keeps(train, u) /\ Known(u) = Known(train) /\ u.fence = train.fence
    BY <2>1, CommandKeeps
  <2>3. Commit(u) \/ CommitFails(u)
    BY <1>4 DEF IntakeUnretained
  <2>4. UNCHANGED <<at, workers, archive, clients>>
    BY <1>4 DEF IntakeUnretained
  <2> HIDE DEF u
  <2> QED
    BY <1>1, <2>1, <2>2, <2>3, <2>4, SaveQuiet DEF clients
<1>5. ASSUME NEW kind \in Commands, NEW r \in Requests, RepeatAct(kind, r)
      PROVE  Quiet /\ FencesKept /\ MembersKept
  <2>1. Keeps(train, train)
    BY KeepsSelf
  <2>2. Commit(train) \/ CommitFails(train)
    BY <1>5 DEF RepeatAct
  <2>3. Up /\ UNCHANGED <<at, workers, archive, clients>>
    BY <1>5 DEF RepeatAct, Receives, Up
  <2> QED
    BY <1>1, <2>1, <2>2, <2>3, SaveQuiet DEF clients
<1> QED
  BY <1>2, <1>3, <1>4, <1>5

\* The other commands.
LEMMA CommandKinds ==
    ASSUME IInv,
           \/ \E a \in Attempts :
                \/ AdmitAct(a) \/ CancelAct(a) \/ RetryAct(a) \/ RetryUnretained(a)
                \/ RetireAct(a) \/ RetireAgainAct(a) \/ RetireJournalled(a)
                \/ RetireReleased(a) \/ RetireUnreleased(a) \/ RetireSealed(a)
           \/ FenceCommand
    PROVE  /\ Quiet
           /\ FencesKept \/ FenceCommand
           /\ MembersKept \/ RetireCommand
<1> USE DEF IInv
<1>1. Live \subseteq Known(train)
  BY DEF ThreadsKnown
<1>2. ASSUME NEW a \in Attempts, AdmitAct(a) \/ CancelAct(a)
      PROVE  Quiet /\ FencesKept /\ MembersKept
  <2>1. a \in Known(train)
    BY <1>2 DEF AdmitAct, CanAdmit, CancelAct
  <2>2. \A u \in {Admit(train, a), Cancel(train, a)} :
          Keeps(train, u) /\ Known(u) = Known(train) /\ u.fence = train.fence
    BY <2>1, CommandKeeps
  <2>3. \E u \in {Admit(train, a), Cancel(train, a)} : Commit(u) \/ CommitFails(u)
    BY <1>2 DEF AdmitAct, CancelAct, Saves
  <2>4. Up /\ UNCHANGED <<at, workers, archive, told, handover>>
    BY <1>2 DEF AdmitAct, CancelAct, Receives, Saves, Up
  <2> QED
    BY <1>1, <2>2, <2>3, <2>4, SaveQuiet
<1>3. ASSUME NEW a \in Attempts, RetryAct(a)
      PROVE  Quiet /\ FencesKept /\ MembersKept
  <2> DEFINE u == Retry(train, a)
  <2>1. Keeps(train, u) /\ Known(u) = Known(train) /\ u.fence = train.fence
    BY <1>3, RetryKeeps DEF RetryAct, CanRetry
  <2>2. Commit(u) \/ CommitFails(u)
    BY <1>3 DEF RetryAct, Saves
  <2>3. Up /\ UNCHANGED <<at, workers, archive, told, handover>>
    BY <1>3 DEF RetryAct, Receives, Saves, Up
  <2> HIDE DEF u
  <2> QED
    BY <1>1, <2>1, <2>2, <2>3, SaveQuiet
<1>4. ASSUME NEW a \in Attempts, RetireJournalled(a)
      PROVE  Quiet /\ FencesKept
  <2> DEFINE u == Retire(train, a)
  <2>1. /\ CanRetire(train, a)
        /\ a \notin Live
        /\ Up
    BY <1>4, AbsenceAssumption DEF RetireJournalled, JobSound, Job, Up
  <2>2. Keeps(train, u) /\ Known(u) = Known(train) \ {a} /\ u.fence = train.fence
    BY <2>1, RetireKeeps DEF CanRetire
  <2>3. Commit(u) \/ CommitFails(u)
    BY <1>4 DEF RetireJournalled
  <2>4. UNCHANGED <<at, workers, handover>>
    BY <1>4 DEF RetireJournalled, clients
  <2> HIDE DEF u
  <2> QED
    BY <1>1, <2>1, <2>2, <2>3, <2>4, SaveQuiet
<1>5. ASSUME NEW a \in Attempts,
             \/ RetryUnretained(a) \/ RetireAct(a) \/ RetireAgainAct(a)
             \/ RetireReleased(a) \/ RetireUnreleased(a) \/ RetireSealed(a)
      PROVE  Quiet /\ FencesKept /\ (MembersKept \/ RetireCommand)
  <2>1. UNCHANGED <<at, train, workers, journal, handover>>
    BY <1>5
       DEF RetryUnretained, RetireAct, RetireAgainAct, RetireReleased,
           RetireUnreleased, RetireSealed, memory, disk, clients
  <2>2. UNCHANGED <<archive, told>> \/ RetireAct(a) \/ RetireSealed(a)
    BY <1>5
       DEF RetryUnretained, RetireAgainAct, RetireReleased, RetireUnreleased,
           disk, clients
  <2> QED
    BY <2>1, <2>2, StillQuiet DEF RetireCommand
<1>6. ASSUME NEW a \in Attempts, FenceAct(a)
      PROVE  Quiet /\ MembersKept
  <2>1. Keeps(train, SetFence(train, a)) /\ Known(SetFence(train, a)) = Known(train)
    BY <1>6, FenceKeeps DEF FenceAct
  <2>2. Up /\ UNCHANGED <<at, workers, archive, told>>
    BY <1>6 DEF FenceAct, Receives, Up
  <2> QED
    BY <1>1, <1>6, <2>1, <2>2, SaveQuiet DEF FenceAct
<1>7. ASSUME NEW token, ReleaseFenceAct(token)
      PROVE  Quiet /\ MembersKept
  <2>1. Up /\ UNCHANGED <<at, workers, archive, told>>
    BY <1>7 DEF ReleaseFenceAct, Receives, Saves, Up
  <2> QED
    BY <1>1, <1>7, <2>1, FenceKeeps, SaveQuiet DEF ReleaseFenceAct, Saves
<1>8. ASSUME InspectAct
      PROVE  Quiet /\ MembersKept
  BY <1>8, StillQuiet DEF InspectAct, memory, disk
<1>9. CASE FenceCommand
  <2>1. Quiet /\ MembersKept
    BY <1>6, <1>7, <1>8, <1>9 DEF FenceCommand
  <2> QED
    BY <1>9, <2>1
<1> QED
  BY <1>2, <1>3, <1>4, <1>5, <1>9 DEF RetireCommand

\* What the steps of a turn and the stop flag leave alone.
LEMMA TurnKinds ==
    ASSUME IInv,
           \/ \E a \in Attempts :
                \/ \E g \in Goals : RetainStep(a, g)
                \/ DetachAct(a) \/ StartPlanner(a) \/ RestartRefused(a)
           \/ FlushAct \/ PlannersStarted \/ WorkersStarted \/ ReceiptsTaken
           \/ DeadlinesPassed \/ CompletionsTaken \/ StopAct
    PROVE  Quiet /\ FencesKept /\ (MembersKept \/ FlushAct)
<1>1. /\ UNCHANGED <<train, workers, journal, archive, handover>>
      /\ UNCHANGED told \/ FlushAct
  BY DEF RetainStep, DetachAct, StartPlanner, RestartRefused, FlushAct,
         PlannersStarted, WorkersStarted, ReceiptsTaken, DeadlinesPassed,
         CompletionsTaken, StopAct, memory, disk, clients
<1>2. at' # "down" => at # "down"
  BY DEF RetainStep, DetachAct, StartPlanner, RestartRefused, FlushAct,
         PlannersStarted, WorkersStarted, ReceiptsTaken, DeadlinesPassed,
         CompletionsTaken, StopAct, memory
<1> QED
  BY <1>1, <1>2, StillQuiet DEF IInv

\* Every step is quiet, ends or starts one build, loses the memory or restarts.
LEMMA StepKinds ==
    ASSUME IInv, [Next]_vars
    PROVE  \/ /\ Quiet
              /\ FencesKept \/ FenceCommand
              /\ \/ MembersKept \/ RetireCommand \/ FlushAct
                 \/ \E kind \in Commands, r \in Requests : IntakeAct(kind, r)
           \/ \E w \in workers, ok \in BOOLEAN, valid \in SUBSET Goals : Ends(w, ok, valid)
           \/ \E now \in 0..MaxClock : Starts(now)
           \/ Lost /\ UNCHANGED <<disk, clients>>
           \/ \E valid : Restarts(valid)
<1>1. CASE UNCHANGED vars
  BY <1>1, StillQuiet DEF vars, memory, disk, clients, IInv
<1>2. CASE \E a \in Attempts :
             \/ DropReceipt(a) \/ RetainReceipt(a) \/ FailedReceipt(a)
             \/ DeadlineAct(a)
             \/ \E graph \in Graphs, now \in 0..MaxClock : PlanReceipt(a, graph, now)
  BY <1>2, PlannerKinds
<1>3. CASE \/ \E kind \in Commands, r \in Requests :
                IntakeAct(kind, r) \/ RepeatAct(kind, r)
           \/ \E a \in Attempts : IntakeRetained(a) \/ IntakeUnretained(a)
  BY <1>3, IntakeKinds
<1>4. CASE \/ \E a \in Attempts :
                \/ AdmitAct(a) \/ CancelAct(a) \/ RetryAct(a) \/ RetryUnretained(a)
                \/ RetireAct(a) \/ RetireAgainAct(a) \/ RetireJournalled(a)
                \/ RetireReleased(a) \/ RetireUnreleased(a) \/ RetireSealed(a)
           \/ FenceCommand
  BY <1>4, CommandKinds
<1>5. CASE \/ \E a \in Attempts :
                \/ \E g \in Goals : RetainStep(a, g)
                \/ DetachAct(a) \/ StartPlanner(a) \/ RestartRefused(a)
           \/ FlushAct \/ PlannersStarted \/ WorkersStarted \/ ReceiptsTaken
           \/ DeadlinesPassed \/ CompletionsTaken \/ StopAct
  BY <1>5, TurnKinds
<1>6. CASE FlushPanic \/ ShutdownAct \/ CrashAct
  BY <1>6 DEF FlushPanic, ShutdownAct, CrashAct
<1>7. ASSUME NEW w \in workers, NEW ok \in BOOLEAN, NEW valid \in SUBSET w.siblings,
             CompletedAct(w, ok, valid)
      PROVE  valid \in SUBSET Goals /\ Ends(w, ok, valid)
  BY <1>7 DEF CompletedAct, Ends, clients, IInv, TypeOK, Worker
<1>8. ASSUME NEW now \in 0..MaxClock, DispatchAct(now)
      PROVE  Starts(now)
  BY <1>8 DEF DispatchAct, Starts, CanStart, clients
<1>9. ASSUME NEW valid, RestartAct(valid)
      PROVE  Restarts(valid)
  BY <1>9 DEF RestartAct, Restarts, clients
<1> QED
  BY <1>1, <1>2, <1>3, <1>4, <1>5, <1>6, <1>7, <1>8, <1>9 DEF Next, FenceCommand

-----------------------------------------------------------------------------
(* The trains stay sound, and the builds stay journalled.                  *)

BuildsSound ==
    /\ Good(train) /\ Good(journal)
    /\ BuildsJournalled
    /\ WorkersApart

\* The empty train is a good one.
LEMMA NewTrainGood ==
    /\ Good(NewTrain)
    /\ Known(NewTrain) = {}
    /\ RunningGoals(NewTrain) = {}
    /\ NewTrain.fence = None
<1>1. /\ Known(NewTrain) = {}
      /\ RunningGoals(NewTrain) = {}
      /\ NewTrain.fence = None
  BY DEF NewTrain, Known, RunningGoals, InState, KnownGoals
<1> QED
  BY <1>1, NewTrainType, NewTrainSound DEF Good

\* A quiet step starts and ends no build.
LEMMA QuietBuilds ==
    ASSUME IInv, Quiet
    PROVE  BuildsSound'
<1> USE DEF IInv, Quiet
<1>1. Good(train') /\ Good(journal')
  BY DEF Keeps
<1>2. {ReceiptOf(train', g) : g \in RunningGoals(train')}
        = {ReceiptOf(train, g) : g \in RunningGoals(train)}
  BY DEF Keeps, ReceiptOf
<1>3. \A w \in workers : w.receipt.goal \in RunningGoals(train)
                         /\ w.receipt = ReceiptOf(train, w.receipt.goal)
  BY DEF BuildsJournalled, ReceiptOf
<1>4. ASSUME NEW w \in workers
      PROVE  /\ w.receipt.goal \in RunningGoals(journal')
             /\ ReceiptOf(journal', w.receipt.goal) = w.receipt
  <2>1. CASE journal' = journal
    BY <2>1 DEF BuildsJournalled
  <2>2. CASE Keeps(train, journal')
    BY <1>3, <2>2 DEF Keeps, ReceiptOf
  <2> QED
    BY <2>1, <2>2
<1>5. BuildsJournalled'
  BY <1>2, <1>4 DEF BuildsJournalled
<1>6. WorkersApart'
  BY DEF WorkersApart
<1> QED
  BY <1>1, <1>5, <1>6 DEF BuildsSound

\* The end of a build takes its goal from the running ones, and no other.
LEMMA EndBuilds ==
    ASSUME IInv, NEW w \in workers, NEW ok \in BOOLEAN, NEW valid \in SUBSET Goals,
           Ends(w, ok, valid)
    PROVE  /\ BuildsSound'
           /\ Known(train') = Known(train)
           /\ KnownGoals(train') = KnownGoals(train)
           /\ \A a \in Known(train) : RootsOf(train', a) = RootsOf(train, a)
           /\ train'.fence = train.fence
           /\ journal' = train'
<1> DEFINE d == w.receipt
           u == WithEvidence(Finish(train, d, ok), valid)
<1> USE DEF IInv
<1>1. d.goal \in RunningGoals(train) /\ d = ReceiptOf(train, d.goal)
  BY DEF BuildsJournalled, ReceiptOf
<1>2. Accepts(train, d)
  BY <1>1 DEF Accepts, ReceiptOf
<1>3. \A g \in valid : DerivationOf[g] = DerivationOf[d.goal]
  BY DEF Ends, WorkersApart
<1>4. /\ Good(u)
      /\ RunningGoals(u) = RunningGoals(train) \ {d.goal}
      /\ \A g \in RunningGoals(train) \ {d.goal} : u.nodes[g] = train.nodes[g]
      /\ Known(u) = Known(train)
      /\ KnownGoals(u) = KnownGoals(train)
      /\ \A a \in Known(train) : RootsOf(u, a) = RootsOf(train, a)
      /\ u.fence = train.fence
  BY <1>2, <1>3, CompletedEffect
<1>5. train' = u /\ journal' = u /\ workers' = workers \ {w}
  BY DEF Ends, Commit
<1> HIDE DEF d, u
<1>6. \A g \in RunningGoals(u) : ReceiptOf(u, g) = ReceiptOf(train, g)
  BY <1>4 DEF ReceiptOf
<1>7. \A v \in workers :
        /\ v.receipt.goal \in RunningGoals(train)
        /\ v.receipt = ReceiptOf(train, v.receipt.goal)
        /\ v.receipt.goal = d.goal => v = w
  BY DEF BuildsJournalled, WorkersApart, ReceiptOf, d
<1>8. {v.receipt : v \in workers \ {w}} = {ReceiptOf(u, g) : g \in RunningGoals(u)}
  <2>1. ASSUME NEW v \in workers \ {w}
        PROVE  v.receipt.goal \in RunningGoals(u)
               /\ v.receipt = ReceiptOf(u, v.receipt.goal)
    BY <1>4, <1>6, <1>7
  <2>2. ASSUME NEW g \in RunningGoals(u)
        PROVE  \E v \in workers \ {w} : v.receipt = ReceiptOf(u, g)
    <3>1. g \in RunningGoals(train) /\ g # d.goal
      BY <1>4
    <3>2. PICK v \in workers : v.receipt = ReceiptOf(train, g)
      BY <3>1 DEF BuildsJournalled
    <3>3. v.receipt.goal = g
      BY <3>2 DEF ReceiptOf
    <3> QED
      BY <1>6, <3>1, <3>2, <3>3 DEF d
  <2> QED
    BY <2>1, <2>2
<1>9. BuildsJournalled'
  BY <1>4, <1>5, <1>6, <1>7, <1>8 DEF BuildsJournalled
<1>10. WorkersApart'
  BY <1>5 DEF WorkersApart
<1> QED
  BY <1>4, <1>5, <1>9, <1>10 DEF BuildsSound

\* A dispatch starts one build, which both trains hold.
LEMMA StartBuilds ==
    ASSUME IInv, NEW now \in 0..MaxClock, Starts(now)
    PROVE  /\ BuildsSound'
           /\ Known(train') = Known(train)
           /\ KnownGoals(train') = KnownGoals(train)
           /\ \A a \in Known(train) : RootsOf(train', a) = RootsOf(train, a)
           /\ workers' \subseteq Worker
<1> USE DEF IInv
<1>1. PICK g \in Choices(train, now, Goals) :
        /\ Commit(Dispatch(train, g))
        /\ workers' = workers \cup
             {[receipt |-> ReceiptOf(train', g),
               siblings |-> {h \in KnownGoals(train) :
                               DerivationOf[h] = DerivationOf[g]}]}
  BY DEF Starts
<1> DEFINE u == Dispatch(train, g)
           w == [receipt |-> ReceiptOf(u, g),
                 siblings |-> {h \in KnownGoals(train) :
                                 DerivationOf[h] = DerivationOf[g]}]
<1>2. train' = u /\ journal' = u /\ workers' = workers \cup {w}
  BY <1>1 DEF Commit
<1>3. /\ Good(u)
      /\ g \notin RunningGoals(train)
      /\ RunningGoals(u) = RunningGoals(train) \cup {g}
      /\ \A h \in RunningGoals(train) : u.nodes[h] = train.nodes[h]
      /\ Known(u) = Known(train)
      /\ KnownGoals(u) = KnownGoals(train)
      /\ \A a \in Known(train) : RootsOf(u, a) = RootsOf(train, a)
  BY DispatchGood DEF Starts
<1> HIDE DEF u
<1>4. \A h \in RunningGoals(train) : ReceiptOf(u, h) = ReceiptOf(train, h)
  BY <1>3 DEF ReceiptOf
<1>5. /\ w.receipt = ReceiptOf(u, g)
      /\ w.receipt.goal = g
      /\ \A h \in w.siblings : DerivationOf[h] = DerivationOf[g]
  BY DEF ReceiptOf
<1>6. w \in Worker
  <2>1. g \in KnownGoals(u) /\ u \in Train
    BY <1>3 DEF RunningGoals, InState, Good
  <2>2. ReceiptOf(u, g) \in Dispatched
    BY <2>1, KnownGoalType DEF ReceiptOf, Dispatched, Node
  <2> QED
    BY <2>2 DEF Worker, KnownGoals
<1> HIDE DEF w
<1>7. \A v \in workers :
        /\ v.receipt.goal \in RunningGoals(train)
        /\ v.receipt = ReceiptOf(train, v.receipt.goal)
  BY DEF BuildsJournalled, ReceiptOf
<1>8. \A v \in workers \cup {w} :
        /\ v.receipt.goal \in RunningGoals(u)
        /\ ReceiptOf(u, v.receipt.goal) = v.receipt
  BY <1>3, <1>4, <1>5, <1>7
<1>9. {v.receipt : v \in workers \cup {w}} = {ReceiptOf(u, h) : h \in RunningGoals(u)}
  <2>1. ASSUME NEW h \in RunningGoals(u)
        PROVE  \E v \in workers \cup {w} : v.receipt = ReceiptOf(u, h)
    BY <1>3, <1>4, <1>5 DEF BuildsJournalled
  <2> QED
    BY <1>8, <2>1
<1>10. BuildsJournalled'
  BY <1>2, <1>8, <1>9 DEF BuildsJournalled
<1>11. WorkersApart'
  BY <1>2, <1>3, <1>5, <1>7 DEF WorkersApart
<1> QED
  BY <1>2, <1>3, <1>6, <1>10, <1>11 DEF BuildsSound, TypeOK

\* Losing the memory and a restart leave no build.
LEMMA LossBuilds ==
    ASSUME IInv,
           \/ Lost /\ UNCHANGED <<disk, clients>>
           \/ \E valid : Restarts(valid)
    PROVE  BuildsSound'
<1> USE DEF IInv
<1>1. CASE Lost /\ UNCHANGED <<disk, clients>>
  BY <1>1, NewTrainGood
     DEF Lost, disk, BuildsSound, BuildsJournalled, WorkersApart
<1>2. ASSUME NEW valid, Restarts(valid)
      PROVE  BuildsSound'
  <2> DEFINE u == Reconcile(journal, valid)
  <2>1. /\ u \in Train
        /\ Sound(u)
        /\ Known(u) = Known(journal)
        /\ \A a \in Known(journal) : u.requests[a].request = journal.requests[a].request
        /\ RunningGoals(u) = {}
    BY ReconcileEffect, ReconcileSound DEF Good
  <2>2. train' = u /\ journal' = u /\ workers' = {}
    BY <1>2 DEF Restarts, Commit, DownClean
  <2> HIDE DEF u
  <2>3. Good(u)
    BY <2>1 DEF Good
  <2> QED
    BY <2>1, <2>2, <2>3 DEF BuildsSound, BuildsJournalled, WorkersApart
<1> QED
  BY <1>1, <1>2

\* Every step keeps the trains sound and the builds journalled.
LEMMA BuildsStep ==
    ASSUME IInv, [Next]_vars
    PROVE  BuildsSound'
BY StepKinds, QuietBuilds, EndBuilds, StartBuilds, LossBuilds

-----------------------------------------------------------------------------
(* Types, and where the loop stands.                                       *)

\* What TypeOK says of the variables other than the trains and the builds.
ControlOK ==
    /\ at \in Phases
    /\ stopping \in BOOLEAN
    /\ planners \in [Attempts -> Planner \cup {None}]
    /\ waiters \in [Attempts -> 0..WaiterLimit]
    /\ job \in Job \cup {None}
    /\ archive \in [Attempts -> Archive \cup {None}]
    /\ roots \in [Attempts -> SUBSET Goals]
    /\ pinned \subseteq Attempts
    /\ told \in [Attempts -> {"Unknown", "Live"} \cup Verdicts]
    /\ handover \in Handover \cup {None}

\* Only goals are retained.
LEMMA RetainedGoals ==
    ASSUME NEW t, NEW a
    PROVE  RetainedGraph(t, a) \subseteq Goals
BY DEF RetainedGraph, KnownGoals

\* Planners keep the types.
LEMMA PlannerControl ==
    ASSUME IInv, NEW a \in Attempts,
           \/ DropReceipt(a) \/ RetainReceipt(a) \/ FailedReceipt(a) \/ DeadlineAct(a)
           \/ \E graph \in Graphs, now \in 0..MaxClock : PlanReceipt(a, graph, now)
           \/ \E g \in Goals : RetainStep(a, g)
           \/ StartPlanner(a)
           \/ RestartRefused(a)
    PROVE  ControlOK'
<1> USE DEF IInv, TypeOK, ControlOK
<1>1. a \in Live => planners[a] \in Planner
  BY DEF Live
<1>2. 0 \in 0..WaiterLimit
  BY LimitsAssumption
<1>3. CASE DropReceipt(a) \/ RetainReceipt(a) \/ FailedReceipt(a)
  BY <1>2, <1>3
     DEF DropReceipt, RetainReceipt, FailedReceipt, Answered, disk, clients
<1>4. CASE DeadlineAct(a)
  BY <1>1, <1>2, <1>4 DEF DeadlineAct, Planner, clients
<1>5. CASE \E graph \in Graphs, now \in 0..MaxClock : PlanReceipt(a, graph, now)
  <2>1. planners[a] \in Planner
    BY <1>1, <1>5 DEF PlanReceipt, Heard
  <2>2. [planners[a] EXCEPT !.step = "Retaining"] \in Planner
    BY <2>1 DEF Planner
  <2>3. planners' = [planners EXCEPT ![a] = [planners[a] EXCEPT !.step = "Retaining"]]
    BY <1>5 DEF PlanReceipt
  <2> QED
    BY <1>5, <2>2, <2>3 DEF PlanReceipt, clients
<1>6. CASE \E g \in Goals : RetainStep(a, g)
  BY <1>6 DEF RetainStep, memory, clients
<1>7. CASE StartPlanner(a)
  BY <1>7 DEF StartPlanner, Planner, disk, clients
<1>8. CASE RestartRefused(a)
  BY <1>8, RetainedGoals DEF RestartRefused, memory, clients
<1> QED
  BY <1>3, <1>4, <1>5, <1>6, <1>7, <1>8

\* Intake keeps the types: a client waits only if there is room for it.
LEMMA IntakeControl ==
    ASSUME IInv,
           \/ \E kind \in Commands, r \in Requests :
                IntakeAct(kind, r) \/ RepeatAct(kind, r)
           \/ \E a \in Attempts : IntakeRetained(a) \/ IntakeUnretained(a)
           \/ \E a \in Attempts : DetachAct(a)
    PROVE  ControlOK'
<1> USE DEF IInv, TypeOK, ControlOK
<1>1. \A r \in Requests : r.attempt \in Attempts
  BY InputsAssumption DEF Request
<1>2. ASSUME NEW a \in Attempts, waiters[a] < WaiterLimit, Attaches(a)
      PROVE  waiters' \in [Attempts -> 0..WaiterLimit]
  BY <1>2, LimitsAssumption DEF Attaches
<1>3. ASSUME NEW kind \in Commands, NEW r \in Requests, IntakeAct(kind, r)
      PROVE  ControlOK'
  BY <1>1, <1>3 DEF IntakeAct, Job, clients
<1>4. ASSUME NEW kind \in Commands, NEW r \in Requests, RepeatAct(kind, r)
      PROVE  ControlOK'
  <2>1. waiters' \in [Attempts -> 0..WaiterLimit]
    BY <1>1, <1>2, <1>4 DEF RepeatAct
  <2> QED
    BY <1>4, <2>1 DEF RepeatAct, clients
<1>5. ASSUME NEW a \in Attempts, IntakeRetained(a)
      PROVE  ControlOK'
  <2>1. waiters[a] < WaiterLimit
    BY <1>5, AbsenceAssumption DEF IntakeRetained, JobSound, Job
  <2>2. waiters' \in [Attempts -> 0..WaiterLimit]
    BY <1>2, <1>5, <2>1 DEF IntakeRetained
  <2> QED
    BY <1>5, <2>2 DEF IntakeRetained, clients
<1>6. ASSUME NEW a \in Attempts, IntakeUnretained(a)
      PROVE  ControlOK'
  BY <1>6 DEF IntakeUnretained, clients
<1>7. ASSUME NEW a \in Attempts, DetachAct(a)
      PROVE  ControlOK'
  BY <1>7, LimitsAssumption DEF DetachAct, disk, clients
<1> QED
  BY <1>3, <1>4, <1>5, <1>6, <1>7

\* The other commands keep the types.
LEMMA CommandControl ==
    ASSUME IInv,
           \/ \E a \in Attempts :
                \/ AdmitAct(a) \/ CancelAct(a) \/ FenceAct(a)
                \/ RetryAct(a) \/ RetryUnretained(a) \/ RetireAct(a)
                \/ RetireAgainAct(a) \/ RetireJournalled(a) \/ RetireReleased(a)
                \/ RetireUnreleased(a) \/ RetireSealed(a)
           \/ \E token \in Attempts \X (0..MaxSequence) : ReleaseFenceAct(token)
           \/ InspectAct
    PROVE  ControlOK'
<1> USE DEF IInv, TypeOK, ControlOK
<1>1. CASE \/ \E a \in Attempts : AdmitAct(a) \/ CancelAct(a)
           \/ \E token \in Attempts \X (0..MaxSequence) : ReleaseFenceAct(token)
  BY <1>1 DEF AdmitAct, CancelAct, ReleaseFenceAct, Saves
<1>2. ASSUME NEW a \in Attempts, FenceAct(a)
      PROVE  ControlOK'
  <2>1. SetFence(train, a).fence \in Fence
    BY <1>2, FenceKeeps DEF FenceAct
  <2> DEFINE quiet == Drained(train)
  <2>2. quiet \in BOOLEAN
    BY DEF Drained
  <2>3. \/ handover' = [fence |-> SetFence(train, a).fence, quiet |-> quiet]
        \/ UNCHANGED handover
    BY <1>2 DEF FenceAct, Commit
  <2> HIDE DEF quiet
  <2>4. handover' \in Handover \cup {None}
    BY <2>1, <2>2, <2>3 DEF Handover
  <2> QED
    BY <1>2, <2>4 DEF FenceAct
<1>3. ASSUME NEW a \in Attempts, RetryAct(a) \/ RetryUnretained(a)
      PROVE  ControlOK'
  BY <1>3, RetainedGoals DEF RetryAct, RetryUnretained, Saves, memory, clients
<1>4. ASSUME NEW a \in Attempts, RetireAct(a)
      PROVE  ControlOK'
  <2>1. Outcome(train, a) \in Verdicts
    BY <1>4 DEF RetireAct, CanRetire, Outcome, Verdicts
  <2>2. [outcome |-> Outcome(train, a), graph |-> RetainedGraph(train, a),
         released |-> FALSE] \in Archive
    BY <2>1, RetainedGoals DEF Archive
  <2> QED
    BY <1>4, <2>2 DEF RetireAct, Job, clients
<1>5. ASSUME NEW a \in Attempts, RetireAgainAct(a)
      PROVE  ControlOK'
  BY <1>5 DEF RetireAgainAct, Job, disk, clients
<1>6. ASSUME NEW a \in Attempts, RetireJournalled(a) \/ RetireReleased(a)
      PROVE  ControlOK'
  <2>1. job \in Job
    BY <1>6, AbsenceAssumption DEF RetireJournalled, RetireReleased, Job
  <2> QED
    BY <1>6, <2>1 DEF RetireJournalled, RetireReleased, Job, clients
<1>7. ASSUME NEW a \in Attempts, RetireUnreleased(a)
      PROVE  ControlOK'
  BY <1>7 DEF RetireUnreleased, clients
<1>9. ASSUME NEW a \in Attempts, RetireSealed(a)
      PROVE  ControlOK'
  <2>1. archive[a] \in Archive
    BY <1>9, AbsenceAssumption DEF RetireSealed, JobSound, Job
  <2>2. [archive[a] EXCEPT !.released = TRUE] \in Archive
    BY <2>1 DEF Archive
  <2>3. archive' \in [Attempts -> Archive \cup {None}]
    BY <1>9, <2>2 DEF RetireSealed
  <2> QED
    BY <1>9, <2>3 DEF RetireSealed, clients
<1>8. CASE InspectAct
  <2>1. handover' \in Handover
    BY <1>8 DEF InspectAct, Handover
  <2> QED
    BY <1>8, <2>1 DEF InspectAct, memory, disk
<1> QED
  BY <1>1, <1>2, <1>3, <1>4, <1>5, <1>6, <1>7, <1>8, <1>9

\* Every step keeps the types.
LEMMA TypeStep ==
    ASSUME IInv, [Next]_vars
    PROVE  TypeOK'
<1> USE DEF IInv
<1>1. train' \in Train /\ journal' \in Train
  BY BuildsStep DEF BuildsSound, Good
<1>2. workers' \subseteq Worker
  <2>1. CASE Quiet \/ \E w \in workers, ok \in BOOLEAN, valid \in SUBSET Goals :
                        Ends(w, ok, valid)
    BY <2>1 DEF Quiet, Ends, TypeOK
  <2>2. CASE \E now \in 0..MaxClock : Starts(now)
    BY <2>2, StartBuilds
  <2>3. CASE Lost \/ \E valid : Restarts(valid)
    BY <2>3 DEF Lost, Restarts, TypeOK
  <2> QED
    BY <2>1, <2>2, <2>3, StepKinds
<1>3. ControlOK
  BY DEF ControlOK, TypeOK
<1>4. ControlOK'
  <2>1. CASE UNCHANGED vars
    BY <1>3, <2>1 DEF vars, memory, disk, clients, ControlOK
  <2>2. CASE \E a \in Attempts :
               \/ DropReceipt(a) \/ RetainReceipt(a) \/ FailedReceipt(a)
               \/ DeadlineAct(a)
               \/ \E graph \in Graphs, now \in 0..MaxClock : PlanReceipt(a, graph, now)
               \/ \E g \in Goals : RetainStep(a, g)
               \/ StartPlanner(a)
               \/ RestartRefused(a)
    BY <2>2, PlannerControl
  <2>3. CASE \/ \E kind \in Commands, r \in Requests :
                  IntakeAct(kind, r) \/ RepeatAct(kind, r)
             \/ \E a \in Attempts : IntakeRetained(a) \/ IntakeUnretained(a)
             \/ \E a \in Attempts : DetachAct(a)
    BY <2>3, IntakeControl
  <2>4. CASE \/ \E a \in Attempts :
                  \/ AdmitAct(a) \/ CancelAct(a) \/ FenceAct(a)
                  \/ RetryAct(a) \/ RetryUnretained(a) \/ RetireAct(a)
                  \/ RetireAgainAct(a) \/ RetireJournalled(a) \/ RetireReleased(a)
                  \/ RetireUnreleased(a) \/ RetireSealed(a)
             \/ \E token \in Attempts \X (0..MaxSequence) : ReleaseFenceAct(token)
             \/ InspectAct
    BY <2>4, CommandControl
  <2>5. CASE FlushAct
    <3>1. waiters' \in [Attempts -> 0..WaiterLimit]
      BY <1>3, <2>5, LimitsAssumption DEF FlushAct, ControlOK
    <3>2. \A a \in Attempts : Answer(a) \in {"Unknown", "Live"} \cup Verdicts
      BY <1>3 DEF Answer, ControlOK, Archive
    <3> QED
      BY <1>3, <2>5, <3>1, <3>2 DEF FlushAct, ControlOK, Phases, disk
  <2>6. CASE \/ PlannersStarted \/ WorkersStarted \/ ReceiptsTaken
             \/ DeadlinesPassed \/ CompletionsTaken \/ StopAct
    BY <1>3, <2>6
       DEF PlannersStarted, WorkersStarted, ReceiptsTaken, DeadlinesPassed,
           CompletionsTaken, StopAct, ControlOK, Phases, disk, clients
  <2>7. CASE FlushPanic \/ ShutdownAct \/ CrashAct
    <3>1. Lost /\ UNCHANGED <<disk, clients>>
      BY <2>7 DEF FlushPanic, ShutdownAct, CrashAct
    <3>2. /\ NoPlanners \in [Attempts -> Planner \cup {None}]
          /\ NoWaiters \in [Attempts -> 0..WaiterLimit]
      BY LimitsAssumption DEF NoPlanners, NoWaiters
    <3> QED
      BY <1>3, <3>1, <3>2 DEF Lost, ControlOK, Phases, disk, clients
  <2>8. CASE \/ \E w \in workers, ok \in BOOLEAN : \E valid \in SUBSET w.siblings :
                  CompletedAct(w, ok, valid)
             \/ \E now \in 0..MaxClock : DispatchAct(now)
    BY <1>3, <2>8 DEF CompletedAct, DispatchAct, ControlOK, clients
  <2>9. ASSUME NEW valid, RestartAct(valid)
        PROVE  ControlOK'
    <3>1. RetainedIn(journal) \in [Attempts -> SUBSET Goals]
      BY <1>3, RetainedGoals DEF RetainedIn, ControlOK
    <3>2. Known(journal) \subseteq Attempts
      BY DEF Known
    <3> QED
      BY <1>3, <2>9, <3>1, <3>2 DEF RestartAct, ControlOK, Phases, clients
  <2> QED
    BY <2>1, <2>2, <2>3, <2>4, <2>5, <2>6, <2>7, <2>8, <2>9 DEF Next
<1> QED
  BY <1>1, <1>2, <1>4 DEF TypeOK, ControlOK

-----------------------------------------------------------------------------
(* Threads, commands between two writes, and the fence.                    *)

\* Threads that run on find their request, and the roots of its plan.
LEMMA ThreadsKept ==
    ASSUME IInv, Live' \subseteq Live, Live' \subseteq Known(train'),
           \A a \in Live' : planners'[a].step = planners[a].step,
           \A a \in Known(train) \cap Known(train') :
             RootsOf(train, a) \subseteq KnownGoals(train) =>
               RootsOf(train', a) \subseteq KnownGoals(train')
    PROVE  ThreadsKnown' /\ Rooted'
BY DEF IInv, ThreadsKnown, Rooted

\* Most steps let threads run or end.
LEMMA FewerThreads ==
    ASSUME IInv, Quiet, Live' \subseteq Live,
           \A a \in Live' : planners'[a].step = planners[a].step
    PROVE  ThreadsKnown' /\ Rooted'
BY ThreadsKept DEF Quiet, Keeps

\* The threads of a.
LEMMA OneThread ==
    ASSUME IInv, NEW a \in Attempts,
           \/ planners' = [planners EXCEPT ![a] = None]
           \/ a \in Live /\ planners' = [planners EXCEPT ![a].timed_out = TRUE]
    PROVE  /\ Live' \subseteq Live
           /\ \A b \in Live' : planners'[b].step = planners[b].step
<1> DEFINE late == [planners[a] EXCEPT !.timed_out = TRUE]
<1>1. a \in Live => late.step = planners[a].step
  BY DEF Live, Planner, IInv, TypeOK
<1>2. \/ planners' = [planners EXCEPT ![a] = None]
      \/ a \in Live /\ planners' = [planners EXCEPT ![a] = late]
  OBVIOUS
<1> HIDE DEF late
<1> QED
  BY <1>1, <1>2 DEF Live, IInv, TypeOK

\* A thread starts for a known request, and its retention for a known plan.
LEMMA PlannerThreads ==
    ASSUME IInv, NEW a \in Attempts,
           \/ DropReceipt(a) \/ RetainReceipt(a) \/ FailedReceipt(a) \/ DeadlineAct(a)
           \/ \E graph \in Graphs, now \in 0..MaxClock : PlanReceipt(a, graph, now)
           \/ StartPlanner(a)
    PROVE  ThreadsKnown' /\ Rooted'
<1>1. CASE \/ DropReceipt(a) \/ RetainReceipt(a) \/ FailedReceipt(a)
           \/ DeadlineAct(a)
  <2>1. \/ planners' = [planners EXCEPT ![a] = None]
        \/ a \in Live /\ planners' = [planners EXCEPT ![a].timed_out = TRUE]
    BY <1>1 DEF DropReceipt, RetainReceipt, FailedReceipt, DeadlineAct, Answered
  <2>2. Quiet
    BY <1>1, PlannerKinds
  <2> QED
    BY <2>1, <2>2, OneThread, FewerThreads
<1>2. ASSUME NEW graph \in Graphs, NEW now \in 0..MaxClock,
             PlanReceipt(a, graph, now)
      PROVE  ThreadsKnown' /\ Rooted'
  <2> DEFINE u == Flagged(Submit(train, train.requests[a].request, graph, now), a, FALSE)
  <2>1. /\ a \in Live
        /\ a \in Known(train)
        /\ CanSubmit(train, train.requests[a].request, graph)
    BY <1>2 DEF PlanReceipt, Heard, IInv, ThreadsKnown
  <2>2. /\ Keeps(train, u)
        /\ Known(u) = Known(train)
        /\ RootsOf(u, a) \subseteq KnownGoals(u)
    BY <2>1, PlanKeeps DEF IInv
  <2>3. train' = u /\ planners' = [planners EXCEPT ![a].step = "Retaining"]
    BY <1>2 DEF PlanReceipt, Flagged, Commit
  <2> HIDE DEF u
  <2>4. \A b \in Attempts \ {a} : planners'[b] = planners[b]
    BY <2>3 DEF IInv, TypeOK
  <2>5. Live' \subseteq Live
    BY <2>1, <2>4 DEF Live
  <2> QED
    BY <2>2, <2>3, <2>4, <2>5 DEF Live, IInv, ThreadsKnown, Rooted, Keeps
<1>3. CASE StartPlanner(a)
  <2>1. /\ train' = train
        /\ planners' = [planners EXCEPT ![a] =
                          [step |-> "Planning", timed_out |-> FALSE]]
        /\ a \in Known(train)
    BY <1>3 DEF StartPlanner, Unplanned, Active
  <2>2. /\ \A b \in Attempts \ {a} : planners'[b] = planners[b]
        /\ planners'[a].step # "Retaining"
    BY <2>1 DEF IInv, TypeOK
  <2> QED
    BY <2>1, <2>2 DEF Live, IInv, ThreadsKnown, Rooted
<1> QED
  BY <1>1, <1>2, <1>3

\* Every step keeps the threads' requests known.
LEMMA ThreadsStep ==
    ASSUME IInv, [Next]_vars
    PROVE  ThreadsKnown' /\ Rooted'
<1>1. CASE Quiet /\ UNCHANGED planners
  BY <1>1, FewerThreads DEF Live
<1>2. CASE \E a \in Attempts :
             \/ DropReceipt(a) \/ RetainReceipt(a) \/ FailedReceipt(a)
             \/ DeadlineAct(a)
             \/ \E graph \in Graphs, now \in 0..MaxClock : PlanReceipt(a, graph, now)
             \/ StartPlanner(a)
  BY <1>2, PlannerThreads
<1>3. ASSUME NEW w \in workers, NEW ok \in BOOLEAN, NEW valid \in SUBSET Goals,
             Ends(w, ok, valid)
      PROVE  ThreadsKnown' /\ Rooted'
  <2>1. /\ Known(train') = Known(train)
        /\ KnownGoals(train') = KnownGoals(train)
        /\ \A a \in Known(train) : RootsOf(train', a) = RootsOf(train, a)
    BY <1>3, EndBuilds
  <2> QED
    BY <1>3, <2>1 DEF Ends, IInv, ThreadsKnown, Rooted, Live
<1>4. ASSUME NEW now \in 0..MaxClock, Starts(now)
      PROVE  ThreadsKnown' /\ Rooted'
  <2>1. /\ Known(train') = Known(train)
        /\ KnownGoals(train') = KnownGoals(train)
        /\ \A a \in Known(train) : RootsOf(train', a) = RootsOf(train, a)
    BY <1>4, StartBuilds
  <2> QED
    BY <1>4, <2>1 DEF Starts, IInv, ThreadsKnown, Rooted, Live
<1>5. CASE Lost \/ \E valid : Restarts(valid)
  <2>1. planners' = NoPlanners
    BY <1>5 DEF Lost, Restarts, IInv, DownClean
  <2> QED
    BY <2>1 DEF NoPlanners, Live, ThreadsKnown, Rooted
<1>6. Quiet =>
        \/ UNCHANGED planners
        \/ Lost
        \/ \E a \in Attempts :
             \/ DropReceipt(a) \/ RetainReceipt(a) \/ FailedReceipt(a)
             \/ DeadlineAct(a)
             \/ \E graph \in Graphs, now \in 0..MaxClock : PlanReceipt(a, graph, now)
             \/ StartPlanner(a)
  BY DEF Next, vars, memory, RetainStep, CompletedAct, DetachAct, IntakeAct,
         IntakeRetained, IntakeUnretained, RepeatAct, AdmitAct, CancelAct, FenceAct,
         ReleaseFenceAct, Saves, RetryAct, RetryUnretained, RetireAct,
         RetireAgainAct, RetireJournalled, RetireReleased, RetireUnreleased,
         RetireSealed, InspectAct, FlushAct, FlushPanic, PlannersStarted,
         DispatchAct, WorkersStarted, ReceiptsTaken, DeadlinesPassed,
         CompletionsTaken, StopAct, ShutdownAct, CrashAct, RestartAct, RestartRefused
<1> QED
  BY <1>1, <1>2, <1>3, <1>4, <1>5, <1>6, StepKinds

\* Every step leaves nothing in memory while no service runs.
LEMMA DownStep ==
    ASSUME IInv, [Next]_vars
    PROVE  DownClean'
<1>1. CASE Lost
  BY <1>1 DEF Lost, DownClean
<1>2. CASE UNCHANGED memory
  BY <1>2 DEF memory, IInv, DownClean
<1>3. CASE at' # "down"
  BY <1>3 DEF DownClean
<1>4. Lost \/ UNCHANGED memory \/ at' # "down"
  <2>1. CASE \/ \E a \in Attempts : DropReceipt(a) \/ RetainReceipt(a)
                                    \/ FailedReceipt(a) \/ DeadlineAct(a)
             \/ \E a \in Attempts, graph \in Graphs, now \in 0..MaxClock :
                  PlanReceipt(a, graph, now)
             \/ \E w \in workers, ok \in BOOLEAN : \E valid \in SUBSET w.siblings :
                  CompletedAct(w, ok, valid)
             \/ \E a \in Attempts : DetachAct(a) \/ StartPlanner(a)
             \/ \E now \in 0..MaxClock : DispatchAct(now)
    BY <2>1
       DEF DropReceipt, RetainReceipt, FailedReceipt, DeadlineAct, PlanReceipt,
           Heard, CompletedAct, DetachAct, StartPlanner, DispatchAct
  <2>2. CASE \/ \E kind \in Commands, r \in Requests :
                  IntakeAct(kind, r) \/ RepeatAct(kind, r)
             \/ \E a \in Attempts : AdmitAct(a) \/ CancelAct(a) \/ FenceAct(a)
                                    \/ RetryAct(a) \/ RetireAct(a)
                                    \/ RetireAgainAct(a)
             \/ \E token \in Attempts \X (0..MaxSequence) : ReleaseFenceAct(token)
    BY <2>2
       DEF IntakeAct, RepeatAct, AdmitAct, CancelAct, FenceAct, RetryAct, RetireAct,
           RetireAgainAct, ReleaseFenceAct, Receives, Saves
  <2>3. CASE \E a \in Attempts :
               \/ IntakeRetained(a) \/ IntakeUnretained(a) \/ RetireJournalled(a)
               \/ RetireReleased(a) \/ RetireUnreleased(a) \/ RetireSealed(a)
    <3>1. job # None
      BY <2>3, AbsenceAssumption
         DEF IntakeRetained, IntakeUnretained, RetireJournalled, RetireReleased,
             RetireUnreleased, RetireSealed, Job
    <3>2. at = "commands"
      BY <3>1 DEF IInv, JobSound
    <3> QED
      BY <2>3, <3>2
         DEF IntakeRetained, IntakeUnretained, RetireJournalled, RetireReleased,
             RetireUnreleased, RetireSealed
  <2>4. CASE \/ FlushAct \/ FlushPanic \/ PlannersStarted \/ WorkersStarted
             \/ ReceiptsTaken \/ DeadlinesPassed \/ CompletionsTaken \/ StopAct
             \/ ShutdownAct \/ CrashAct
    BY <2>4
       DEF FlushAct, FlushPanic, PlannersStarted, WorkersStarted, ReceiptsTaken,
           DeadlinesPassed, CompletionsTaken, StopAct, ShutdownAct, CrashAct, Up
  <2>5. CASE \/ \E a \in Attempts, g \in Goals : RetainStep(a, g)
             \/ \E a \in Attempts : RetryUnretained(a) \/ RestartRefused(a)
             \/ InspectAct
             \/ \E valid \in SUBSET KnownGoals(journal) : RestartAct(valid)
             \/ UNCHANGED vars
    BY <2>5
       DEF RetainStep, RetryUnretained, RestartRefused, InspectAct, RestartAct, vars
  <2> QED
    BY <2>1, <2>2, <2>3, <2>4, <2>5 DEF Next
<1> QED
  BY <1>1, <1>2, <1>3, <1>4

\* What becomes of a command between two writes: it ends, it waits while a
\* thread pins on, or it is begun or goes on.
LEMMA JobKinds ==
    ASSUME IInv, [Next]_vars
    PROVE  \/ job' = None
           \/ StopAct \/ UNCHANGED vars
           \/ \E a \in Attempts, g \in Goals : RetainStep(a, g)
           \/ \E kind \in Commands, r \in Requests : IntakeAct(kind, r)
           \/ \E a \in Attempts : /\ \/ RetireAct(a) \/ RetireAgainAct(a)
                                     \/ RetireJournalled(a) \/ RetireReleased(a)
                                  /\ job' # job
<1> USE DEF IInv
<1>1. CASE job = None /\ UNCHANGED job
  BY <1>1
<1>2. CASE at # "commands" /\ UNCHANGED job
  BY <1>1, <1>2 DEF JobSound
<1>3. CASE Lost
  BY <1>3 DEF Lost
<1>4. CASE \/ \E a \in Attempts : DropReceipt(a) \/ RetainReceipt(a)
                                  \/ FailedReceipt(a) \/ DeadlineAct(a)
           \/ \E a \in Attempts, graph \in Graphs, now \in 0..MaxClock :
                PlanReceipt(a, graph, now)
           \/ \E w \in workers, ok \in BOOLEAN : \E valid \in SUBSET w.siblings :
                CompletedAct(w, ok, valid)
           \/ \E a \in Attempts : DetachAct(a) \/ StartPlanner(a) \/ RestartRefused(a)
           \/ \E now \in 0..MaxClock : DispatchAct(now)
           \/ PlannersStarted \/ WorkersStarted \/ ReceiptsTaken
           \/ DeadlinesPassed \/ CompletionsTaken
           \/ \E valid \in SUBSET KnownGoals(journal) : RestartAct(valid)
  BY <1>2, <1>4
     DEF DropReceipt, RetainReceipt, FailedReceipt, DeadlineAct, PlanReceipt,
         Heard, CompletedAct, DetachAct, StartPlanner, RestartRefused, DispatchAct,
         PlannersStarted, WorkersStarted, ReceiptsTaken, DeadlinesPassed,
         CompletionsTaken, RestartAct, memory
<1>5. CASE \/ \E kind \in Commands, r \in Requests : RepeatAct(kind, r)
           \/ \E a \in Attempts : AdmitAct(a) \/ CancelAct(a) \/ FenceAct(a)
                                  \/ RetryAct(a) \/ RetryUnretained(a)
           \/ \E token \in Attempts \X (0..MaxSequence) : ReleaseFenceAct(token)
           \/ InspectAct \/ FlushAct
  BY <1>1, <1>5
     DEF RepeatAct, AdmitAct, CancelAct, FenceAct, RetryAct, RetryUnretained,
         ReleaseFenceAct, InspectAct, FlushAct, Receives, Saves, memory
<1>6. CASE \/ \E a \in Attempts, g \in Goals : RetainStep(a, g)
           \/ StopAct \/ UNCHANGED vars
  BY <1>6
<1>7. CASE FlushPanic \/ ShutdownAct \/ CrashAct
  BY <1>3, <1>7 DEF FlushPanic, ShutdownAct, CrashAct
<1>8. CASE \E a \in Attempts :
             \/ IntakeRetained(a) \/ IntakeUnretained(a)
             \/ RetireUnreleased(a) \/ RetireSealed(a)
  BY <1>8
     DEF IntakeRetained, IntakeUnretained, RetireUnreleased, RetireSealed
<1>9. CASE \/ \E kind \in Commands, r \in Requests : IntakeAct(kind, r)
           \/ \E a \in Attempts : \/ RetireAct(a) \/ RetireAgainAct(a)
                                  \/ RetireJournalled(a) \/ RetireReleased(a)
  <2>1. ASSUME NEW a \in Attempts,
               \/ RetireAct(a) \/ RetireAgainAct(a) \/ RetireJournalled(a)
               \/ RetireReleased(a),
               job' = job
        PROVE  job' = None
    <3>1. CASE RetireAct(a) \/ RetireAgainAct(a)
      BY <2>1, <3>1 DEF RetireAct, RetireAgainAct, Receives
    <3>2. CASE RetireJournalled(a) \/ RetireReleased(a)
      BY <2>1, <3>2 DEF RetireJournalled, RetireReleased
    <3> QED
      BY <2>1, <3>1, <3>2
  <2> QED
    BY <1>9, <2>1
<1> QED
  BY <1>3, <1>4, <1>5, <1>6, <1>7, <1>8, <1>9 DEF Next

\* Every step keeps a command between two writes as its guards found it.
LEMMA JobStep ==
    ASSUME IInv, [Next]_vars
    PROVE  JobSound'
<1> USE DEF IInv
<1>1. CASE job' = None
  BY <1>1 DEF JobSound
<1>2. CASE UNCHANGED <<at, train, planners, waiters, job, archive>>
  BY <1>2 DEF JobSound, Live
<1>3. ASSUME NEW kind \in Commands, NEW r \in Requests, IntakeAct(kind, r),
             job' # None
      PROVE  JobSound'
  <2>1. /\ at' = "commands"
        /\ waiters' = waiters
        /\ waiters[r.attempt] < WaiterLimit
        /\ job' = [attempt |-> r.attempt, step |-> "intake"]
        /\ train' = Register(train, r, kind = "Submit")
    BY <1>3 DEF IntakeAct, Receives, Commit
  <2>2. r \in Request /\ CanRegister(train, r) /\ (kind = "Submit") \in BOOLEAN
    BY <1>3, InputsAssumption DEF IntakeAct, CanIntake
  <2>3. r.attempt \in Known(train')
    BY <2>1, <2>2, RegisterKeeps
  <2> QED
    BY <2>1, <2>3 DEF JobSound
<1>4. ASSUME NEW a \in Attempts,
             \/ RetireAct(a) \/ RetireAgainAct(a) \/ RetireJournalled(a)
             \/ RetireReleased(a),
             job' # None, job' # job
      PROVE  JobSound'
  <2>1. CASE RetireAct(a)
    <3> DEFINE evidence == [outcome |-> Outcome(train, a),
                            graph |-> RetainedGraph(train, a), released |-> FALSE]
    <3>1. archive'[a] = evidence
      BY <2>1 DEF RetireAct, TypeOK
    <3>2. archive'[a] # None
      <4>1. Outcome(train, a) \in Verdicts
        BY <2>1 DEF RetireAct, CanRetire, Outcome, Verdicts
      <4>2. evidence \in Archive
        BY <4>1, RetainedGoals DEF Archive
      <4> QED
        BY <3>1, <4>2, AbsenceAssumption
    <3>3. /\ at' = "commands"
          /\ job' = [attempt |-> a, step |-> "archived"]
          /\ CanRetire(train, a)
          /\ a \notin Live
          /\ UNCHANGED <<train, planners>>
      BY <1>4, <2>1 DEF RetireAct, Receives
    <3> QED
      BY <3>2, <3>3 DEF JobSound, Live
  <2>2. CASE RetireAgainAct(a)
    BY <2>2 DEF RetireAgainAct, Receives, JobSound, Live, disk
  <2>3. CASE RetireJournalled(a) \/ RetireReleased(a)
    <3>1. /\ job \in Job
          /\ job.attempt = a
          /\ job.step \in {"archived", "journalled"}
      BY <2>3 DEF RetireJournalled, RetireReleased, Job
    <3>2. /\ at = "commands"
          /\ archive[a] # None
          /\ a \notin Live
      BY <3>1, AbsenceAssumption DEF JobSound
    <3>3. \E step \in {"journalled", "released"} : job' = [job EXCEPT !.step = step]
      BY <1>4, <2>3 DEF RetireJournalled, RetireReleased
    <3>4. job'.attempt = a /\ job'.step \in {"journalled", "released"}
      BY <3>1, <3>3 DEF Job
    <3>5. UNCHANGED <<at, planners, archive>>
      BY <2>3 DEF RetireJournalled, RetireReleased
    <3> QED
      BY <3>2, <3>4, <3>5 DEF JobSound, Live
  <2> QED
    BY <1>4, <2>1, <2>2, <2>3
<1>5. CASE StopAct \/ UNCHANGED vars \/ \E a \in Attempts, g \in Goals : RetainStep(a, g)
  BY <1>2, <1>5 DEF StopAct, RetainStep, vars, memory, disk
<1> QED
  BY <1>1, <1>3, <1>4, <1>5, JobKinds

\* Every step keeps the fence that its owner was told.
LEMMA HandoverStep ==
    ASSUME IInv, [Next]_vars
    PROVE  HandoverQuiet'
<1> USE DEF IInv
<1>1. CASE Quiet /\ FencesKept
  BY <1>1 DEF Quiet, FencesKept, HandoverQuiet
<1>2. Drained(train) => workers = {}
  BY DEF Drained, BuildsJournalled
<1>3. handover # None => handover \in Handover /\ handover.fence # None
  BY NoneAssumption DEF TypeOK, Handover
<1>4. ASSUME NEW a \in Attempts, FenceAct(a)
      PROVE  HandoverQuiet'
  <2> DEFINE u == SetFence(train, a)
             quiet == Drained(train)
  <2>1. Up /\ UNCHANGED <<at, workers>>
    BY <1>4 DEF FenceAct, Receives, Up
  <2>2. train.fence # None => u.fence = train.fence
    BY <1>4, FenceKeeps DEF FenceAct
  <2>3. CASE Commit(u) /\ handover' = [fence |-> train'.fence, quiet |-> quiet]
    <3>1. quiet => workers = {}
      BY <1>2
    <3> HIDE DEF u, quiet
    <3> QED
      BY <2>1, <2>3, <3>1 DEF Commit, HandoverQuiet
  <2>4. CASE CommitFails(u) /\ UNCHANGED handover
    <3> HIDE DEF u
    <3> QED
      BY <1>3, <2>1, <2>2, <2>4 DEF CommitFails, HandoverQuiet, Up
  <2> QED
    BY <1>4, <2>3, <2>4 DEF FenceAct
<1>5. ASSUME NEW token, ReleaseFenceAct(token)
      PROVE  HandoverQuiet'
  BY <1>5 DEF ReleaseFenceAct, HandoverQuiet
<1>6. CASE InspectAct
  <2>1. /\ handover # None
        /\ workers = {}
        /\ UNCHANGED <<at, train, workers, journal>>
    BY <1>2, <1>6 DEF InspectAct, memory, disk
  <2>2. handover'.fence = handover.fence
    BY <1>3, <1>6 DEF InspectAct, Handover
  <2> QED
    BY <2>1, <2>2 DEF HandoverQuiet, Up
<1>7. ASSUME NEW w \in workers, NEW ok \in BOOLEAN, NEW valid \in SUBSET Goals,
             Ends(w, ok, valid)
      PROVE  HandoverQuiet'
  <2>1. train'.fence = train.fence /\ journal' = train'
    BY <1>7, EndBuilds
  <2>2. at = "completions" /\ workers' = workers \ {w} /\ UNCHANGED <<at, handover>>
    BY <1>7 DEF Ends, clients
  <2> QED
    BY <2>1, <2>2 DEF HandoverQuiet, Up
<1>8. ASSUME NEW now \in 0..MaxClock, Starts(now)
      PROVE  HandoverQuiet'
  <2>1. Up /\ train.fence = None /\ UNCHANGED handover
    BY <1>8 DEF Starts, CanDispatch, Up, clients
  <2>2. handover = None
    BY <1>3, <2>1 DEF HandoverQuiet
  <2> QED
    BY <2>1, <2>2 DEF HandoverQuiet
<1>9. CASE Lost /\ UNCHANGED <<disk, clients>>
  BY <1>9 DEF Lost, disk, clients, HandoverQuiet, Up
<1>10. ASSUME NEW valid, Restarts(valid)
       PROVE  HandoverQuiet'
  <2> DEFINE u == Reconcile(journal, valid)
  <2>1. u.fence = journal.fence
    BY ReconcileEffect DEF Good
  <2>2. train' = u /\ journal' = u /\ workers' = {} /\ UNCHANGED handover
    BY <1>10 DEF Restarts, Commit, DownClean, clients
  <2> HIDE DEF u
  <2> QED
    BY <2>1, <2>2 DEF HandoverQuiet
<1>11. CASE FenceCommand
  BY <1>4, <1>5, <1>6, <1>11 DEF FenceCommand
<1> QED
  BY <1>1, <1>7, <1>8, <1>9, <1>10, <1>11, StepKinds

-----------------------------------------------------------------------------
(* The ledger.                                                             *)

\* What clients were told holds of the disk and, while the service runs, of
\* the train that answers them.
LedgerOK ==
    \A a \in Attempts :
      /\ told[a] = "Live" => a \in Known(journal) \/ archive[a] # None
      /\ told[a] \in Verdicts => /\ a \notin Known(journal)
                                 /\ archive[a] # None
                                 /\ archive[a].outcome = told[a]
      /\ Up =>
           /\ told[a] = "Live" => a \in Known(train) \/ archive[a] # None
           /\ told[a] \in Verdicts => a \notin Known(train)
           /\ a \in Known(train) => a \in Known(journal) \/ archive[a] # None
           /\ a \notin Known(train) /\ archive[a] # None => a \notin Known(journal)

\* Steps that move no request keep it.
LEMMA MembersLedger ==
    ASSUME LedgerOK, MembersKept
    PROVE  LedgerOK'
BY DEF LedgerOK, MembersKept

\* A new request is one that no client was told of.
LEMMA IntakeLedger ==
    ASSUME IInv, LedgerOK, NEW kind \in Commands, NEW r \in Requests,
           IntakeAct(kind, r)
    PROVE  LedgerOK'
<1> DEFINE u == Register(train, r, kind = "Submit")
<1>1. /\ r \in Request /\ CanRegister(train, r) /\ (kind = "Submit") \in BOOLEAN
      /\ r.attempt \notin Known(train)
      /\ archive[r.attempt] = None
  BY InputsAssumption DEF IntakeAct, CanIntake
<1>2. Known(u) = Known(train) \cup {r.attempt}
  BY <1>1, RegisterKeeps DEF IInv
<1>3. /\ Up /\ UNCHANGED <<at, archive, told>>
      /\ \/ train' = u /\ journal' = u
         \/ train' = train /\ journal' \in {journal, u}
  BY DEF IntakeAct, Receives, Commit, CommitFails, Up, clients
<1>4. told[r.attempt] \notin {"Live"} \cup Verdicts
  BY <1>1, <1>3 DEF LedgerOK, Request
<1> HIDE DEF u
<1> QED
  BY <1>1, <1>2, <1>3, <1>4 DEF LedgerOK, Up

\* A request is in the archive before it leaves the train, and its verdict is
\* told only then.
LEMMA RetireLedger ==
    ASSUME IInv, LedgerOK, RetireCommand
    PROVE  LedgerOK'
<1> USE DEF IInv
<1>1. ASSUME NEW a \in Attempts, RetireAct(a)
      PROVE  LedgerOK'
  <2> DEFINE evidence == [outcome |-> Outcome(train, a),
                          graph |-> RetainedGraph(train, a), released |-> FALSE]
  <2>1. /\ Up /\ UNCHANGED <<at, train, journal, told>>
        /\ a \in Known(train)
        /\ archive' = [archive EXCEPT ![a] = evidence]
    BY <1>1 DEF RetireAct, Receives, CanRetire, Up, clients
  <2>2. evidence # None
    <3>1. Outcome(train, a) \in Verdicts
      BY <1>1 DEF RetireAct, CanRetire, Outcome, Verdicts
    <3>2. evidence \in Archive
      BY <3>1, RetainedGoals DEF Archive
    <3> QED
      BY <3>2, AbsenceAssumption
  <2> HIDE DEF evidence
  <2>3. \A b \in Attempts : archive'[b] = IF b = a THEN evidence ELSE archive[b]
    BY <2>1 DEF TypeOK
  <2>4. told[a] \notin Verdicts
    BY <2>1 DEF LedgerOK
  <2> QED
    BY <2>1, <2>2, <2>3, <2>4 DEF LedgerOK, Up
<1>2. ASSUME NEW a \in Attempts, RetireJournalled(a)
      PROVE  LedgerOK'
  <2> DEFINE u == Retire(train, a)
  <2>1. CanRetire(train, a) /\ archive[a] # None /\ Up
    BY <1>2, AbsenceAssumption DEF RetireJournalled, JobSound, Job, Up
  <2>2. a \in Known(train) /\ Known(u) = Known(train) \ {a}
    BY <2>1, RetireKeeps DEF CanRetire
  <2>3. /\ UNCHANGED <<at, archive, told>>
        /\ \/ train' = u /\ journal' = u
           \/ train' = train /\ journal' \in {journal, u}
    BY <1>2 DEF RetireJournalled, Commit, CommitFails, clients
  <2>4. told[a] \notin Verdicts
    BY <2>1, <2>2 DEF LedgerOK
  <2> HIDE DEF u
  <2> QED
    BY <2>1, <2>2, <2>3, <2>4 DEF LedgerOK, Up
<1>3. ASSUME NEW a \in Attempts, RetireSealed(a)
      PROVE  LedgerOK'
  <2> DEFINE sealed == [archive[a] EXCEPT !.released = TRUE]
  <2>1. archive[a] \in Archive
    BY <1>3, AbsenceAssumption DEF RetireSealed, JobSound, Job, TypeOK
  <2>2. sealed \in Archive /\ sealed.outcome = archive[a].outcome
    BY <2>1 DEF Archive
  <2>3. /\ UNCHANGED <<at, train, journal, told>>
        /\ archive' = [archive EXCEPT ![a] = sealed] \/ archive' = archive
    BY <1>3 DEF RetireSealed, clients
  <2> HIDE DEF sealed
  <2>4. \A b \in Attempts :
          /\ archive'[b] # None <=> archive[b] # None
          /\ archive[b] # None => archive'[b].outcome = archive[b].outcome
    BY <2>1, <2>2, <2>3, AbsenceAssumption DEF TypeOK
  <2> QED
    BY <2>3, <2>4 DEF LedgerOK, Up
<1> QED
  BY <1>1, <1>2, <1>3 DEF RetireCommand

\* An answer follows what was told before, and the disk bears it out.
LEMMA AnswerLedger ==
    ASSUME IInv, LedgerOK, FlushAct
    PROVE  /\ LedgerOK'
           /\ \A a \in Attempts : Promise!Follows(told'[a], told[a])
<1>1. /\ Up /\ Up'
      /\ UNCHANGED <<train, journal, archive>>
      /\ \A a \in Attempts : told'[a] = Answer(a)
  BY DEF FlushAct, disk, Up
<1>2. "Live" \notin Verdicts /\ "Unknown" \notin Verdicts
  BY DEF Verdicts
<1>3. \A a \in Attempts :
        /\ told[a] \in {"Unknown", "Live"} \cup Verdicts
        /\ archive[a] # None => archive[a].outcome \in Verdicts
  BY DEF IInv, TypeOK, Archive
<1>4. LedgerOK'
  BY <1>1, <1>2, <1>3 DEF LedgerOK, Answer
<1>5. \A a \in Attempts : Promise!Follows(told'[a], told[a])
  BY <1>1, <1>2, <1>3 DEF LedgerOK, Answer, Promise!Follows
<1> QED
  BY <1>4, <1>5

\* Every step keeps what was told.
LEMMA LedgerStep ==
    ASSUME IInv, LedgerOK, [Next]_vars
    PROVE  /\ LedgerOK'
           /\ \A a \in Attempts : Promise!Follows(told'[a], told[a])
<1>1. \A a \in Attempts : Promise!Follows(told[a], told[a])
  BY DEF Promise!Follows
<1>2. CASE MembersKept
  BY <1>1, <1>2, MembersLedger DEF MembersKept
<1>3. CASE RetireCommand
  <2>1. UNCHANGED told
    BY <1>3 DEF RetireCommand, RetireAct, RetireJournalled, RetireSealed, clients
  <2> QED
    BY <1>1, <1>3, <2>1, RetireLedger
<1>4. CASE FlushAct
  BY <1>4, AnswerLedger
<1>5. ASSUME NEW kind \in Commands, NEW r \in Requests, IntakeAct(kind, r)
      PROVE  /\ LedgerOK'
             /\ \A a \in Attempts : Promise!Follows(told'[a], told[a])
  <2>1. UNCHANGED told
    BY <1>5 DEF IntakeAct, clients
  <2> QED
    BY <1>1, <1>5, <2>1, IntakeLedger
<1>6. CASE \/ \E w \in workers, ok \in BOOLEAN, valid \in SUBSET Goals :
                Ends(w, ok, valid)
           \/ \E now \in 0..MaxClock : Starts(now)
  <2>1. Known(train') = Known(train) /\ journal' = train'
    <3>1. ASSUME NEW w \in workers, NEW ok \in BOOLEAN, NEW valid \in SUBSET Goals,
                 Ends(w, ok, valid)
          PROVE  Known(train') = Known(train) /\ journal' = train'
      BY <3>1, EndBuilds
    <3>2. ASSUME NEW now \in 0..MaxClock, Starts(now)
          PROVE  Known(train') = Known(train) /\ journal' = train'
      BY <3>2, StartBuilds DEF Starts, Commit
    <3> QED
      BY <1>6, <3>1, <3>2
  <2>2. Up /\ UNCHANGED <<at, archive, told>>
    BY <1>6 DEF Ends, Starts, Up, clients
  <2>3. MembersKept
    BY <2>1, <2>2 DEF MembersKept
  <2> QED
    BY <1>2, <2>3
<1>7. CASE Lost /\ UNCHANGED <<disk, clients>>
  BY <1>1, <1>7 DEF Lost, LedgerOK, Up, disk, clients
<1>8. ASSUME NEW valid, Restarts(valid)
      PROVE  /\ LedgerOK'
             /\ \A a \in Attempts : Promise!Follows(told'[a], told[a])
  <2> DEFINE u == Reconcile(journal, valid)
  <2>1. Known(u) = Known(journal)
    BY ReconcileEffect DEF IInv, Good
  <2>2. train' = u /\ journal' = u /\ UNCHANGED <<archive, told>>
    BY <1>8 DEF Restarts, Commit, clients
  <2> HIDE DEF u
  <2> QED
    BY <1>1, <2>1, <2>2 DEF LedgerOK
<1> QED
  BY <1>2, <1>3, <1>4, <1>5, <1>6, <1>7, <1>8, StepKinds

-----------------------------------------------------------------------------
(* What is pinned.                                                         *)

\* The unreleased archive of a holds the goals G.
Archived(a, G) ==
    /\ archive[a] # None
    /\ ~archive[a].released
    /\ G \subseteq archive[a].graph

\* Nothing is pinned that train t does not retain for a request it knows, or
\* the archive for one that it does not.
OwnedIn(t) ==
    \A a \in Attempts :
      IF a \in Known(t)
      THEN roots[a] \subseteq RetainedGraph(t, a)
      ELSE roots[a] # {} \/ a \in pinned => Archived(a, roots[a])

\* What the train in memory retains, the journal retains too, or the archive of
\* a request whose retirement failed after the journal had lost it.
Covered ==
    \A a \in Known(train) :
      IF a \in Known(journal)
      THEN RetainedGraph(train, a) \subseteq RetainedGraph(journal, a)
      ELSE Archived(a, RetainedGraph(train, a))

\* A retirement between two writes: the archive holds what the train retains
\* until the request has left both trains, and then its roots go.
JobHeld ==
    job # None =>
      /\ job.step = "archived" =>
           Archived(job.attempt, RetainedGraph(train, job.attempt))
      /\ job.step \in {"journalled", "released"} =>
           job.attempt \notin Known(train) \cup Known(journal)
      /\ job.step = "released" =>
           roots[job.attempt] = {} /\ job.attempt \notin pinned

RootsInv ==
    /\ OwnedIn(journal)
    /\ Up => OwnedIn(train) /\ Covered
    /\ JobHeld
    /\ RootsHeld

\* u retains for a request that stays what t did, and no more if it was prepared.
EvidenceKept(t, u) ==
    \A a \in Known(t) \cap Known(u) :
      /\ RetainedGraph(t, a) \subseteq RetainedGraph(u, a)
      /\ t.requests[a].prepared => RetainedGraph(u, a) = RetainedGraph(t, a)

\* u counts no request as prepared that t did not.
PreparedKept(t, u) ==
    \A a \in Known(u) :
      u.requests[a].prepared => a \in Known(t) /\ t.requests[a].prepared

\* Evidence is kept as long as no goal that is retained goes or changes.
LEMMA EvidenceStays ==
    ASSUME NEW t, Good(t), NEW u, u \in Train,
           \A a \in Known(t) \cap Known(u) :
             /\ u.requests[a].request = t.requests[a].request
             /\ RetainedGraph(t, a) \subseteq KnownGoals(u),
           \A g \in KnownGoals(t) \cap KnownGoals(u) :
             u.nodes[g].definition.dependencies = t.nodes[g].definition.dependencies
    PROVE  EvidenceKept(t, u)
<1> SUFFICES ASSUME NEW a \in Known(t) \cap Known(u)
             PROVE  /\ RetainedGraph(t, a) \subseteq RetainedGraph(u, a)
                    /\ t.requests[a].prepared =>
                         RetainedGraph(u, a) = RetainedGraph(t, a)
  BY DEF EvidenceKept
<1>1. t \in Train /\ EvidenceClosedIn(t)
  BY DEF Good, Sound
<1>2. RootsOf(u, a) = RootsOf(t, a)
  BY DEF RootsOf
<1>3. /\ RetainedGraph(t, a) \subseteq KnownGoals(t)
      /\ RetainedGraph(t, a) \subseteq KnownGoals(u)
  BY DEF RetainedGraph
<1>4. RetainedGraph(t, a) \subseteq RetainedGraph(u, a)
  BY <1>1, <1>2, <1>3, RetainedKept
<1>5. ASSUME t.requests[a].prepared
      PROVE  RetainedGraph(u, a) \subseteq RetainedGraph(t, a)
  <2>1. RootsOf(t, a) \subseteq KnownGoals(t)
    BY <1>1, <1>5 DEF EvidenceClosedIn
  <2> QED
    BY <1>1, <1>2, <1>3, <2>1, RetainedNoMore
<1> QED
  BY <1>4, <1>5

\* A change that leaves the requests' plans alone keeps all evidence.
LEMMA SamePlansEvidence ==
    ASSUME NEW t, Good(t), NEW u, u \in Train,
           \A a \in Known(t) \cap Known(u) :
             u.requests[a].request = t.requests[a].request,
           KnownGoals(t) \subseteq KnownGoals(u),
           \A g \in KnownGoals(t) :
             u.nodes[g].definition.dependencies = t.nodes[g].definition.dependencies
    PROVE  EvidenceKept(t, u)
<1>1. \A a : RetainedGraph(t, a) \subseteq KnownGoals(u)
  BY DEF RetainedGraph
<1> QED
  BY <1>1, EvidenceStays

\* register
LEMMA RegisterEvidence ==
    ASSUME NEW t, Good(t), NEW r \in Request, NEW admitted \in BOOLEAN,
           CanRegister(t, r), r.attempt \notin Known(t)
    PROVE  /\ EvidenceKept(t, Register(t, r, admitted))
           /\ PreparedKept(t, Register(t, r, admitted))
<1> DEFINE u == Register(t, r, admitted)
<1>1. /\ u \in Train
      /\ Known(u) = Known(t) \cup {r.attempt}
      /\ u.nodes = t.nodes
      /\ \A a \in Known(t) : u.requests[a] = t.requests[a]
  BY RegisterType, RegisteredRecord DEF Good
<1>2. ~u.requests[r.attempt].prepared
  BY DEF Register, Train, Request, Good
<1> HIDE DEF u
<1>3. KnownGoals(u) = KnownGoals(t)
  BY <1>1 DEF KnownGoals
<1>4. EvidenceKept(t, u)
  BY <1>1, <1>3, SamePlansEvidence
<1>5. PreparedKept(t, u)
  BY <1>1, <1>2 DEF PreparedKept
<1> QED
  BY <1>4, <1>5 DEF u

\* preparation_failed, cancel and admit
LEMMA CommandEvidence ==
    ASSUME NEW t, Good(t), NEW a \in Known(t),
           NEW u \in {PreparationFailed(t, a), Cancel(t, a), Hold(t, a), Admit(t, a)}
    PROVE  EvidenceKept(t, u) /\ PreparedKept(t, u)
<1>1. /\ u \in Train
      /\ u.nodes = t.nodes
      /\ Known(u) = Known(t)
      /\ \A b \in Known(t) : /\ u.requests[b].request = t.requests[b].request
                             /\ u.requests[b].prepared = t.requests[b].prepared
  BY CommandEffect DEF Good
<1>2. KnownGoals(u) = KnownGoals(t)
  BY <1>1 DEF KnownGoals
<1> QED
  BY <1>1, <1>2, SamePlansEvidence DEF PreparedKept

\* fence and release_fence
LEMMA FenceEvidence ==
    ASSUME NEW t, Good(t), NEW u \in Train, u.nodes = t.nodes, u.requests = t.requests
    PROVE  EvidenceKept(t, u) /\ PreparedKept(t, u)
<1>1. KnownGoals(u) = KnownGoals(t) /\ Known(u) = Known(t)
  BY DEF KnownGoals, Known
<1> QED
  BY <1>1, SamePlansEvidence DEF PreparedKept

\* retry
LEMMA RetryEvidence ==
    ASSUME NEW t, Good(t), NEW a \in Known(t)
    PROVE  EvidenceKept(t, Retry(t, a)) /\ PreparedKept(t, Retry(t, a))
<1> DEFINE u == Retry(t, a)
<1>1. /\ u \in Train
      /\ Known(u) = Known(t)
      /\ \A b \in Known(t) : /\ u.requests[b].request = t.requests[b].request
                             /\ u.requests[b].prepared = t.requests[b].prepared
      /\ KnownGoals(u) = KnownGoals(t)
      /\ \A g \in KnownGoals(t) : u.nodes[g].definition = t.nodes[g].definition
  BY RetryEffect DEF Good
<1> HIDE DEF u
<1>2. EvidenceKept(t, u) /\ PreparedKept(t, u)
  BY <1>1, SamePlansEvidence DEF PreparedKept
<1> QED
  BY <1>2 DEF u

\* retire
LEMMA RetireEvidence ==
    ASSUME NEW t, Good(t), NEW a \in Known(t), CanRetire(t, a)
    PROVE  EvidenceKept(t, Retire(t, a)) /\ PreparedKept(t, Retire(t, a))
<1> DEFINE u == Retire(t, a)
<1>1. /\ u \in Train
      /\ Known(u) = Known(t) \ {a}
      /\ \A b \in Known(t) \ {a} : u.requests[b] = t.requests[b]
      /\ KnownGoals(u) = UNION {RetainedGraph(t, b) : b \in Known(t) \ {a}}
      /\ \A g \in KnownGoals(u) : u.nodes[g] = t.nodes[g]
  BY RetireType, RetireEffect DEF Known, Good
<1> HIDE DEF u
<1>2. \A b \in Known(t) \cap Known(u) : RetainedGraph(t, b) \subseteq KnownGoals(u)
  BY <1>1
<1>3. EvidenceKept(t, u)
  BY <1>1, <1>2, EvidenceStays
<1>4. PreparedKept(t, u)
  BY <1>1 DEF PreparedKept
<1> QED
  BY <1>3, <1>4 DEF u

\* The `prepared` flag.
LEMMA FlagEvidence ==
    ASSUME NEW t, Good(t), NEW a \in Known(t), NEW flag \in BOOLEAN
    PROVE  EvidenceKept(t, Flagged(t, a, flag))
<1> DEFINE u == Flagged(t, a, flag)
<1>1. /\ u \in Train
      /\ u.nodes = t.nodes
      /\ \A b \in Known(t) : u.requests[b].request = t.requests[b].request
  BY FlagEffect DEF Good
<1> HIDE DEF u
<1>2. KnownGoals(u) = KnownGoals(t)
  BY <1>1 DEF KnownGoals
<1>3. EvidenceKept(t, u)
  BY <1>1, <1>2, SamePlansEvidence
<1> QED
  BY <1>3 DEF u

\* submit with the plan of a known request, which stays unprepared
LEMMA PlanEvidence ==
    ASSUME NEW t, Good(t), NEW a \in Known(t),
           NEW graph \in Graphs, NEW now \in 0..MaxClock,
           CanSubmit(t, t.requests[a].request, graph)
    PROVE  LET u == Flagged(Submit(t, t.requests[a].request, graph, now), a, FALSE)
           IN  EvidenceKept(t, u) /\ PreparedKept(t, u)
<1> DEFINE r == t.requests[a].request
           joined == Submit(t, r, graph, now)
           no == FALSE
           u == Flagged(joined, a, no)
<1> USE DEF Good
<1>1. r \in Request /\ r.attempt = a
  BY KnownType DEF RequestRecord
<1>2. /\ DOMAIN graph \subseteq Goals
      /\ \A g \in DOMAIN graph : graph[g] \in Definition
      /\ CanSubmit(t, r, graph)
  BY InputsAssumption
<1> HIDE DEF r
<1>3. joined \in Train
  BY <1>1, <1>2, SubmitType
<1>4. /\ Known(joined) = Known(t) \cup {r.attempt}
      /\ \A b \in Known(t) : joined.requests[b].request = t.requests[b].request
      /\ \A b \in Known(t) \ {r.attempt} : joined.requests[b] = t.requests[b]
      /\ KnownGoals(joined) = KnownGoals(t) \cup DOMAIN graph
      /\ \A g \in KnownGoals(t) :
           joined.nodes[g].definition.dependencies = t.nodes[g].definition.dependencies
  BY <1>1, <1>2, SubmitEffect
<1> HIDE DEF joined
<1>5. Known(joined) = Known(t) /\ a \in Known(joined) /\ no \in BOOLEAN
  BY <1>1, <1>4
<1> HIDE DEF no
<1>6. /\ u \in Train
      /\ u.nodes = joined.nodes
      /\ Known(u) = Known(joined)
      /\ \A b \in Known(joined) :
           /\ u.requests[b].request = joined.requests[b].request
           /\ u.requests[b].prepared =
                IF b = a THEN no ELSE joined.requests[b].prepared
  <2>1. joined \in Train /\ a \in Known(joined) /\ no \in BOOLEAN
    BY <1>3, <1>5
  <2> QED
    BY <2>1, FlagEffect
<1> HIDE DEF u
<1>7. KnownGoals(u) = KnownGoals(joined)
  BY <1>6 DEF KnownGoals
<1>8. EvidenceKept(t, u)
  <2>1. /\ KnownGoals(t) \subseteq KnownGoals(u)
        /\ \A g \in KnownGoals(t) :
             u.nodes[g].definition.dependencies = t.nodes[g].definition.dependencies
    BY <1>4, <1>6, <1>7
  <2>2. \A b \in Known(t) \cap Known(u) : u.requests[b].request = t.requests[b].request
    BY <1>4, <1>5, <1>6
  <2> HIDE DEF Good
  <2>3. Good(t) /\ u \in Train
    BY <1>6
  <2> QED
    BY <2>1, <2>2, <2>3, SamePlansEvidence
<1>9. PreparedKept(t, u)
  BY <1>1, <1>4, <1>5, <1>6 DEF PreparedKept, no
<1> QED
  BY <1>8, <1>9 DEF r, joined, no, u

\* The train in memory may become u without letting go of what is pinned.
Passes(u) ==
    /\ EvidenceKept(train, u)
    /\ \A a \in Known(u) \ Known(train) : archive[a] = None
    /\ \A a \in Known(train) \ Known(u) : Archived(a, RetainedGraph(train, a))

\* Outputs are pinned, for requests in memory and by their evidence.
RootsGrow ==
    /\ \A a \in Attempts :
         /\ roots[a] \subseteq roots'[a]
         /\ \/ roots'[a] = roots[a]
            \/ a \in Known(train) /\ roots'[a] \subseteq roots[a] \cup RetainedGraph(train, a)
    /\ pinned \subseteq pinned'
    /\ pinned' \subseteq pinned \cup Known(train)

\* A step of the running service that lets nothing go.
Retains ==
    /\ Up
    /\ UNCHANGED archive
    /\ RootsGrow
    /\ \/ train' = train /\ (journal' = journal \/ Passes(journal'))
       \/ Passes(train') /\ journal' = train'

\* No request counts as prepared that did not before.
PreparesNone ==
    /\ train' = train \/ PreparedKept(train, train')
    /\ journal' = journal \/ PreparedKept(train, journal')

\* The train may stay as it is.
LEMMA PassesSelf == Passes(train) /\ PreparedKept(train, train)
BY DEF Passes, EvidenceKept, PreparedKept

\* Such a step keeps what is pinned owned.
LEMMA RetainsOwned ==
    ASSUME RootsInv, Retains
    PROVE  OwnedIn(train)' /\ OwnedIn(journal)' /\ Covered'
<1> DEFINE OwnedAfter(u) ==
             \A a \in Attempts :
               IF a \in Known(u)
               THEN roots'[a] \subseteq RetainedGraph(u, a)
               ELSE roots'[a] # {} \/ a \in pinned' => Archived(a, roots'[a])
<1> USE DEF Retains, RootsInv
<1>1. /\ RootsGrow
      /\ OwnedIn(train) /\ OwnedIn(journal) /\ Covered
      /\ \A a, G : Archived(a, G)' <=> Archived(a, G)
  BY DEF Archived
<1>2. ASSUME NEW u, Passes(u)
      PROVE  OwnedAfter(u)
  <2> SUFFICES ASSUME NEW a \in Attempts
               PROVE  IF a \in Known(u)
                      THEN roots'[a] \subseteq RetainedGraph(u, a)
                      ELSE roots'[a] # {} \/ a \in pinned' => Archived(a, roots'[a])
    OBVIOUS
  <2>1. CASE a \in Known(train) /\ a \in Known(u)
    BY <1>1, <1>2, <2>1 DEF RootsGrow, OwnedIn, Passes, EvidenceKept
  <2>2. CASE a \in Known(train) /\ a \notin Known(u)
    <3>1. roots'[a] \subseteq RetainedGraph(train, a)
      BY <1>1, <2>2 DEF RootsGrow, OwnedIn
    <3>2. Archived(a, RetainedGraph(train, a))
      BY <1>2, <2>2 DEF Passes
    <3> QED
      BY <2>2, <3>1, <3>2 DEF Archived
  <2>3. CASE a \notin Known(train) /\ a \in Known(u)
    BY <1>1, <1>2, <2>3 DEF RootsGrow, OwnedIn, Passes, Archived
  <2>4. CASE a \notin Known(train) /\ a \notin Known(u)
    BY <1>1, <2>4 DEF RootsGrow, OwnedIn
  <2> QED
    BY <2>1, <2>2, <2>3, <2>4
<1>3. OwnedAfter(journal)
  <2> SUFFICES ASSUME NEW a \in Attempts
               PROVE  IF a \in Known(journal)
                      THEN roots'[a] \subseteq RetainedGraph(journal, a)
                      ELSE roots'[a] # {} \/ a \in pinned' => Archived(a, roots'[a])
    OBVIOUS
  <2>1. CASE a \in Known(train)
    <3>1. roots'[a] \subseteq RetainedGraph(train, a)
      BY <1>1, <2>1 DEF RootsGrow, OwnedIn
    <3> QED
      BY <1>1, <2>1, <3>1 DEF Covered, Archived
  <2>2. CASE a \notin Known(train)
    BY <1>1, <2>2 DEF RootsGrow, OwnedIn
  <2> QED
    BY <2>1, <2>2
<1>4. OwnedAfter(train') /\ OwnedAfter(journal')
  BY <1>2, <1>3, PassesSelf
<1>5. OwnedIn(train)' /\ OwnedIn(journal)'
  BY <1>1, <1>4 DEF OwnedIn, Archived
<1>6. Covered'
  <2>1. CASE train' = train /\ journal' = journal
    BY <1>1, <2>1 DEF Covered, Archived
  <2>2. CASE train' = train /\ Passes(journal')
    BY <2>2 DEF Covered, Passes, EvidenceKept, Archived
  <2>3. CASE journal' = train'
    BY <2>3 DEF Covered
  <2> QED
    BY <2>1, <2>2, <2>3
<1> QED
  BY <1>5, <1>6

\* And what it promised pinned.
LEMMA RetainsHeld ==
    ASSUME RootsInv, Retains, PreparesNone
    PROVE  RootsHeld'
<1> DEFINE HeldAfter(u) ==
             \A a \in Known(u) :
               u.requests[a].prepared =>
                 RetainedGraph(u, a) \subseteq roots'[a] /\ a \in pinned'
<1> USE DEF Retains, RootsInv
<1>1. /\ \A a \in Attempts : roots[a] \subseteq roots'[a]
      /\ pinned \subseteq pinned'
      /\ RootsHeldIn(train) /\ RootsHeldIn(journal)
  BY DEF RootsGrow, RootsHeld
<1>2. ASSUME NEW u, Passes(u), PreparedKept(train, u)
      PROVE  HeldAfter(u)
  BY <1>1, <1>2 DEF Passes, EvidenceKept, PreparedKept, RootsHeldIn, Known
<1>3. HeldAfter(train) /\ HeldAfter(journal)
  BY <1>1 DEF RootsHeldIn, Known
<1>4. HeldAfter(train') /\ HeldAfter(journal')
  <2>1. CASE train' = train /\ journal' = journal
    BY <1>3, <2>1
  <2>2. CASE train' = train /\ Passes(journal')
    BY <1>2, <1>3, <2>2 DEF PreparesNone
  <2>3. CASE Passes(train') /\ journal' = train'
    BY <1>2, <1>3, <2>3, PassesSelf DEF PreparesNone
  <2> QED
    BY <2>1, <2>2, <2>3
<1> QED
  BY <1>4 DEF RootsHeld, RootsHeldIn

\* A train that knows the same requests by the same evidence.
LEMMA SameMembersPass ==
    ASSUME NEW u, Known(u) = Known(train), EvidenceKept(train, u)
    PROVE  Passes(u)
BY DEF Passes

\* A save lets nothing go.
LEMMA SaveRetains ==
    ASSUME Up, NEW u, Passes(u), RootsGrow, UNCHANGED archive,
           Commit(u) \/ CommitFails(u)
    PROVE  /\ Retains
           /\ PreparedKept(train, u) => PreparesNone
BY DEF Retains, PreparesNone, Commit, CommitFails

\* Nor does a step that writes no train.
LEMMA StillRetains ==
    ASSUME Up, RootsGrow, UNCHANGED <<train, journal, archive>>
    PROVE  Retains /\ PreparesNone
BY DEF Retains, PreparesNone

\* Roots that stay, or are those that the train retains for one request.
LEMMA SameRootsGrow ==
    ASSUME UNCHANGED <<roots, pinned>>
    PROVE  RootsGrow
BY DEF RootsGrow

LEMMA OneRootsGrow ==
    ASSUME IInv, NEW a \in Known(train), NEW some \in SUBSET RetainedGraph(train, a),
           roots' = [roots EXCEPT ![a] = @ \cup some],
           pinned' \in {pinned, pinned \cup {a}}
    PROVE  RootsGrow
BY DEF RootsGrow, IInv, TypeOK

\* Planners.
LEMMA PlannerRetains ==
    ASSUME IInv, NEW a \in Attempts,
           \/ DropReceipt(a) \/ FailedReceipt(a) \/ DeadlineAct(a)
           \/ \E graph \in Graphs, now \in 0..MaxClock : PlanReceipt(a, graph, now)
           \/ \E g \in Goals : RetainStep(a, g)
           \/ StartPlanner(a)
    PROVE  Retains /\ PreparesNone
<1> USE DEF IInv
<1>1. Live \subseteq Known(train)
  BY DEF ThreadsKnown
<1>2. CASE DropReceipt(a) \/ StartPlanner(a)
  BY <1>2, StillRetains, SameRootsGrow DEF DropReceipt, StartPlanner, disk, Up
<1>3. CASE FailedReceipt(a) \/ DeadlineAct(a)
  <2> DEFINE u == PreparationFailed(train, a)
  <2>1. a \in Known(train) /\ Up
    BY <1>1, <1>3 DEF FailedReceipt, DeadlineAct, Heard, Up
  <2>2. Known(u) = Known(train) /\ EvidenceKept(train, u) /\ PreparedKept(train, u)
    BY <2>1, CommandKeeps, CommandEvidence
  <2>3. Commit(u) /\ UNCHANGED <<archive, roots, pinned>>
    BY <1>3 DEF FailedReceipt, DeadlineAct
  <2> HIDE DEF u
  <2> QED
    BY <2>1, <2>2, <2>3, SameMembersPass, SameRootsGrow, SaveRetains
<1>4. ASSUME NEW graph \in Graphs, NEW now \in 0..MaxClock,
             PlanReceipt(a, graph, now)
      PROVE  Retains /\ PreparesNone
  <2> DEFINE u == Flagged(Submit(train, train.requests[a].request, graph, now), a, FALSE)
  <2>1. /\ a \in Known(train) /\ Up
        /\ CanSubmit(train, train.requests[a].request, graph)
    BY <1>1, <1>4 DEF PlanReceipt, Heard, Up
  <2>2. Known(u) = Known(train)
    BY <2>1, PlanKeeps
  <2>3. EvidenceKept(train, u) /\ PreparedKept(train, u)
    BY <2>1, PlanEvidence
  <2>4. Commit(u) /\ UNCHANGED <<archive, roots, pinned>>
    BY <1>4 DEF PlanReceipt, Flagged
  <2> HIDE DEF u
  <2> QED
    BY <2>1, <2>2, <2>3, <2>4, SameMembersPass, SameRootsGrow, SaveRetains
<1>5. ASSUME NEW g \in Goals, RetainStep(a, g)
      PROVE  Retains /\ PreparesNone
  <2>1. a \in Known(train) /\ Up
    BY <1>1, <1>5, AbsenceAssumption
       DEF RetainStep, Live, DownClean, NoPlanners, Up
  <2>2. {g} \in SUBSET RetainedGraph(train, a)
    BY <1>5 DEF RetainStep
  <2>3. RootsGrow
    BY <1>5, <2>1, <2>2, OneRootsGrow DEF RetainStep
  <2> QED
    BY <1>5, <2>1, <2>3, StillRetains DEF RetainStep, memory
<1> QED
  BY <1>2, <1>3, <1>4, <1>5

\* Intake: a new request is in no archive.
LEMMA IntakeRetains ==
    ASSUME IInv,
           \/ \E kind \in Commands, r \in Requests :
                IntakeAct(kind, r) \/ RepeatAct(kind, r)
           \/ \E a \in Attempts : IntakeRetained(a) \/ IntakeUnretained(a)
    PROVE  Retains /\ PreparesNone
<1> USE DEF IInv
<1>1. ASSUME NEW kind \in Commands, NEW r \in Requests, IntakeAct(kind, r)
      PROVE  Retains /\ PreparesNone
  <2> DEFINE u == Register(train, r, kind = "Submit")
  <2>1. /\ r \in Request
        /\ CanRegister(train, r)
        /\ r.attempt \notin Known(train)
        /\ archive[r.attempt] = None
        /\ Up
    BY <1>1, InputsAssumption DEF IntakeAct, CanIntake, Receives, Up
  <2>2. (kind = "Submit") \in BOOLEAN
    OBVIOUS
  <2>3. /\ Known(u) = Known(train) \cup {r.attempt}
        /\ EvidenceKept(train, u) /\ PreparedKept(train, u)
    BY <2>1, <2>2, RegisterKeeps, RegisterEvidence
  <2>4. Commit(u) \/ CommitFails(u)
    BY <1>1 DEF IntakeAct
  <2>5. UNCHANGED <<archive, roots, pinned>>
    BY <1>1 DEF IntakeAct
  <2> HIDE DEF u
  <2>6. Passes(u)
    BY <2>1, <2>3 DEF Passes
  <2> QED
    BY <2>1, <2>3, <2>4, <2>5, <2>6, SameRootsGrow, SaveRetains
<1>2. ASSUME NEW kind \in Commands, NEW r \in Requests, RepeatAct(kind, r)
      PROVE  Retains /\ PreparesNone
  <2>1. Commit(train) \/ CommitFails(train)
    BY <1>2 DEF RepeatAct
  <2>2. Up /\ UNCHANGED <<archive, roots, pinned>>
    BY <1>2 DEF RepeatAct, Receives, Up
  <2> QED
    BY <2>1, <2>2, PassesSelf, SameRootsGrow, SaveRetains
<1>3. ASSUME NEW a \in Attempts, IntakeRetained(a) \/ IntakeUnretained(a)
      PROVE  a \in Known(train) /\ Up
  BY <1>3, AbsenceAssumption
     DEF IntakeRetained, IntakeUnretained, JobSound, Job, Up
<1>4. ASSUME NEW a \in Attempts, IntakeRetained(a)
      PROVE  Retains /\ PreparesNone
  <2>1. a \in Known(train) /\ Up
    BY <1>3, <1>4
  <2>2. RootsGrow
    BY <1>4, <2>1 DEF IntakeRetained, RootsGrow
  <2> QED
    BY <1>4, <2>1, <2>2, StillRetains DEF IntakeRetained
<1>5. ASSUME NEW a \in Attempts, IntakeUnretained(a)
      PROVE  Retains /\ PreparesNone
  <2> DEFINE u == PreparationFailed(train, a)
  <2>1. a \in Known(train) /\ Up
    BY <1>3, <1>5
  <2>2. Known(u) = Known(train) /\ EvidenceKept(train, u) /\ PreparedKept(train, u)
    BY <2>1, CommandKeeps, CommandEvidence
  <2>3. Commit(u) \/ CommitFails(u)
    BY <1>5 DEF IntakeUnretained
  <2>4. UNCHANGED archive
    BY <1>5 DEF IntakeUnretained
  <2>5. RootsGrow
    BY <1>5, <2>1 DEF IntakeUnretained, RootsGrow
  <2> HIDE DEF u
  <2> QED
    BY <2>1, <2>2, <2>3, <2>4, <2>5, SameMembersPass, SaveRetains
<1> QED
  BY <1>1, <1>2, <1>4, <1>5

\* The other commands: what a retry pins is what the train retains, and a
\* request leaves when the archive holds its evidence.
LEMMA CommandRetains ==
    ASSUME IInv, RootsInv,
           \/ \E a \in Attempts :
                \/ AdmitAct(a) \/ CancelAct(a) \/ RetryAct(a) \/ RetryUnretained(a)
                \/ RetireAgainAct(a) \/ RetireJournalled(a)
           \/ FenceCommand
    PROVE  Retains /\ PreparesNone
<1> USE DEF IInv
<1>1. ASSUME NEW a \in Attempts, AdmitAct(a) \/ CancelAct(a)
      PROVE  Retains /\ PreparesNone
  <2>1. a \in Known(train)
    BY <1>1 DEF AdmitAct, CanAdmit, CancelAct
  <2>2. \A u \in {Admit(train, a), Cancel(train, a)} :
          /\ Known(u) = Known(train)
          /\ EvidenceKept(train, u) /\ PreparedKept(train, u)
    BY <2>1, CommandKeeps, CommandEvidence
  <2>3. \E u \in {Admit(train, a), Cancel(train, a)} : Commit(u) \/ CommitFails(u)
    BY <1>1 DEF AdmitAct, CancelAct, Saves
  <2>4. Up /\ UNCHANGED <<archive, roots, pinned>>
    BY <1>1 DEF AdmitAct, CancelAct, Receives, Saves, Up
  <2> QED
    BY <2>2, <2>3, <2>4, SameMembersPass, SameRootsGrow, SaveRetains
<1>2. ASSUME NEW a \in Attempts, RetryAct(a)
      PROVE  Retains /\ PreparesNone
  <2> DEFINE u == Retry(train, a)
             G == RetainedGraph(train, a)
  <2>1. a \in Known(train) /\ Up
    BY <1>2 DEF RetryAct, CanRetry, Receives, Up
  <2>2. Known(u) = Known(train) /\ EvidenceKept(train, u) /\ PreparedKept(train, u)
    BY <2>1, RetryKeeps, RetryEvidence
  <2>3. (Commit(u) \/ CommitFails(u)) /\ UNCHANGED archive
    BY <1>2 DEF RetryAct, Saves
  <2>4. roots' = [roots EXCEPT ![a] = @ \cup G] /\ pinned' = pinned \cup {a}
    BY <1>2 DEF RetryAct
  <2>5. G \in SUBSET RetainedGraph(train, a)
    OBVIOUS
  <2> HIDE DEF u, G
  <2>6. RootsGrow
    BY <2>1, <2>4, <2>5, OneRootsGrow
  <2> QED
    BY <2>1, <2>2, <2>3, <2>6, SameMembersPass, SaveRetains
<1>3. ASSUME NEW a \in Attempts, RetryUnretained(a)
      PROVE  Retains /\ PreparesNone
  <2>1. a \in Known(train) /\ Up
    BY <1>3 DEF RetryUnretained, CanRetry, Receives, Up
  <2>2. RootsGrow
    BY <1>3, <2>1, OneRootsGrow DEF RetryUnretained
  <2> QED
    BY <1>3, <2>1, <2>2, StillRetains DEF RetryUnretained, memory
<1>4. ASSUME NEW a \in Attempts, RetireAgainAct(a)
      PROVE  Retains /\ PreparesNone
  BY <1>4, StillRetains, SameRootsGrow DEF RetireAgainAct, Receives, Up, disk
<1>5. ASSUME NEW a \in Attempts, RetireJournalled(a)
      PROVE  Retains /\ PreparesNone
  <2> DEFINE u == Retire(train, a)
  <2>1. /\ CanRetire(train, a)
        /\ a \in Known(train)
        /\ Archived(a, RetainedGraph(train, a))
        /\ Up
    BY <1>5, AbsenceAssumption
       DEF RetireJournalled, JobSound, JobHeld, RootsInv, Job, CanRetire, Up
  <2>2. /\ Known(u) = Known(train) \ {a}
        /\ EvidenceKept(train, u) /\ PreparedKept(train, u)
    BY <2>1, RetireKeeps, RetireEvidence
  <2>3. Commit(u) \/ CommitFails(u)
    BY <1>5 DEF RetireJournalled
  <2>4. UNCHANGED <<archive, roots, pinned>>
    BY <1>5 DEF RetireJournalled
  <2> HIDE DEF u
  <2>5. Passes(u)
    BY <2>1, <2>2 DEF Passes
  <2> QED
    BY <2>1, <2>2, <2>3, <2>4, <2>5, SameRootsGrow, SaveRetains
<1>6. ASSUME NEW a \in Attempts, FenceAct(a)
      PROVE  Retains /\ PreparesNone
  <2> DEFINE u == SetFence(train, a)
  <2>1. u \in Train
    BY <1>6, FenceType DEF FenceAct, Good
  <2>2. u.nodes = train.nodes /\ u.requests = train.requests
    BY DEF SetFence, Good, Train
  <2>3. Known(u) = Known(train) /\ EvidenceKept(train, u) /\ PreparedKept(train, u)
    BY <2>1, <2>2, FenceEvidence DEF Known
  <2>4. Commit(u) \/ CommitFails(u)
    BY <1>6 DEF FenceAct
  <2>5. Up /\ UNCHANGED <<archive, roots, pinned>>
    BY <1>6 DEF FenceAct, Receives, Up
  <2> HIDE DEF u
  <2> QED
    BY <2>3, <2>4, <2>5, SameMembersPass, SameRootsGrow, SaveRetains
<1>7. ASSUME NEW token, ReleaseFenceAct(token)
      PROVE  Retains /\ PreparesNone
  <2> DEFINE u == ReleaseFence(train)
  <2>1. u \in Train
    BY FenceType DEF Good
  <2>2. u.nodes = train.nodes /\ u.requests = train.requests
    BY DEF ReleaseFence, Good, Train
  <2>3. Known(u) = Known(train) /\ EvidenceKept(train, u) /\ PreparedKept(train, u)
    BY <2>1, <2>2, FenceEvidence DEF Known
  <2>4. Commit(u) \/ CommitFails(u)
    BY <1>7 DEF ReleaseFenceAct, Saves
  <2>5. Up /\ UNCHANGED <<archive, roots, pinned>>
    BY <1>7 DEF ReleaseFenceAct, Receives, Saves, Up
  <2> HIDE DEF u
  <2> QED
    BY <2>3, <2>4, <2>5, SameMembersPass, SameRootsGrow, SaveRetains
<1>8. ASSUME InspectAct
      PROVE  Retains /\ PreparesNone
  BY <1>8, StillRetains, SameRootsGrow DEF InspectAct, Receives, Up, memory, disk
<1> QED
  BY <1>1, <1>2, <1>3, <1>4, <1>5, <1>6, <1>7, <1>8 DEF FenceCommand

\* finish and with_evidence
LEMMA CompletedEvidence ==
    ASSUME NEW t, Good(t), NEW d, NEW ok \in BOOLEAN, Accepts(t, d),
           NEW valid, \A g \in valid : DerivationOf[g] = DerivationOf[d.goal]
    PROVE  LET u == WithEvidence(Finish(t, d, ok), valid)
           IN  EvidenceKept(t, u) /\ PreparedKept(t, u)
<1> DEFINE finished == Finish(t, d, ok)
           u == WithEvidence(finished, valid)
           Done(g) == [finished.nodes[g] EXCEPT !.state = "Complete", !.serial = 0]
<1>1. t \in Train
  BY DEF Good
<1>2. finished \in Train
  BY <1>1, FinishType
<1>3. /\ Known(finished) = Known(t)
      /\ \A a \in Known(t) : /\ finished.requests[a].request = t.requests[a].request
                             /\ finished.requests[a].prepared = t.requests[a].prepared
      /\ KnownGoals(finished) = KnownGoals(t)
      /\ \A g \in KnownGoals(t) :
           finished.nodes[g].definition = t.nodes[g].definition
  BY <1>1, FinishEffect
<1>4. /\ Good(u)
      /\ Known(u) = Known(t)
      /\ KnownGoals(u) = KnownGoals(t)
  BY CompletedEffect
<1> HIDE DEF finished
<1>5. \A g \in KnownGoals(finished) : Done(g).definition = finished.nodes[g].definition
  BY <1>2, KnownGoalType DEF Node
<1>6. /\ u.requests = finished.requests
      /\ \A g \in Goals : u.nodes[g] \in {finished.nodes[g]} \cup
                              (IF g \in KnownGoals(finished) THEN {Done(g)} ELSE {})
  BY <1>2 DEF WithEvidence, Train
<1> HIDE DEF u, Done
<1>7. \A g \in KnownGoals(t) : u.nodes[g].definition = t.nodes[g].definition
  <2>1. KnownGoals(t) \subseteq Goals
    BY DEF KnownGoals
  <2> QED
    BY <1>3, <1>5, <1>6, <2>1
<1>8. \A a \in Known(t) : /\ u.requests[a].request = t.requests[a].request
                          /\ u.requests[a].prepared = t.requests[a].prepared
  BY <1>3, <1>6
<1>9. u \in Train
  BY <1>4 DEF Good
<1>10. EvidenceKept(t, u)
  BY <1>4, <1>7, <1>8, <1>9, SamePlansEvidence
<1>11. PreparedKept(t, u)
  BY <1>4, <1>8 DEF PreparedKept
<1> QED
  BY <1>10, <1>11 DEF u, finished

\* dispatch
LEMMA DispatchEvidence ==
    ASSUME NEW t, Good(t), CanDispatch(t), NEW now, NEW g \in Choices(t, now, Goals)
    PROVE  EvidenceKept(t, Dispatch(t, g)) /\ PreparedKept(t, Dispatch(t, g))
<1> DEFINE u == Dispatch(t, g)
<1>1. t \in Train /\ g \in KnownGoals(t)
  BY ChoiceReady DEF Good
<1>2. u \in Train
  BY DispatchGood DEF Good
<1>3. /\ KnownGoals(u) = KnownGoals(t)
      /\ u.requests = t.requests
      /\ \A h \in Goals \ {g} : u.nodes[h] = t.nodes[h]
      /\ u.nodes[g].definition = t.nodes[g].definition
  BY <1>1, DispatchEffect
<1> HIDE DEF u
<1>4. \A h \in KnownGoals(t) : u.nodes[h].definition = t.nodes[h].definition
  BY <1>3 DEF KnownGoals
<1>5. EvidenceKept(t, u)
  BY <1>2, <1>3, <1>4, SamePlansEvidence
<1>6. PreparedKept(t, u)
  BY <1>3 DEF PreparedKept, Known
<1> QED
  BY <1>5, <1>6 DEF u

\* reconcile
LEMMA ReconcileEvidence ==
    ASSUME NEW t, Good(t), NEW valid
    PROVE  /\ EvidenceKept(t, Reconcile(t, valid))
           /\ PreparedKept(t, Reconcile(t, valid))
           /\ Known(Reconcile(t, valid)) = Known(t)
<1> DEFINE u == Reconcile(t, valid)
<1>1. /\ u \in Train
      /\ Known(u) = Known(t)
      /\ \A b \in Known(t) : /\ u.requests[b].request = t.requests[b].request
                             /\ u.requests[b].prepared = t.requests[b].prepared
      /\ KnownGoals(u) = KnownGoals(t)
      /\ \A g \in KnownGoals(t) : u.nodes[g].definition = t.nodes[g].definition
  BY ReconcileEffect DEF Good
<1> HIDE DEF u
<1>2. EvidenceKept(t, u) /\ PreparedKept(t, u)
  BY <1>1, SamePlansEvidence DEF PreparedKept
<1> QED
  BY <1>1, <1>2 DEF u

\* Builds end and start.
LEMMA BuildRetains ==
    ASSUME IInv,
           \/ \E w \in workers, ok \in BOOLEAN : \E valid \in SUBSET w.siblings :
                CompletedAct(w, ok, valid)
           \/ \E now \in 0..MaxClock : DispatchAct(now)
    PROVE  Retains /\ PreparesNone
<1> USE DEF IInv
<1>1. ASSUME NEW w \in workers, NEW ok \in BOOLEAN, NEW valid \in SUBSET w.siblings,
             CompletedAct(w, ok, valid)
      PROVE  Retains /\ PreparesNone
  <2> DEFINE d == w.receipt
             u == WithEvidence(Finish(train, d, ok), valid)
  <2>1. d.goal \in RunningGoals(train) /\ d = ReceiptOf(train, d.goal)
    BY DEF BuildsJournalled, ReceiptOf
  <2>2. Accepts(train, d)
    BY <2>1 DEF Accepts, ReceiptOf
  <2>3. \A g \in valid : DerivationOf[g] = DerivationOf[d.goal]
    BY DEF WorkersApart
  <2>4. Known(u) = Known(train)
    BY <2>2, <2>3, CompletedEffect
  <2>5. EvidenceKept(train, u) /\ PreparedKept(train, u)
    BY <2>2, <2>3, CompletedEvidence
  <2>6. Commit(u) /\ Up /\ UNCHANGED <<archive, roots, pinned>>
    BY <1>1 DEF CompletedAct, Up
  <2> HIDE DEF u
  <2> QED
    BY <2>4, <2>5, <2>6, SameMembersPass, SameRootsGrow, SaveRetains
<1>2. ASSUME NEW now \in 0..MaxClock, DispatchAct(now)
      PROVE  Retains /\ PreparesNone
  <2>1. PICK g \in Choices(train, now, Goals) : Commit(Dispatch(train, g))
    BY <1>2 DEF DispatchAct
  <2> DEFINE u == Dispatch(train, g)
  <2>2. CanDispatch(train) /\ Up /\ UNCHANGED <<archive, roots, pinned>>
    BY <1>2 DEF DispatchAct, CanStart, Up
  <2>3. Known(u) = Known(train)
    BY <2>2, DispatchGood
  <2>4. EvidenceKept(train, u) /\ PreparedKept(train, u)
    BY <2>2, DispatchEvidence
  <2>5. Commit(u)
    BY <2>1
  <2> HIDE DEF u
  <2> QED
    BY <2>2, <2>3, <2>4, <2>5, SameMembersPass, SameRootsGrow, SaveRetains
<1> QED
  BY <1>1, <1>2

\* The other steps of a turn, and the stop flag.
LEMMA TurnRetains ==
    ASSUME \/ \E a \in Attempts : DetachAct(a)
           \/ FlushAct \/ PlannersStarted \/ WorkersStarted \/ ReceiptsTaken
           \/ DeadlinesPassed \/ CompletionsTaken \/ StopAct
    PROVE  Retains /\ PreparesNone
BY StillRetains, SameRootsGrow
   DEF DetachAct, FlushAct, PlannersStarted, WorkersStarted, ReceiptsTaken,
       DeadlinesPassed, CompletionsTaken, StopAct, disk, Up

\* A request counts as prepared once all that is retained for it is pinned.
LEMMA RetainedHeld ==
    ASSUME IInv, RootsInv, NEW a \in Attempts, RetainReceipt(a)
    PROVE  Retains /\ RootsHeld'
<1> DEFINE yes == TRUE
           u == Flagged(train, a, yes)
<1> USE DEF IInv
<1>1. a \in Known(train) /\ yes \in BOOLEAN /\ train \in Train /\ Up
  BY DEF RetainReceipt, Heard, ThreadsKnown, Good, Up
<1>2. /\ RetainedGraph(train, a) \subseteq roots[a]
      /\ Commit(u)
      /\ pinned' = pinned \cup {a}
      /\ UNCHANGED <<archive, roots>>
  BY DEF RetainReceipt, Flagged
<1> HIDE DEF yes
<1>3. /\ Known(u) = Known(train)
      /\ u.nodes = train.nodes
      /\ \A b \in Known(train) :
           /\ u.requests[b].request = train.requests[b].request
           /\ u.requests[b].prepared = IF b = a THEN yes ELSE train.requests[b].prepared
  BY <1>1, FlagEffect
<1>4. EvidenceKept(train, u)
  BY <1>1, FlagEvidence
<1> HIDE DEF u
<1>5. RootsGrow
  BY <1>1, <1>2 DEF RootsGrow
<1>6. Retains
  BY <1>1, <1>2, <1>3, <1>4, <1>5, SameMembersPass, SaveRetains
<1>7. \A b \in Known(train) : RetainedGraph(u, b) = RetainedGraph(train, b)
  BY <1>3 DEF RetainedGraph, KnownGoals, Evidence, RootsOf
<1>8. RootsHeldIn(train)
  BY DEF RootsInv, RootsHeld
<1>9. \A b \in Known(u) :
        u.requests[b].prepared => RetainedGraph(u, b) \subseteq roots[b]
                                  /\ b \in pinned \cup {a}
  BY <1>2, <1>3, <1>7, <1>8 DEF RootsHeldIn
<1>10. train' = u /\ journal' = u
  BY <1>2 DEF Commit
<1>11. RootsHeld'
  BY <1>2, <1>9, <1>10 DEF RootsHeld, RootsHeldIn
<1> QED
  BY <1>6, <1>11

\* Every step keeps a retirement between two writes in order.
LEMMA JobHeldStep ==
    ASSUME IInv, LedgerOK, RootsInv, [Next]_vars
    PROVE  JobHeld'
<1> USE DEF IInv, RootsInv
<1>1. CASE job' = None
  BY <1>1 DEF JobHeld
<1>2. CASE StopAct \/ UNCHANGED vars
  BY <1>2 DEF StopAct, vars, memory, disk, JobHeld, Archived
<1>3. ASSUME NEW a \in Attempts, NEW g \in Goals, RetainStep(a, g)
      PROVE  JobHeld'
  <2>1. a \in Known(train)
    BY <1>3 DEF RetainStep, ThreadsKnown
  <2>2. /\ UNCHANGED <<train, journal, archive, job>>
        /\ \A b \in Attempts \ {a} : roots'[b] = roots[b]
        /\ pinned' = pinned \cup {a}
    BY <1>3 DEF RetainStep, memory, TypeOK
  <2>3. job # None => job \in Job /\ job.attempt \in Attempts
    BY DEF TypeOK, Job
  <2> QED
    BY <2>1, <2>2, <2>3 DEF JobHeld, Archived
<1>4. ASSUME NEW kind \in Commands, NEW r \in Requests, IntakeAct(kind, r)
      PROVE  JobHeld'
  BY <1>4 DEF IntakeAct, Receives, JobHeld
<1>5. ASSUME NEW a \in Attempts, RetireAct(a)
      PROVE  JobHeld'
  <2> DEFINE evidence == [outcome |-> Outcome(train, a),
                          graph |-> RetainedGraph(train, a), released |-> FALSE]
  <2>1. /\ archive'[a] = evidence
        /\ train' = train
        /\ job' = [attempt |-> a, step |-> "archived"] \/ job' = None
    BY <1>5 DEF RetireAct, Receives, TypeOK
  <2>2. evidence # None
    <3>1. Outcome(train, a) \in Verdicts
      BY <1>5 DEF RetireAct, CanRetire, Outcome, Verdicts
    <3>2. evidence \in Archive
      BY <3>1, RetainedGoals DEF Archive
    <3> QED
      BY <3>2, AbsenceAssumption
  <2> QED
    BY <2>1, <2>2 DEF JobHeld, Archived
<1>6. ASSUME NEW a \in Attempts, RetireAgainAct(a)
      PROVE  JobHeld'
  BY <1>6 DEF RetireAgainAct, Receives, LedgerOK, Up, disk, JobHeld
<1>7. ASSUME NEW a \in Attempts, RetireJournalled(a), job' # None
      PROVE  JobHeld'
  <2> DEFINE u == Retire(train, a)
  <2>1. /\ job \in Job
        /\ train' = u /\ journal' = u
        /\ job' = [job EXCEPT !.step = "journalled"]
        /\ job = [attempt |-> a, step |-> "archived"]
    BY <1>7 DEF RetireJournalled, Commit, Job
  <2>2. job'.attempt = a /\ job'.step = "journalled"
    BY <2>1 DEF Job
  <2>3. CanRetire(train, a)
    BY <2>1, AbsenceAssumption DEF JobSound
  <2>4. Known(u) = Known(train) \ {a}
    BY <2>3, RetireKeeps DEF CanRetire
  <2> HIDE DEF u
  <2> QED
    BY <2>1, <2>2, <2>4 DEF JobHeld
<1>8. ASSUME NEW a \in Attempts, RetireReleased(a)
      PROVE  JobHeld'
  <2>1. /\ job \in Job
        /\ job = [attempt |-> a, step |-> "journalled"]
        /\ job' = [job EXCEPT !.step = "released"]
        /\ UNCHANGED <<train, journal>>
        /\ roots'[a] = {} /\ a \notin pinned'
    BY <1>8 DEF RetireReleased, Job, TypeOK
  <2>2. job'.attempt = a /\ job'.step = "released"
    BY <2>1 DEF Job
  <2>3. a \notin Known(train) \cup Known(journal)
    BY <2>1, AbsenceAssumption DEF JobHeld
  <2> QED
    BY <2>1, <2>2, <2>3 DEF JobHeld
<1> QED
  BY <1>1, <1>2, <1>3, <1>4, <1>5, <1>6, <1>7, <1>8, JobKinds

\* A retirement takes no evidence away before the archive holds it, and no root
\* before its request has left.
LEMMA RetireRoots ==
    ASSUME IInv, RootsInv, NEW a \in Attempts,
           \/ RetireAct(a) \/ RetireReleased(a) \/ RetireUnreleased(a)
           \/ RetireSealed(a)
    PROVE  /\ OwnedIn(train)' /\ OwnedIn(journal)' /\ Covered'
           /\ RootsHeld'
<1> USE DEF IInv, RootsInv
<1>1. /\ Up
      /\ UNCHANGED <<train, journal>>
      /\ \A b \in Attempts \ {a} : /\ archive'[b] = archive[b]
                                  /\ roots'[b] = roots[b]
                                  /\ (b \in pinned') = (b \in pinned)
  <2>1. CASE RetireAct(a)
    BY <2>1 DEF RetireAct, Receives, Up, TypeOK
  <2>2. CASE RetireReleased(a) \/ RetireUnreleased(a) \/ RetireSealed(a)
    <3>1. Up
      BY <2>2, AbsenceAssumption
         DEF RetireReleased, RetireUnreleased, RetireSealed, JobSound, Job, Up
    <3> QED
      BY <2>2, <3>1 DEF RetireReleased, RetireUnreleased, RetireSealed, TypeOK
  <2> QED
    BY <2>1, <2>2
<1>2. /\ OwnedIn(train) /\ OwnedIn(journal) /\ Covered
      /\ RootsHeldIn(train) /\ RootsHeldIn(journal)
  BY <1>1 DEF RootsHeld
<1> DEFINE Owns(b, u) == IF b \in Known(u)
                         THEN roots[b] \subseteq RetainedGraph(u, b)
                         ELSE roots[b] # {} \/ b \in pinned => Archived(b, roots[b])
           Covers(b) == IF b \in Known(journal)
                        THEN RetainedGraph(train, b) \subseteq RetainedGraph(journal, b)
                        ELSE Archived(b, RetainedGraph(train, b))
<1>5. ASSUME NEW b \in Attempts \ {a}
      PROVE  /\ Owns(b, train)' /\ Owns(b, journal)'
             /\ b \in Known(train) => Covers(b)'
  <2>1. /\ Owns(b, train) /\ Owns(b, journal)
        /\ b \in Known(train) => Covers(b)
    BY <1>2 DEF OwnedIn, Covered
  <2>6. archive'[b] = archive[b] /\ roots'[b] = roots[b] /\ (b \in pinned' <=> b \in pinned)
    BY <1>1
  <2>2. Archived(b, roots[b])' <=> Archived(b, roots[b])
    BY <2>6 DEF Archived
  <2>3. Archived(b, RetainedGraph(train, b))' <=> Archived(b, RetainedGraph(train, b))
    BY <1>1 DEF Archived
  <2>4. Owns(b, train)' /\ Owns(b, journal)'
    BY <1>1, <2>1, <2>2
  <2>5. b \in Known(train) => Covers(b)'
    BY <1>1, <2>1, <2>3
  <2> QED
    BY <2>4, <2>5
<1>6. ASSUME Owns(a, train)', Owns(a, journal)', a \in Known(train) => Covers(a)'
      PROVE  OwnedIn(train)' /\ OwnedIn(journal)' /\ Covered'
  <2>1. \A b \in Attempts : Owns(b, train)' /\ Owns(b, journal)'
    BY <1>5, <1>6
  <2>2. \A b \in Known(train)' : Covers(b)'
    BY <1>1, <1>5, <1>6 DEF Known
  <2> QED
    BY <2>1, <2>2 DEF OwnedIn, Covered
<1>3. CASE RetireAct(a)
  <2> DEFINE evidence == [outcome |-> Outcome(train, a),
                          graph |-> RetainedGraph(train, a), released |-> FALSE]
  <2>1. archive'[a] = evidence /\ UNCHANGED <<roots, pinned>> /\ a \in Known(train)
    BY <1>3 DEF RetireAct, CanRetire, TypeOK
  <2>2. evidence # None
    <3>1. Outcome(train, a) \in Verdicts
      BY <1>3 DEF RetireAct, CanRetire, Outcome, Verdicts
    <3>2. evidence \in Archive
      BY <3>1, RetainedGoals DEF Archive
    <3> QED
      BY <3>2, AbsenceAssumption
  <2>3. /\ archive'[a] # None
        /\ ~archive'[a].released
        /\ archive'[a].graph = RetainedGraph(train, a)
    BY <2>1, <2>2
  <2>4. roots[a] \subseteq RetainedGraph(train, a)
    BY <1>2, <2>1 DEF OwnedIn
  <2>5. Owns(a, train)' /\ Owns(a, journal)' /\ Covers(a)'
    <3>1. Owns(a, journal) /\ Covers(a)
      BY <1>2, <2>1 DEF OwnedIn, Covered, Known
    <3> QED
      BY <1>1, <2>1, <2>3, <2>4, <3>1 DEF Archived
  <2>6. RootsHeld'
    BY <1>1, <1>2, <2>1 DEF RootsHeld, RootsHeldIn
  <2> QED
    BY <1>6, <2>5, <2>6
<1>4. CASE RetireReleased(a) \/ RetireUnreleased(a) \/ RetireSealed(a)
  <2>1. /\ a \notin Known(train) \cup Known(journal)
        /\ RetireSealed(a) => roots[a] = {} /\ a \notin pinned
    BY <1>4, AbsenceAssumption
       DEF RetireReleased, RetireUnreleased, RetireSealed, JobHeld, Job
  <2>2. \/ UNCHANGED archive /\ roots'[a] \subseteq roots[a] /\ (a \in pinned' => a \in pinned)
        \/ roots'[a] = {} /\ a \notin pinned'
    BY <1>4, <2>1 DEF RetireReleased, RetireUnreleased, RetireSealed, TypeOK
  <2>3. Owns(a, train)' /\ Owns(a, journal)'
    <3>1. Owns(a, train)
      BY <1>2 DEF OwnedIn
    <3> QED
      BY <1>1, <2>1, <2>2, <3>1 DEF Archived
  <2>4. RootsHeld'
    BY <1>1, <1>2, <2>1 DEF RootsHeld, RootsHeldIn, Known
  <2> QED
    BY <1>6, <2>1, <2>3, <2>4
<1> QED
  BY <1>3, <1>4

\* A start pins what the journal retains, whether it comes up or not, and a
\* stop lets nothing go.
LEMMA RestartRoots ==
    ASSUME IInv, RootsInv,
           \/ Lost /\ UNCHANGED <<disk, clients>>
           \/ \E valid \in SUBSET KnownGoals(journal) : RestartAct(valid)
           \/ \E a \in Attempts : RestartRefused(a)
    PROVE  /\ OwnedIn(journal)'
           /\ Up' => OwnedIn(train)' /\ Covered'
           /\ RootsHeld'
<1> USE DEF IInv, RootsInv
<1>1. OwnedIn(journal) /\ RootsHeldIn(journal)
  BY DEF RootsHeld
<1>2. CASE Lost /\ UNCHANGED <<disk, clients>>
  BY <1>1, <1>2, NewTrainGood
     DEF Lost, disk, Up, OwnedIn, Archived, RootsHeld, RootsHeldIn
<1>3. ASSUME NEW a \in Attempts, RestartRefused(a)
      PROVE  /\ OwnedIn(journal)'
             /\ Up' => OwnedIn(train)' /\ Covered'
             /\ RootsHeld'
  <2>1. PICK some \in SUBSET RetainedGraph(journal, a) :
          roots' = [roots EXCEPT ![a] = @ \cup some]
    BY <1>3 DEF RestartRefused
  <2>2. /\ a \in Known(journal)
        /\ pinned' = pinned \cup {a}
        /\ UNCHANGED <<at, train, journal, archive>>
        /\ ~Up /\ train = NewTrain
    BY <1>3 DEF RestartRefused, memory, Up, DownClean
  <2>3. \A b \in Attempts : roots'[b] = IF b = a THEN roots[a] \cup some ELSE roots[b]
    BY <2>1 DEF TypeOK
  <2>4. OwnedIn(journal)'
    BY <1>1, <2>2, <2>3 DEF OwnedIn, Archived
  <2>5. RootsHeldIn(journal)'
    BY <1>1, <2>2, <2>3 DEF RootsHeldIn, Known
  <2>6. RootsHeldIn(train)'
    BY <2>2, NewTrainGood DEF RootsHeldIn
  <2> QED
    BY <2>2, <2>4, <2>5, <2>6 DEF RootsHeld, Up
<1>4. ASSUME NEW valid, RestartAct(valid)
      PROVE  /\ OwnedIn(journal)'
             /\ Up' => OwnedIn(train)' /\ Covered'
             /\ RootsHeld'
  <2> DEFINE u == Reconcile(journal, valid)
  <2>1. /\ EvidenceKept(journal, u) /\ PreparedKept(journal, u)
        /\ Known(u) = Known(journal)
    BY ReconcileEvidence
  <2>2. /\ train' = u /\ journal' = u
        /\ UNCHANGED archive
        /\ pinned' = pinned \cup Known(journal)
        /\ \A b \in Attempts :
             roots'[b] = IF b \in Known(journal)
                         THEN roots[b] \cup RetainedGraph(journal, b) ELSE roots[b]
    BY <1>4 DEF RestartAct, Commit, RetainedIn
  <2> HIDE DEF u
  <2>3. OwnedIn(journal)'
    BY <1>1, <2>1, <2>2 DEF OwnedIn, Archived, EvidenceKept
  <2>4. RootsHeldIn(journal)'
    BY <1>1, <2>1, <2>2 DEF RootsHeldIn, EvidenceKept, PreparedKept, Known
  <2> QED
    BY <2>2, <2>3, <2>4 DEF RootsHeld, OwnedIn, Covered, RootsHeldIn
<1> QED
  BY <1>2, <1>3, <1>4

\* Every step keeps what is pinned owned, and what is promised pinned.
LEMMA RootsStep ==
    ASSUME IInv, LedgerOK, RootsInv, [Next]_vars
    PROVE  RootsInv'
<1>1. JobHeld'
  BY JobHeldStep
<1>2. CASE Retains /\ PreparesNone
  BY <1>1, <1>2, RetainsOwned, RetainsHeld DEF RootsInv
<1>3. CASE \E a \in Attempts : RetainReceipt(a)
  BY <1>1, <1>3, RetainedHeld, RetainsOwned DEF RootsInv
<1>4. CASE \E a \in Attempts : \/ RetireAct(a) \/ RetireReleased(a)
                              \/ RetireUnreleased(a) \/ RetireSealed(a)
  BY <1>1, <1>4, RetireRoots DEF RootsInv
<1>5. CASE FlushPanic \/ ShutdownAct \/ CrashAct
  <2>1. Lost /\ UNCHANGED <<disk, clients>>
    BY <1>5 DEF FlushPanic, ShutdownAct, CrashAct
  <2> QED
    BY <1>1, <2>1, RestartRoots DEF RootsInv
<1>6. CASE \/ \E valid \in SUBSET KnownGoals(journal) : RestartAct(valid)
           \/ \E a \in Attempts : RestartRefused(a)
  BY <1>1, <1>6, RestartRoots DEF RootsInv
<1>7. CASE UNCHANGED vars
  BY <1>1, <1>7
     DEF vars, memory, disk, RootsInv, OwnedIn, Covered, Archived, Up, RootsHeld,
         RootsHeldIn
<1> QED
  BY <1>2, <1>3, <1>4, <1>5, <1>6, <1>7, PlannerRetains, IntakeRetains,
     CommandRetains, BuildRetains, TurnRetains
     DEF Next, FenceCommand

-----------------------------------------------------------------------------
(* The queue.                                                              *)

\* A train knows finitely many requests, as each step takes in at most one.
Few == IsFiniteSet(Known(train)) /\ IsFiniteSet(Known(journal))

\* u has no more pending requests than t, but for one in S.
Waits(t, u, S) == Active(u) \subseteq Active(t) \cup S

\* Requests with the same records in the same graph wait alike.
LEMMA SameRecordWaits ==
    ASSUME NEW t \in Train, NEW u \in Train, u.nodes = t.nodes,
           NEW b \in Known(t), u.requests[b] = t.requests[b]
    PROVE  b \in Active(u) => b \in Active(t)
BY SameEvidenceSameOutcome DEF Active

\* A new request waits; the others wait as they did.
LEMMA RegisterWaits ==
    ASSUME NEW t \in Train, NEW r \in Request, NEW admitted \in BOOLEAN,
           CanRegister(t, r)
    PROVE  Waits(t, Register(t, r, admitted), {r.attempt})
<1> DEFINE u == Register(t, r, admitted)
<1>1. /\ u \in Train /\ u.nodes = t.nodes
      /\ Known(u) = Known(t) \cup {r.attempt}
      /\ \A b \in Known(t) : u.requests[b] = t.requests[b]
  BY RegisterType, RegisteredRecord
<1> HIDE DEF u
<1>2. Active(u) \subseteq Known(t) \cup {r.attempt}
  BY <1>1 DEF Active
<1> QED
  BY <1>1, <1>2, SameRecordWaits DEF Waits, u

\* A request that is admitted, cancelled or failed starts no waiting.
LEMMA CommandWaits ==
    ASSUME NEW t \in Train, NEW a \in Known(t),
           NEW u \in {PreparationFailed(t, a), Cancel(t, a), Admit(t, a)}
    PROVE  Waits(t, u, {})
<1>1. u \in Train /\ u.nodes = t.nodes /\ Known(u) = Known(t)
  <2>1. u \in {PreparationFailed(t, a), Cancel(t, a), Hold(t, a), Admit(t, a)}
    OBVIOUS
  <2> QED
    BY <2>1, CommandEffect
<1>2. \A b \in Known(t) \ {a} : u.requests[b] = t.requests[b]
  BY DEF PreparationFailed, Cancel, Admit, Train, Known
<1>3. ASSUME a \in Active(u) PROVE a \in Active(t)
  <2>0. t.requests[a] \in RequestRecord /\ a \in Attempts
    BY KnownType
  <2>1. CASE u = Admit(t, a)
    <3> DEFINE w == [t.requests[a] EXCEPT !.admitted = TRUE]
    <3>1. u.requests[a] = w
      BY <2>0, <2>1 DEF Admit, Train
    <3>2. /\ w.request = t.requests[a].request
          /\ w.cancelled = t.requests[a].cancelled
          /\ w.prepared = t.requests[a].prepared
          /\ w.preparation_error = t.requests[a].preparation_error
      BY <2>0 DEF RequestRecord
    <3> HIDE DEF w
    <3>3. Outcome(u, a) = Outcome(t, a)
      BY <1>1, <3>1, <3>2
         DEF Outcome, RootsOf, Needed, BuildInputs, InState, KnownGoals
    <3> QED
      BY <1>1, <1>3, <3>3 DEF Active
  <2>2. CASE u = Cancel(t, a)
    <3> DEFINE w == [t.requests[a] EXCEPT !.cancelled = TRUE]
    <3>1. u.requests[a] = w /\ w.cancelled
      BY <2>0, <2>2 DEF Cancel, Train, RequestRecord
    <3> QED
      BY <1>3, <3>1 DEF Active, Outcome
  <2>3. CASE u = PreparationFailed(t, a)
    <3> DEFINE w == [t.requests[a] EXCEPT !.preparation_error = TRUE]
    <3>1. u.requests[a] = w /\ w.preparation_error
      BY <2>0, <2>3 DEF PreparationFailed, Train, RequestRecord
    <3> HIDE DEF w
    <3>2. Outcome(u, a) # "Pending"
      BY <3>1 DEF Outcome
    <3> QED
      BY <1>3, <3>2 DEF Active
  <2> QED
    BY <2>1, <2>2, <2>3
<1>4. Active(u) \subseteq Known(t)
  BY <1>1 DEF Active
<1> QED
  BY <1>1, <1>2, <1>3, <1>4, SameRecordWaits DEF Waits

\* A retry starts the waiting of its own request alone.
LEMMA RetryWaits ==
    ASSUME NEW t \in Train, NEW a \in Known(t)
    PROVE  Waits(t, Retry(t, a), {a})
<1>1. Known(Retry(t, a)) = Known(t)
  BY RetryEffect
<1> QED
  BY <1>1, RetryApart DEF Waits, Active

\* A retirement starts none.
LEMMA RetireWaits ==
    ASSUME NEW t \in Train, NEW a \in Known(t)
    PROVE  Waits(t, Retire(t, a), {})
<1>1. Known(Retire(t, a)) = Known(t) \ {a}
  <2>1. Retire(t, a).requests = [t.requests EXCEPT ![a] = None]
    BY DEF Retire, Train
  <2> QED
    BY <2>1 DEF Known, Train
<1> QED
  BY <1>1, RetireApart DEF Waits, Active

\* Neither does a fence.
LEMMA FenceWaits ==
    ASSUME NEW t \in Train
    PROVE  /\ \A a \in Attempts : CanFence(t, a) => Waits(t, SetFence(t, a), {})
           /\ Waits(t, ReleaseFence(t), {})
<1>1. ASSUME NEW u, u.nodes = t.nodes, u.requests = t.requests
      PROVE  Waits(t, u, {})
  BY <1>1 DEF Waits, Active, Known, Outcome, RootsOf, Needed, BuildInputs,
              InState, KnownGoals
<1>2. ASSUME NEW a \in Attempts
      PROVE  SetFence(t, a).nodes = t.nodes /\ SetFence(t, a).requests = t.requests
  BY DEF SetFence, Train
<1>3. ReleaseFence(t).nodes = t.nodes /\ ReleaseFence(t).requests = t.requests
  BY DEF ReleaseFence, Train
<1> QED
  BY <1>1, <1>2, <1>3

\* While the commands are taken, a request joins those that wait only if there
\* is room, and only one does.
LEMMA QueueStep ==
    ASSUME IInv, [Next]_vars, at = "commands"
    PROVE  \/ Waits(train, train', {})
           \/ /\ Cardinality(Active(train)) < QueueLimit
              /\ \E a \in Attempts : Waits(train, train', {a})
<1> USE DEF IInv
<1>0. train \in Train /\ Waits(train, train, {})
  BY DEF TypeOK, Waits
<1>1. CASE UNCHANGED train
  BY <1>0, <1>1 DEF Waits
<1>2. ASSUME NEW kind \in Commands, NEW r \in Requests, IntakeAct(kind, r)
      PROVE  \/ Waits(train, train', {})
             \/ /\ Cardinality(Active(train)) < QueueLimit
                /\ \E a \in Attempts : Waits(train, train', {a})
  <2>1. r \in Request /\ CanRegister(train, r) /\ (kind = "Submit") \in BOOLEAN
    BY <1>2, InputsAssumption DEF IntakeAct, CanIntake
  <2>2. Waits(train, Register(train, r, kind = "Submit"), {r.attempt})
    BY <1>0, <2>1, RegisterWaits
  <2>3. train' \in {train, Register(train, r, kind = "Submit")}
    BY <1>2 DEF IntakeAct, Commit, CommitFails
  <2>4. Cardinality(Active(train)) < QueueLimit /\ r.attempt \in Attempts
    BY <1>2, <2>1 DEF IntakeAct, CanIntake, Request
  <2> QED
    BY <1>0, <2>2, <2>3, <2>4
<1>3. ASSUME NEW a \in Attempts, AdmitAct(a) \/ CancelAct(a) \/ IntakeUnretained(a)
      PROVE  Waits(train, train', {})
  <2>1. a \in Known(train)
    BY <1>3, AbsenceAssumption
       DEF AdmitAct, CanAdmit, CancelAct, IntakeUnretained, JobSound, Job
  <2>2. train' \in {train, PreparationFailed(train, a), Cancel(train, a), Admit(train, a)}
    BY <1>3 DEF AdmitAct, CancelAct, IntakeUnretained, Saves, Commit, CommitFails
  <2> QED
    BY <1>0, <2>1, <2>2, CommandWaits
<1>4. ASSUME NEW a \in Attempts, RetryAct(a)
      PROVE  \/ Waits(train, train', {})
             \/ /\ Cardinality(Active(train)) < QueueLimit
                /\ \E b \in Attempts : Waits(train, train', {b})
  <2>1. a \in Known(train) /\ train' \in {train, Retry(train, a)}
    BY <1>4 DEF RetryAct, CanRetry, Saves, Commit, CommitFails
  <2>2. Waits(train, Retry(train, a), {a})
    BY <1>0, <2>1, RetryWaits
  <2>3. a \in Active(train) \/ Cardinality(Active(train)) < QueueLimit
    BY <1>4 DEF RetryAct, CanRetry
  <2> QED
    BY <1>0, <2>1, <2>2, <2>3 DEF Waits
<1>5. ASSUME NEW a \in Attempts, RetireJournalled(a)
      PROVE  Waits(train, train', {})
  <2>1. a \in Known(train)
    BY <1>5, AbsenceAssumption DEF RetireJournalled, JobSound, Job, CanRetire
  <2>2. train' \in {train, Retire(train, a)}
    BY <1>5 DEF RetireJournalled, Commit, CommitFails
  <2> QED
    BY <1>0, <2>1, <2>2, RetireWaits
<1>6. ASSUME \/ \E a \in Attempts : FenceAct(a)
             \/ \E token \in Attempts \X (0..MaxSequence) : ReleaseFenceAct(token)
      PROVE  Waits(train, train', {})
  BY <1>0, <1>6, FenceWaits
     DEF FenceAct, ReleaseFenceAct, Saves, Commit, CommitFails
<1>7. CASE Lost
  <2>1. Active(NewTrain) = {}
    BY NewTrainGood DEF Active
  <2> QED
    BY <1>7, <2>1 DEF Lost, Waits
<1>8. CASE \/ \E kind \in Commands, r \in Requests : RepeatAct(kind, r)
           \/ \E a \in Attempts :
                \/ \E g \in Goals : RetainStep(a, g)
                \/ IntakeRetained(a) \/ RetryUnretained(a) \/ RetireAct(a)
                \/ RetireAgainAct(a) \/ RetireReleased(a) \/ RetireUnreleased(a)
                \/ RetireSealed(a)
           \/ InspectAct \/ FlushAct \/ StopAct
           \/ UNCHANGED vars
  <2>1. UNCHANGED train
    BY <1>8
       DEF RepeatAct, RetainStep, IntakeRetained, RetryUnretained, RetireAct,
           RetireAgainAct, RetireReleased, RetireUnreleased, RetireSealed, InspectAct,
           FlushAct, StopAct, Commit, CommitFails, memory, vars
  <2> QED
    BY <1>1, <2>1
<1>9. CASE \/ \E a \in Attempts :
                \/ DropReceipt(a) \/ RetainReceipt(a) \/ FailedReceipt(a)
                \/ DeadlineAct(a) \/ DetachAct(a) \/ StartPlanner(a)
                \/ RestartRefused(a)
                \/ \E graph \in Graphs, now \in 0..MaxClock : PlanReceipt(a, graph, now)
           \/ \E w \in workers, ok \in BOOLEAN : \E valid \in SUBSET w.siblings :
                CompletedAct(w, ok, valid)
           \/ \E now \in 0..MaxClock : DispatchAct(now)
           \/ PlannersStarted \/ WorkersStarted \/ ReceiptsTaken \/ DeadlinesPassed
           \/ CompletionsTaken \/ ShutdownAct
           \/ \E valid \in SUBSET KnownGoals(journal) : RestartAct(valid)
  BY <1>9
     DEF DropReceipt, RetainReceipt, FailedReceipt, Heard, DeadlineAct, DetachAct,
         StartPlanner, RestartRefused, PlanReceipt, CompletedAct, DispatchAct,
         PlannersStarted, WorkersStarted, ReceiptsTaken, DeadlinesPassed,
         CompletionsTaken, ShutdownAct, RestartAct
<1>10. CASE FlushPanic \/ CrashAct
  BY <1>7, <1>10 DEF FlushPanic, CrashAct
<1> QED
  BY <1>2, <1>3, <1>4, <1>5, <1>6, <1>8, <1>9, <1>10 DEF Next

\* The trains stay finite.
LEMMA FewStep ==
    ASSUME IInv, Few, [Next]_vars
    PROVE  Few'
<1>1. CASE MembersKept
  BY <1>1 DEF MembersKept, Few
<1>2. CASE RetireCommand
  <2>1. ASSUME NEW a \in Attempts, RetireJournalled(a) PROVE Few'
    <3>1. CanRetire(train, a)
      BY <2>1, AbsenceAssumption DEF RetireJournalled, JobSound, Job, IInv
    <3>2. Known(Retire(train, a)) = Known(train) \ {a}
      BY <3>1, RetireKeeps DEF IInv, CanRetire
    <3>3. IsFiniteSet(Known(train) \ {a})
      BY FS_RemoveElement DEF Few
    <3> QED
      BY <2>1, <3>2, <3>3 DEF RetireJournalled, Commit, CommitFails, Few
  <2>2. ASSUME NEW a \in Attempts, RetireAct(a) \/ RetireSealed(a) PROVE Few'
    BY <2>2 DEF RetireAct, RetireSealed, Few
  <2> QED
    BY <1>2, <2>1, <2>2 DEF RetireCommand
<1>3. CASE FlushAct
  BY <1>3 DEF FlushAct, disk, Few
<1>4. ASSUME NEW kind \in Commands, NEW r \in Requests, IntakeAct(kind, r)
      PROVE  Few'
  <2>1. r \in Request /\ CanRegister(train, r) /\ (kind = "Submit") \in BOOLEAN
    BY <1>4, InputsAssumption DEF IntakeAct, CanIntake
  <2>2. Known(Register(train, r, kind = "Submit")) = Known(train) \cup {r.attempt}
    BY <2>1, RegisterKeeps DEF IInv
  <2>3. IsFiniteSet(Known(train) \cup {r.attempt})
    BY FS_AddElement DEF Few
  <2> QED
    BY <1>4, <2>2, <2>3 DEF IntakeAct, Commit, CommitFails, Few
<1>5. CASE \E w \in workers, ok \in BOOLEAN, valid \in SUBSET Goals : Ends(w, ok, valid)
  BY <1>5, EndBuilds DEF Few
<1>6. CASE \E now \in 0..MaxClock : Starts(now)
  BY <1>6, StartBuilds DEF Starts, Commit, Few
<1>7. CASE Lost /\ UNCHANGED <<disk, clients>>
  BY <1>7, NewTrainGood, FS_EmptySet DEF Lost, disk, Few
<1>8. ASSUME NEW valid, Restarts(valid) PROVE Few'
  <2>1. Known(Reconcile(journal, valid)) = Known(journal)
    BY ReconcileEffect DEF IInv, Good
  <2> QED
    BY <1>8, <2>1 DEF Restarts, Commit, Few
<1> QED
  BY <1>1, <1>2, <1>3, <1>4, <1>5, <1>6, <1>7, <1>8, StepKinds

-----------------------------------------------------------------------------
(* The theorems.                                                           *)

\* The service starts, and stays, in states that satisfy the inductive
\* invariant.
THEOREM ServiceInvariant == Spec => []IInv
<1>1. Init => IInv
  <2> SUFFICES ASSUME Init PROVE IInv
    OBVIOUS
  <2>1. /\ train = NewTrain /\ journal = NewTrain
        /\ at = "down" /\ workers = {} /\ job = None /\ handover = None
        /\ planners = NoPlanners /\ waiters = NoWaiters
    BY DEF Init
  <2>2. TypeOK
    <3>1. /\ NoPlanners \in [Attempts -> Planner \cup {None}]
          /\ NoWaiters \in [Attempts -> 0..WaiterLimit]
      BY LimitsAssumption DEF NoPlanners, NoWaiters
    <3> QED
      BY <2>1, <3>1, NewTrainType DEF Init, TypeOK, Phases
  <2>3. Good(train) /\ Good(journal) /\ BuildsJournalled /\ WorkersApart
    BY <2>1, NewTrainGood DEF BuildsJournalled, WorkersApart
  <2>4. Live = {}
    BY <2>1 DEF Live, NoPlanners
  <2>5. ThreadsKnown /\ Rooted /\ DownClean /\ JobSound /\ HandoverQuiet
    BY <2>1, <2>4 DEF ThreadsKnown, Rooted, DownClean, JobSound, HandoverQuiet
  <2> QED
    BY <2>2, <2>3, <2>5 DEF IInv
<1>2. IInv /\ [Next]_vars => IInv'
  <2> SUFFICES ASSUME IInv, [Next]_vars PROVE IInv'
    OBVIOUS
  <2>1. TypeOK'
    BY TypeStep
  <2>2. BuildsSound'
    BY BuildsStep
  <2>3. ThreadsKnown' /\ Rooted'
    BY ThreadsStep
  <2>4. DownClean' /\ JobSound'
    BY DownStep, JobStep
  <2>5. HandoverQuiet'
    BY HandoverStep
  <2> QED
    BY <2>1, <2>2, <2>3, <2>4, <2>5 DEF IInv, BuildsSound
<1> QED
  BY <1>1, <1>2, PTL DEF Spec

\* Every variable of the service holds a value of its kind, for every set of
\* requests, plans, commands and failures.
THEOREM ServiceTyped == Spec => []TypeOK
BY ServiceInvariant, PTL DEF IInv

\* The train in memory and the journal are consistent at every point where the
\* service may stop: what a restart loads after a crash between any two writes,
\* or after a failed one, is sound (save and reconcile).
THEOREM ServiceTrainsSound == Spec => []TrainsSound
<1>1. IInv => TrainsSound
  BY DEF IInv, Good, TrainsSound
<1> QED
  BY <1>1, ServiceInvariant, PTL

\* "Receipt exists before any worker starts" (dispatch): every build that runs
\* is in the journal under its generation, and the train counts no other.
THEOREM ServiceBuildsJournalled == Spec => []BuildsJournalled
BY ServiceInvariant, PTL DEF IInv

\* The loop indexes the request of a planner's receipt without a check, and
\* finds it: no command removes a request while its thread runs.
THEOREM ServiceThreadsKnown == Spec => []ThreadsKnown
BY ServiceInvariant, PTL DEF IInv

\* A fence that its owner was told of stands until the owner releases it, over
\* crashes and failed commands, and once nothing ran nothing starts.
THEOREM ServiceHandoverQuiet == Spec => []HandoverQuiet
BY ServiceInvariant, PTL DEF IInv

\* What clients were told is kept.
LEMMA ToldKept == Spec => []LedgerOK
<1>1. Init => LedgerOK
  BY DEF Init, LedgerOK, Up, Verdicts
<1>2. IInv /\ LedgerOK /\ [Next]_vars => LedgerOK'
  BY LedgerStep
<1> QED
  BY <1>1, <1>2, ServiceInvariant, PTL DEF Spec

\* What is pinned stays accounted for.
LEMMA RootsInvariant == Spec => []RootsInv
<1>1. Init => RootsInv
  BY NewTrainGood
     DEF Init, RootsInv, OwnedIn, Up, JobHeld, RootsHeld, RootsHeldIn
<1>2. IInv /\ LedgerOK /\ RootsInv /\ [Next]_vars => RootsInv'
  BY RootsStep
<1> QED
  BY <1>1, <1>2, ServiceInvariant, ToldKept, PTL DEF Spec

\* Nothing is pinned that the journal or an unreleased archive does not own: a
\* retirement that is cut short at any write, and by any crash, leaves no root
\* that a later one would not find (retire and release).
THEOREM ServiceRootsOwned == Spec => []RootsOwned
<1>1. RootsInv => RootsOwned
  BY DEF RootsInv, OwnedIn, Archived, RootsOwned
<1> QED
  BY <1>1, RootsInvariant, PTL

\* What a prepared request was promised is pinned, over joins of other plans,
\* retries, retirements of its neighbours, failed writes and restarts (retain).
THEOREM ServiceRootsHeld == Spec => []RootsHeld
BY RootsInvariant, PTL DEF RootsInv

\* No command makes more requests pending than the queue holds: neither a new
\* request nor a retry, whatever the commands before it and failed writes left
\* (submit, retry).
THEOREM ServiceQueueBound == Spec => QueueBound
<1> DEFINE Step == /\ Cardinality(Active(train')) > Cardinality(Active(train))
                   /\ at = "commands"
                   => Cardinality(Active(train')) <= QueueLimit
<1>1. IInv /\ Few /\ [Next]_vars => Step
  <2> SUFFICES ASSUME IInv, Few, [Next]_vars, at = "commands",
                      Cardinality(Active(train')) > Cardinality(Active(train))
               PROVE  Cardinality(Active(train')) <= QueueLimit
    OBVIOUS
  <2> DEFINE waiting == Active(train)
             next == Active(train')
  <2>1. IsFiniteSet(waiting) /\ Cardinality(waiting) \in Nat
    <3>1. waiting \in SUBSET Known(train)
      BY DEF Active
    <3> QED
      BY <3>1, FS_Subset, FS_CardinalityType DEF Few
  <2>2. \/ next \subseteq waiting
        \/ /\ Cardinality(waiting) < QueueLimit
           /\ \E a \in Attempts : next \subseteq waiting \cup {a}
    BY QueueStep DEF Waits
  <2>3. Cardinality(next) > Cardinality(waiting)
    OBVIOUS
  <2> HIDE DEF waiting, next
  <2>4. CASE next \subseteq waiting
    <3>1. Cardinality(next) <= Cardinality(waiting) /\ IsFiniteSet(next)
      BY <2>1, <2>4, FS_Subset
    <3>2. Cardinality(next) \in Nat
      BY <3>1, FS_CardinalityType
    <3> QED
      BY <2>1, <2>3, <3>1, <3>2
  <2>5. ASSUME Cardinality(waiting) < QueueLimit, NEW a, next \subseteq waiting \cup {a}
        PROVE  Cardinality(next) <= QueueLimit
    <3>1. /\ IsFiniteSet(waiting \cup {a})
          /\ Cardinality(waiting \cup {a}) <= Cardinality(waiting) + 1
          /\ Cardinality(waiting \cup {a}) \in Nat
      BY <2>1, FS_AddElement
    <3>2. Cardinality(next) <= Cardinality(waiting \cup {a}) /\ IsFiniteSet(next)
      BY <2>5, <3>1, FS_Subset
    <3>3. Cardinality(next) \in Nat
      BY <3>2, FS_CardinalityType
    <3> QED
      BY <2>1, <2>5, <3>1, <3>2, <3>3, LimitsAssumption
  <2> QED
    BY <2>2, <2>4, <2>5 DEF next
<1>2. Init => Few
  BY NewTrainGood, FS_EmptySet DEF Init, Few
<1>3. IInv /\ Few /\ [Next]_vars => Few'
  BY FewStep
<1> QED
  BY <1>1, <1>2, <1>3, ServiceInvariant, PTL DEF Spec, QueueBound

\* The service implements the ledger: over crashes, failed writes, repeated and
\* refused commands nothing that a client was told about a request is taken
\* back.
THEOREM ServiceImplementsLedger == Spec => LedgerKept
<1>1. Init => Promise!Init
  BY DEF Init, Promise!Init, DurableStanding, NewTrain, Known
<1>2. IInv /\ LedgerOK /\ IInv' /\ LedgerOK' /\ [Next]_vars
        => [Promise!Next]_<<DurableStanding, told>>
  <2> SUFFICES ASSUME IInv, LedgerOK, IInv', LedgerOK', [Next]_vars
               PROVE  Promise!Next
    OBVIOUS
  <2>1. \A a \in Attempts : Promise!Follows(told'[a], told[a])
    BY LedgerStep
  <2>2. told' \in [Attempts -> Promise!Standings]
    BY DEF IInv, TypeOK, Promise!Standings
  <2>3. DurableStanding' \in [Attempts -> Promise!Standings]
    BY DEF DurableStanding, IInv, TypeOK, Archive, Promise!Standings
  <2>4. \A a \in Attempts : Promise!Follows(DurableStanding'[a], told'[a])
    BY <2>2 DEF DurableStanding, LedgerOK, IInv, TypeOK, Archive, Verdicts,
                Promise!Follows, Promise!Standings
  <2> QED
    BY <2>1, <2>2, <2>3, <2>4 DEF Promise!Next
<1> QED
  BY <1>1, <1>2, ServiceInvariant, ToldKept, PTL DEF Spec, LedgerKept, Promise!Spec
=============================================================================
