---------------------------- MODULE TrainProofs ----------------------------
(***************************************************************************)
(* Theorems about the engine: its types, and the invariants and action     *)
(* properties that the runs of MCTrain check on small trains, for every    *)
(* set of requests, goals and plans.                                       *)
(***************************************************************************)
EXTENDS TrainEngine, TrainOpsProofs

\* The receipt of a known goal is a Dispatch value.
LEMMA ReceiptType ==
    ASSUME NEW t \in Train, NEW g \in KnownGoals(t)
    PROVE  ReceiptOf(t, g) \in Dispatched
BY KnownGoalType DEF ReceiptOf, Dispatched, Node

-----------------------------------------------------------------------------
\* Every variable of the engine always holds a value of its kind.
THEOREM Typing == Spec => []TypeOK
<1>1. Init => TypeOK
  BY NewTrainType, BoundsAssumption DEF Init, TypeOK
<1>2. TypeOK /\ [Next]_vars => TypeOK'
  <2> SUFFICES ASSUME TypeOK, [Next]_vars
               PROVE  TypeOK'
    OBVIOUS
  <2> USE DEF TypeOK, Becomes
  <2>1. CASE TickAct
    BY <2>1 DEF TickAct
  <2>2. ASSUME NEW r \in Requests, NEW admitted \in BOOLEAN, RegisterAct(r, admitted)
        PROVE  TypeOK'
    BY <2>2, RegisterType, RequestsAssumption DEF RegisterAct
  <2>3. ASSUME NEW r \in Requests, NEW graph \in Graphs, SubmitAct(r, graph)
        PROVE  TypeOK'
    BY <2>3, SubmitType, RequestsAssumption, GraphsAssumption DEF SubmitAct
  <2>4. ASSUME NEW a \in Attempts,
               \/ PreparationFailedAct(a) \/ CancelAct(a)
               \/ HoldAct(a) \/ AdmitAct(a)
        PROVE  TypeOK'
    BY <2>4, CommandType
       DEF PreparationFailedAct, CancelAct, HoldAct, AdmitAct, CanAdmit
  <2>5. ASSUME NEW a \in Attempts, RetireAct(a)
        PROVE  TypeOK'
    BY <2>5, RetireType DEF RetireAct
  <2>6. ASSUME NEW a \in Attempts, RetryAct(a)
        PROVE  TypeOK'
    BY <2>6, RetryType DEF RetryAct
  <2>7. ASSUME NEW eligible \in Eligible, DispatchAct(eligible)
        PROVE  TypeOK'
    <3>1. PICK g \in Choices(train, clock, eligible) :
             /\ train' = Dispatch(train, g)
             /\ workers' = workers \cup {ReceiptOf(train', g)}
      BY <2>7 DEF DispatchAct
    <3>2. CanDispatch(train) /\ UNCHANGED <<stale, clock>>
      BY <2>7 DEF DispatchAct
    <3>3. g \in KnownGoals(train)
      BY ChoiceReady
    <3>4. train' \in Train
      BY <3>1, <3>2, <3>3, DispatchType
    <3>5. g \in KnownGoals(train')
      BY <3>1, <3>2, <3>3, DispatchEffect
    <3> QED
      BY <3>1, <3>2, <3>4, <3>5, ReceiptType
  <2>8. ASSUME NEW d \in workers, NEW ok \in BOOLEAN, FinishAct(d, ok)
        PROVE  TypeOK'
    BY <2>8, FinishType DEF FinishAct
  <2>9. ASSUME NEW d \in stale, NEW ok \in BOOLEAN, LateFinishAct(d, ok)
        PROVE  TypeOK'
    BY <2>9, FinishType DEF LateFinishAct
  <2>10. ASSUME NEW valid \in SUBSET KnownGoals(train), ReconcileAct(valid)
         PROVE  TypeOK'
    BY <2>10, ReconcileType DEF ReconcileAct
  <2>11. ASSUME NEW a \in Attempts, FenceAct(a)
         PROVE  TypeOK'
    BY <2>11, FenceType DEF FenceAct
  <2>12. ASSUME NEW token \in Attempts \X (0..MaxSequence), ReleaseFenceAct(token)
         PROVE  TypeOK'
    BY <2>12, FenceType DEF ReleaseFenceAct
  <2>13. CASE UNCHANGED vars
    BY <2>13 DEF vars
  <2> QED
    BY <2>1, <2>2, <2>3, <2>4, <2>5, <2>6, <2>7, <2>8, <2>9, <2>10, <2>11,
       <2>12, <2>13 DEF Next
<1> QED
  BY <1>1, <1>2, PTL DEF Spec

-----------------------------------------------------------------------------
(* The inductive invariant.  The parts of Sound need each other: a retired *)
(* request leaves no worker behind only if running goals are owned, owned  *)
(* goals stay known only if the evidence is closed.  WorkersMatch needs    *)
(* fresh serials: a late receipt is refused because its number is neither  *)
(* that of a goal that runs nor of one that will.                          *)

Inv ==
    /\ TypeOK
    /\ Sound(train)
    /\ WorkersMatch
    /\ ReceiptsFresh

\* Receipts stay exact as long as the same goals run under the same nodes.
LEMMA SameWorkers ==
    ASSUME Inv, train' \in Train, UNCHANGED <<workers, stale>>,
           RunningGoals(train') = RunningGoals(train),
           \A g \in RunningGoals(train) : train'.nodes[g] = train.nodes[g],
           train'.dispatch_serial = train.dispatch_serial
    PROVE  WorkersMatch' /\ ReceiptsFresh'
<1>1. \A g \in RunningGoals(train) : ReceiptOf(train', g) = ReceiptOf(train, g)
  BY DEF ReceiptOf
<1>2. WorkersMatch'
  BY <1>1 DEF Inv, WorkersMatch
<1>3. ReceiptsFresh'
  BY DEF Inv, ReceiptsFresh
<1> QED
  BY <1>2, <1>3

\* Running goals have different serials, all handed out already.
LEMMA SerialOfRunning ==
    ASSUME Inv, NEW g \in RunningGoals(train)
    PROVE  /\ ReceiptOf(train, g) \in workers
           /\ ReceiptOf(train, g).goal = g
           /\ ReceiptOf(train, g).serial = train.nodes[g].serial
           /\ train.nodes[g].serial \in 1..train.dispatch_serial
<1>1. ReceiptOf(train, g) \in workers
  BY DEF Inv, WorkersMatch
<1>2. /\ ReceiptOf(train, g).goal = g
      /\ ReceiptOf(train, g).serial = train.nodes[g].serial
  BY DEF ReceiptOf
<1> QED
  BY <1>1, <1>2 DEF Inv, ReceiptsFresh

\* A receipt of the workers is accepted, one from before the restart is not.
LEMMA AcceptedReceipts ==
    ASSUME Inv
    PROVE  /\ \A d \in workers : /\ d.goal \in RunningGoals(train)
                                 /\ d = ReceiptOf(train, d.goal)
                                 /\ Accepts(train, d)
           /\ \A d \in stale : ~Accepts(train, d)
<1>1. ASSUME NEW d \in workers
      PROVE  /\ d.goal \in RunningGoals(train)
             /\ d = ReceiptOf(train, d.goal)
             /\ Accepts(train, d)
  <2>1. PICK g \in RunningGoals(train) : d = ReceiptOf(train, g)
    BY DEF Inv, WorkersMatch
  <2> QED
    BY <2>1 DEF ReceiptOf, Accepts
<1>2. ASSUME NEW d \in stale, Accepts(train, d)
      PROVE  FALSE
  <2>1. d.goal \in RunningGoals(train) /\ train.nodes[d.goal].serial = d.serial
    BY <1>2 DEF Accepts
  <2> QED
    BY <2>1, SerialOfRunning DEF Inv, ReceiptsFresh
<1> QED
  BY <1>1, <1>2

\* What a step that starts and ends no worker does: the running goals keep their
\* nodes and their receipts, and a fence is set only where there is none and
\* lifted only over a drained train.
Quiet ==
    /\ UNCHANGED workers
    /\ RunningGoals(train') = RunningGoals(train)
    /\ \A g \in RunningGoals(train) : train'.nodes[g] = train.nodes[g]
    /\ train'.dispatch_serial = train.dispatch_serial
    /\ train'.fence # train.fence =>
         (train.fence # None => Drained(train) /\ train'.fence = None)

\* Steps that leave every node alone.
LEMMA SameNodesQuiet ==
    ASSUME train'.nodes = train.nodes, UNCHANGED workers,
           train'.dispatch_serial = train.dispatch_serial,
           train'.fence # train.fence =>
             (train.fence # None => Drained(train) /\ train'.fence = None)
    PROVE  Quiet
BY DEF Quiet, RunningGoals, InState, KnownGoals

\* Every action but those of dispatch, finish and reconcile is quiet, and keeps
\* the train sound.
LEMMA QuietActions ==
    ASSUME Inv,
           \/ TickAct
           \/ \E r \in Requests, admitted \in BOOLEAN : RegisterAct(r, admitted)
           \/ \E r \in Requests, graph \in Graphs : SubmitAct(r, graph)
           \/ \E a \in Attempts : \/ PreparationFailedAct(a) \/ CancelAct(a)
                                  \/ HoldAct(a) \/ AdmitAct(a)
           \/ \E a \in Attempts : RetireAct(a) \/ RetryAct(a) \/ FenceAct(a)
           \/ \E token \in Attempts \X (0..MaxSequence) : ReleaseFenceAct(token)
    PROVE  Sound(train)' /\ Quiet /\ UNCHANGED stale
<1> USE DEF Becomes
<1>0. train \in Train /\ Sound(train) /\ clock \in 0..MaxClock
  BY DEF Inv, TypeOK
<1>1. CASE TickAct
  BY <1>0, <1>1, SameNodesQuiet DEF TickAct
<1>2. ASSUME NEW r \in Requests, NEW admitted \in BOOLEAN, RegisterAct(r, admitted)
      PROVE  Sound(train)' /\ Quiet /\ UNCHANGED stale
  <2>1. /\ CanRegister(train, r) /\ r \in Request
        /\ train' = Register(train, r, admitted)
        /\ UNCHANGED <<workers, stale>>
    BY <1>2, RequestsAssumption DEF RegisterAct
  <2>2. Sound(train')
    BY <1>0, <2>1, RegisterSound
  <2>3. /\ train'.nodes = train.nodes
        /\ train'.fence = train.fence
        /\ train'.dispatch_serial = train.dispatch_serial
    BY <1>0, <2>1 DEF Register, Train
  <2> QED
    BY <2>1, <2>2, <2>3, SameNodesQuiet
<1>3. ASSUME NEW r \in Requests, NEW graph \in Graphs, SubmitAct(r, graph)
      PROVE  Sound(train)' /\ Quiet /\ UNCHANGED stale
  <2>1. /\ CanSubmit(train, r, graph) /\ r \in Request
        /\ DOMAIN graph \subseteq Goals
        /\ \A g \in DOMAIN graph : graph[g] \in Definition
        /\ train' = Submit(train, r, graph, clock)
        /\ UNCHANGED <<workers, stale>>
    BY <1>3, RequestsAssumption, GraphsAssumption DEF SubmitAct
  <2>2. Sound(train') /\ RunningGoals(train') = RunningGoals(train)
    BY <1>0, <2>1, SubmitSound
  <2>3. /\ \A g \in KnownGoals(train) : train.nodes[g].state # "Pending" =>
             train'.nodes[g] = train.nodes[g]
        /\ train'.fence = train.fence
        /\ train'.dispatch_serial = train.dispatch_serial
    BY <1>0, <2>1, SubmitEffect
  <2>4. \A g \in RunningGoals(train) : train'.nodes[g] = train.nodes[g]
    BY <2>3 DEF RunningGoals, InState
  <2> QED
    BY <2>1, <2>2, <2>3, <2>4 DEF Quiet
<1>4. ASSUME NEW a \in Attempts,
             \/ PreparationFailedAct(a) \/ CancelAct(a) \/ HoldAct(a) \/ AdmitAct(a)
      PROVE  Sound(train)' /\ Quiet /\ UNCHANGED stale
  <2>1. /\ a \in Known(train)
        /\ train' \in {PreparationFailed(train, a), Cancel(train, a),
                       Hold(train, a), Admit(train, a)}
        /\ UNCHANGED <<workers, stale>>
    BY <1>4 DEF PreparationFailedAct, CancelAct, HoldAct, AdmitAct, CanAdmit
  <2>2. Sound(train')
    BY <1>0, <2>1, CommandSound
  <2>3. /\ train'.nodes = train.nodes
        /\ train'.fence = train.fence
        /\ train'.dispatch_serial = train.dispatch_serial
    BY <1>0, <2>1, CommandEffect
  <2> QED
    BY <2>1, <2>2, <2>3, SameNodesQuiet
<1>5. ASSUME NEW a \in Attempts, RetireAct(a)
      PROVE  Sound(train)' /\ Quiet /\ UNCHANGED stale
  <2>1. /\ CanRetire(train, a) /\ a \in Known(train)
        /\ train' = Retire(train, a)
        /\ UNCHANGED <<workers, stale>>
    BY <1>5 DEF RetireAct, CanRetire
  <2>2. Sound(train')
    BY <1>0, <2>1, RetireSound
  <2>3. /\ \A g \in KnownGoals(train') : train'.nodes[g] = train.nodes[g]
        /\ RunningGoals(train') = RunningGoals(train)
        /\ train'.fence = train.fence
        /\ train'.dispatch_serial = train.dispatch_serial
    BY <1>0, <2>1, RetireEffect
  <2>4. RunningGoals(train) \subseteq KnownGoals(train')
    BY <2>3 DEF RunningGoals, InState
  <2> QED
    BY <2>1, <2>2, <2>3, <2>4 DEF Quiet
<1>6. ASSUME NEW a \in Attempts, RetryAct(a)
      PROVE  Sound(train)' /\ Quiet /\ UNCHANGED stale
  <2>1. /\ a \in Known(train)
        /\ train' = Retry(train, a)
        /\ UNCHANGED <<workers, stale>>
    BY <1>6 DEF RetryAct
  <2>2. Sound(train')
    BY <1>0, <2>1, RetrySound
  <2>3. /\ RunningGoals(train') = RunningGoals(train)
        /\ \A g \in RunningGoals(train) : train'.nodes[g] = train.nodes[g]
        /\ train'.fence = train.fence
        /\ train'.dispatch_serial = train.dispatch_serial
    BY <1>0, <2>1, RetryEffect
  <2> QED
    BY <2>1, <2>2, <2>3 DEF Quiet
<1>7. ASSUME NEW a \in Attempts, FenceAct(a)
      PROVE  Sound(train)' /\ Quiet /\ UNCHANGED stale
  <2>1. /\ CanFence(train, a)
        /\ train' = SetFence(train, a)
        /\ UNCHANGED <<workers, stale>>
    BY <1>7 DEF FenceAct
  <2>2. Sound(train')
    BY <1>0, <2>1, FenceSound
  <2>3. /\ train'.nodes = train.nodes
        /\ train'.dispatch_serial = train.dispatch_serial
        /\ train.fence # None => train'.fence = train.fence
    BY <1>0, <2>1 DEF SetFence, Train
  <2> QED
    BY <2>1, <2>2, <2>3, SameNodesQuiet
<1>8. ASSUME NEW token \in Attempts \X (0..MaxSequence), ReleaseFenceAct(token)
      PROVE  Sound(train)' /\ Quiet /\ UNCHANGED stale
  <2>1. /\ CanReleaseFence(train, token)
        /\ train' = ReleaseFence(train)
        /\ UNCHANGED <<workers, stale>>
    BY <1>8 DEF ReleaseFenceAct
  <2>2. Sound(train')
    BY <1>0, <2>1, FenceSound
  <2>3. /\ train'.nodes = train.nodes
        /\ train'.dispatch_serial = train.dispatch_serial
        /\ train'.fence = None
        /\ Drained(train)
    BY <1>0, <2>1 DEF ReleaseFence, Train, CanReleaseFence
  <2> QED
    BY <2>1, <2>2, <2>3, SameNodesQuiet
<1> QED
  BY <1>1, <1>2, <1>3, <1>4, <1>5, <1>6, <1>7, <1>8

\* dispatch_where: one more goal runs, under a serial never used.
LEMMA DispatchStep ==
    ASSUME Inv, NEW eligible \in Eligible, DispatchAct(eligible)
    PROVE  /\ Sound(train)' /\ WorkersMatch' /\ ReceiptsFresh'
           /\ train.fence = None
           /\ train'.fence = train.fence
<1>1. PICK g \in Choices(train, clock, eligible) :
         /\ train' = Dispatch(train, g)
         /\ workers' = workers \cup {ReceiptOf(train', g)}
  BY DEF DispatchAct
<1>2. /\ CanDispatch(train)
      /\ stale' = stale
      /\ train \in Train
      /\ Sound(train)
  BY DEF DispatchAct, Inv, TypeOK
<1>3. g \in KnownGoals(train) /\ train.nodes[g].state = "Pending"
  BY ChoiceReady
<1>4. Sound(train')
  BY <1>1, <1>2, DispatchSound
<1>5. /\ KnownGoals(train') = KnownGoals(train)
      /\ train'.fence = train.fence
      /\ train'.dispatch_serial = train.dispatch_serial + 1
      /\ \A h \in Goals \ {g} : train'.nodes[h] = train.nodes[h]
      /\ train'.nodes[g].state = "Running"
      /\ train'.nodes[g].serial = train.dispatch_serial + 1
  BY <1>1, <1>2, <1>3, DispatchEffect
<1>6. RunningGoals(train') = RunningGoals(train) \cup {g}
  BY <1>3, <1>5 DEF RunningGoals, InState, KnownGoals
<1>7. g \notin RunningGoals(train)
  BY <1>3 DEF RunningGoals, InState
<1>8. \A h \in RunningGoals(train) : ReceiptOf(train', h) = ReceiptOf(train, h)
  BY <1>5, <1>7 DEF ReceiptOf, RunningGoals, InState, KnownGoals
<1>9. WorkersMatch'
  BY <1>1, <1>6, <1>8 DEF Inv, WorkersMatch
<1>10. ReceiptsFresh'
  <2>1. ReceiptOf(train', g).serial = train.dispatch_serial + 1
    BY <1>5 DEF ReceiptOf
  <2>2. train.dispatch_serial \in Nat
    BY <1>2, BoundsAssumption DEF Train
  <2>3. \A d \in workers \cup stale : d.serial \in 1..train.dispatch_serial
    BY DEF Inv, ReceiptsFresh
  <2>4. \A d \in workers, e \in stale : d.serial # e.serial
    BY DEF Inv, ReceiptsFresh
  <2>5. \A d \in workers' \cup stale' : d.serial \in 1..train'.dispatch_serial
    BY <1>1, <1>2, <1>5, <2>1, <2>2, <2>3
  <2>6. \A d \in workers', e \in stale' : d.serial # e.serial
    BY <1>1, <1>2, <2>1, <2>2, <2>3, <2>4
  <2> QED
    BY <2>5, <2>6 DEF ReceiptsFresh
<1> QED
  BY <1>2, <1>4, <1>5, <1>9, <1>10 DEF CanDispatch

\* finish, with the receipt of a worker or of one from before the restart.
LEMMA FinishStep ==
    ASSUME Inv, NEW d, NEW ok \in BOOLEAN,
           \/ d \in workers /\ FinishAct(d, ok)
           \/ d \in stale /\ LateFinishAct(d, ok)
    PROVE  /\ Sound(train)' /\ WorkersMatch' /\ ReceiptsFresh'
           /\ RunningGoals(train') \subseteq RunningGoals(train)
           /\ train'.fence = train.fence
<1>1. train \in Train /\ Sound(train) /\ train' = Finish(train, d, ok)
  BY DEF Inv, TypeOK, FinishAct, LateFinishAct
<1>2. Sound(train')
  BY <1>1, FinishSound
<1>3. CASE d \in workers /\ FinishAct(d, ok)
  <2>1. /\ workers' = workers \ {d}
        /\ stale' = stale
    BY <1>3 DEF FinishAct
  <2>2. /\ d.goal \in RunningGoals(train)
        /\ d = ReceiptOf(train, d.goal)
        /\ Accepts(train, d)
    BY <1>3, AcceptedReceipts
  <2>3. /\ RunningGoals(train') = RunningGoals(train) \ {d.goal}
        /\ \A g \in RunningGoals(train) \ {d.goal} : train'.nodes[g] = train.nodes[g]
        /\ train'.dispatch_serial = train.dispatch_serial
        /\ train'.fence = train.fence
    BY <1>1, <2>2, FinishEffect
  <2>4. \A g \in RunningGoals(train) \ {d.goal} :
          /\ ReceiptOf(train', g) = ReceiptOf(train, g)
          /\ ReceiptOf(train, g) # d
    BY <2>3 DEF ReceiptOf
  <2>5. WorkersMatch'
    BY <2>1, <2>2, <2>3, <2>4 DEF Inv, WorkersMatch
  <2>6. ReceiptsFresh'
    BY <2>1, <2>3 DEF Inv, ReceiptsFresh
  <2> QED
    BY <1>2, <2>3, <2>5, <2>6
<1>4. CASE d \in stale /\ LateFinishAct(d, ok)
  <2>1. train' = train
    BY <1>1, <1>4, AcceptedReceipts DEF Finish
  <2>2. workers' = workers /\ stale' = stale \ {d}
    BY <1>4 DEF LateFinishAct
  <2> QED
    BY <1>2, <2>1, <2>2 DEF Inv, WorkersMatch, ReceiptsFresh
<1> QED
  BY <1>3, <1>4

\* reconcile: nothing runs, and the receipts that are out are old ones.
LEMMA ReconcileStep ==
    ASSUME Inv, NEW valid, ReconcileAct(valid)
    PROVE  /\ Sound(train)' /\ WorkersMatch' /\ ReceiptsFresh'
           /\ RunningGoals(train') = {}
           /\ train'.fence = train.fence
<1>1. /\ train \in Train /\ Sound(train)
      /\ train' = Reconcile(train, valid)
      /\ stale' = stale \cup workers
      /\ workers' = {}
  BY DEF Inv, TypeOK, ReconcileAct
<1>2. Sound(train')
  BY <1>1, ReconcileSound
<1>3. /\ RunningGoals(train') = {}
      /\ train'.fence = train.fence
      /\ train'.dispatch_serial = train.dispatch_serial
  BY <1>1, ReconcileEffect
<1>4. WorkersMatch'
  BY <1>1, <1>3 DEF WorkersMatch
<1>5. ReceiptsFresh'
  BY <1>1, <1>3 DEF Inv, ReceiptsFresh
<1> QED
  BY <1>2, <1>3, <1>4, <1>5

\* The invariant holds at first, and every step keeps it.
LEMMA Invariance == Spec => []Inv
<1>1. Init => Inv
  <2> SUFFICES ASSUME Init
               PROVE  Inv
    OBVIOUS
  <2>1. TypeOK
    BY NewTrainType, BoundsAssumption DEF Init, TypeOK
  <2>2. Sound(train)
    BY NewTrainSound DEF Init
  <2>3. RunningGoals(train) = {}
    BY DEF Init, NewTrain, RunningGoals, InState, KnownGoals
  <2> QED
    BY <2>1, <2>2, <2>3 DEF Init, Inv, WorkersMatch, ReceiptsFresh
<1>2. Inv /\ TypeOK' /\ [Next]_vars => Inv'
  <2> SUFFICES ASSUME Inv, TypeOK', [Next]_vars
               PROVE  Sound(train)' /\ WorkersMatch' /\ ReceiptsFresh'
    BY DEF Inv
  <2>1. ASSUME Sound(train)', Quiet, UNCHANGED stale
        PROVE  Sound(train)' /\ WorkersMatch' /\ ReceiptsFresh'
    BY <2>1, SameWorkers DEF Quiet, TypeOK
  <2>2. CASE \/ TickAct
             \/ \E r \in Requests, admitted \in BOOLEAN : RegisterAct(r, admitted)
             \/ \E r \in Requests, graph \in Graphs : SubmitAct(r, graph)
             \/ \E a \in Attempts : \/ PreparationFailedAct(a) \/ CancelAct(a)
                                    \/ HoldAct(a) \/ AdmitAct(a)
             \/ \E a \in Attempts : RetireAct(a) \/ RetryAct(a) \/ FenceAct(a)
             \/ \E token \in Attempts \X (0..MaxSequence) : ReleaseFenceAct(token)
    BY <2>1, <2>2, QuietActions
  <2>3. CASE \E eligible \in Eligible : DispatchAct(eligible)
    BY <2>3, DispatchStep
  <2>4. CASE \/ \E d \in workers, ok \in BOOLEAN : FinishAct(d, ok)
             \/ \E d \in stale, ok \in BOOLEAN : LateFinishAct(d, ok)
    BY <2>4, FinishStep
  <2>5. CASE \E valid \in SUBSET KnownGoals(train) : ReconcileAct(valid)
    BY <2>5, ReconcileStep
  <2>6. CASE UNCHANGED vars
    BY <2>6 DEF vars, Inv, WorkersMatch, ReceiptsFresh
  <2> QED
    BY <2>2, <2>3, <2>4, <2>5, <2>6 DEF Next
<1> QED
  BY <1>1, <1>2, Typing, PTL DEF Spec

-----------------------------------------------------------------------------
\* No lookup of a goal misses: prepared roots and known goals' dependencies are
\* known, whatever requests are joined, replanned and retired.
THEOREM EvidenceStaysClosed == Spec => []EvidenceClosed
<1>1. Inv => EvidenceClosed
  BY DEF Inv, Sound, EvidenceClosed
<1> QED
  BY <1>1, Invariance, PTL

\* A worker is always answered for by a request that still exists.
THEOREM RunningStaysOwned == Spec => []RunningOwned
<1>1. Inv => RunningOwned
  BY DEF Inv, Sound, RunningOwned
<1> QED
  BY <1>1, Invariance, PTL

\* Two outputs of one derivation are never built at the same time.
THEOREM NoSiblingWorkers == Spec => []OneWorkerPerDerivation
<1>1. Inv => OneWorkerPerDerivation
  BY DEF Inv, Sound, OneWorkerPerDerivation
<1> QED
  BY <1>1, Invariance, PTL

\* A build has all its inputs as long as it runs.
THEOREM InputsStayPresent == Spec => []InputsPresent
<1>1. Inv => InputsPresent
  BY DEF Inv, Sound, InputsPresent
<1> QED
  BY <1>1, Invariance, PTL

\* The running goals are those the outstanding workers were given, with the
\* definitions they were given.
THEOREM WorkersAlwaysMatch == Spec => []WorkersMatch
<1>1. Inv => WorkersMatch
  BY DEF Inv
<1> QED
  BY <1>1, Invariance, PTL

\* While a fence stands nothing starts and no other owner takes it over, and it
\* is lifted only over a drained train.
THEOREM FenceAlwaysHolds == Spec => FenceHolds
<1> DEFINE Step == train.fence # None =>
                     /\ RunningGoals(train') \subseteq RunningGoals(train)
                     /\ train'.fence # train.fence =>
                          Drained(train) /\ train'.fence = None
<1>1. Inv /\ [Next]_vars => Step
  <2> SUFFICES ASSUME Inv, [Next]_vars, train.fence # None
               PROVE  /\ RunningGoals(train') \subseteq RunningGoals(train)
                      /\ train'.fence # train.fence =>
                           Drained(train) /\ train'.fence = None
    OBVIOUS
  <2>1. CASE \/ TickAct
             \/ \E r \in Requests, admitted \in BOOLEAN : RegisterAct(r, admitted)
             \/ \E r \in Requests, graph \in Graphs : SubmitAct(r, graph)
             \/ \E a \in Attempts : \/ PreparationFailedAct(a) \/ CancelAct(a)
                                    \/ HoldAct(a) \/ AdmitAct(a)
             \/ \E a \in Attempts : RetireAct(a) \/ RetryAct(a) \/ FenceAct(a)
             \/ \E token \in Attempts \X (0..MaxSequence) : ReleaseFenceAct(token)
    BY <2>1, QuietActions DEF Quiet
  <2>2. CASE \E eligible \in Eligible : DispatchAct(eligible)
    BY <2>2, DispatchStep
  <2>3. CASE \/ \E d \in workers, ok \in BOOLEAN : FinishAct(d, ok)
             \/ \E d \in stale, ok \in BOOLEAN : LateFinishAct(d, ok)
    BY <2>3, FinishStep
  <2>4. CASE \E valid \in SUBSET KnownGoals(train) : ReconcileAct(valid)
    BY <2>4, ReconcileStep
  <2>5. CASE UNCHANGED vars
    BY <2>5 DEF vars
  <2> QED
    BY <2>1, <2>2, <2>3, <2>4, <2>5 DEF Next
<1> QED
  BY <1>1, Invariance, PTL DEF Spec, FenceHolds

-----------------------------------------------------------------------------
(* What requests do to each other.                                         *)

\* Requests keep their identity, and only a request that is not known yet
\* becomes the newest of its target.
Keeps(t, u) ==
    /\ \A b \in Known(t) \cap Known(u) : u.requests[b].request = t.requests[b].request
    /\ \A x \in Targets : \/ u.latest_activation[x] = t.latest_activation[x]
                          \/ u.latest_activation[x] \notin Known(t)

\* register keeps what is known; only a new request becomes a newest one.
LEMMA RegisterKeeps ==
    ASSUME NEW t \in Train, NEW r \in Request, NEW admitted \in BOOLEAN, CanRegister(t, r)
    PROVE  /\ Keeps(t, Register(t, r, admitted))
           /\ Known(t) \subseteq Known(Register(t, r, admitted))
<1> DEFINE u == Register(t, r, admitted)
<1>1. /\ Known(t) \subseteq Known(u)
      /\ \A b \in Known(t) : u.requests[b] = t.requests[b]
  BY RegisteredRecord
<1>2. ASSUME NEW x \in Targets
      PROVE  \/ u.latest_activation[x] = t.latest_activation[x]
             \/ u.latest_activation[x] \notin Known(t)
  <2>1. CASE r.attempt \in Known(t)
    BY <2>1 DEF Register
  <2>2. CASE r.attempt \notin Known(t)
    <3>1. u.latest_activation =
            [t.latest_activation EXCEPT ![r.target] = IF r.activates THEN r.attempt ELSE @]
      BY <2>2 DEF Register, Train
    <3> HIDE DEF u
    <3> QED
      BY <2>2, <3>1 DEF Train
  <2> QED
    BY <2>1, <2>2
<1> HIDE DEF u
<1> QED
  BY <1>1, <1>2 DEF Keeps, u

\* submit does too, and touches no record but its own.
LEMMA SubmitKeeps ==
    ASSUME NEW t \in Train, NEW r \in Request, NEW graph, NEW now, CanSubmit(t, r, graph)
    PROVE  /\ Keeps(t, Submit(t, r, graph, now))
           /\ Known(t) \subseteq Known(Submit(t, r, graph, now))
           /\ \A b \in Known(t) \ {r.attempt} :
                Submit(t, r, graph, now).requests[b] = t.requests[b]
           /\ Submit(t, r, graph, now).nodes = JoinedNodes(t, r.roots, graph, now)
<1> DEFINE joined == Register(t, r, TRUE)
           u == Submit(t, r, graph, now)
           record == [joined.requests[r.attempt] EXCEPT
                        !.prepared = TRUE, !.preparation_error = FALSE]
<1>1. CanRegister(t, r)
  BY DEF CanSubmit
<1>2. /\ joined \in Train
      /\ Known(joined) = Known(t) \cup {r.attempt}
      /\ joined.requests[r.attempt] \in RequestRecord
      /\ r.attempt \in Attempts
      /\ \A b \in Known(t) : joined.requests[b] = t.requests[b]
  <2>1. joined \in Train /\ r.attempt \in Known(joined)
    BY <1>1, RegisterType, RegisteredRecord
  <2> HIDE DEF joined
  <2>2. joined.requests[r.attempt] \in RequestRecord /\ r.attempt \in Attempts
    BY <2>1, KnownType
  <2> QED
    BY <1>1, <2>1, <2>2, RegisteredRecord DEF joined
<1>3. /\ u.requests = [joined.requests EXCEPT ![r.attempt] = record]
      /\ u.latest_activation = joined.latest_activation
      /\ u.nodes = JoinedNodes(t, r.roots, graph, now)
  <2> HIDE DEF joined
  <2> QED
    BY <1>2 DEF Submit, Train, joined
<1>4. record \in RequestRecord /\ record.request = joined.requests[r.attempt].request
  BY <1>2 DEF RequestRecord
<1>5. Keeps(t, joined)
  BY <1>1, RegisterKeeps
<1> HIDE DEF joined, u, record
<1>6. /\ \A b \in Known(t) \ {r.attempt} : u.requests[b] = t.requests[b]
      /\ r.attempt \in Known(u) /\ u.requests[r.attempt] = record
      /\ Known(t) \subseteq Known(u)
  BY <1>2, <1>3, <1>4, NoneAssumption DEF Known, Train
<1>7. Keeps(t, u)
  BY <1>2, <1>3, <1>4, <1>5, <1>6 DEF Keeps
<1> QED
  BY <1>3, <1>6, <1>7 DEF u

\* Whatever happens, requests keep their identity; only retire ends one.
LEMMA StepKeeps ==
    ASSUME Inv, [Next]_vars
    PROVE  /\ Keeps(train, train')
           /\ \A b \in Known(train) \ Known(train') : RetireAct(b)
<1> USE DEF Becomes
<1>0. train \in Train
  BY DEF Inv, TypeOK
<1>1. ASSUME UNCHANGED train PROVE Keeps(train, train') /\ Known(train) \subseteq Known(train')
  BY <1>1 DEF Keeps
<1>2. ASSUME train'.requests = train.requests, train'.latest_activation = train.latest_activation
      PROVE  Keeps(train, train') /\ Known(train) \subseteq Known(train')
  BY <1>2 DEF Keeps, Known
<1>3. ASSUME NEW r \in Requests, NEW admitted \in BOOLEAN, RegisterAct(r, admitted)
      PROVE  Keeps(train, train') /\ Known(train) \subseteq Known(train')
  <2>1. r \in Request /\ CanRegister(train, r)
    BY <1>3, RequestsAssumption DEF RegisterAct
  <2> QED
    BY <1>0, <1>3, <2>1, RegisterKeeps DEF RegisterAct
<1>4. ASSUME NEW r \in Requests, NEW graph \in Graphs, SubmitAct(r, graph)
      PROVE  Keeps(train, train') /\ Known(train) \subseteq Known(train')
  <2>1. r \in Request /\ CanSubmit(train, r, graph)
    BY <1>4, RequestsAssumption DEF SubmitAct
  <2> QED
    BY <1>0, <1>4, <2>1, SubmitKeeps DEF SubmitAct
<1>5. ASSUME NEW a \in Attempts,
             \/ PreparationFailedAct(a) \/ CancelAct(a) \/ HoldAct(a) \/ AdmitAct(a)
      PROVE  Keeps(train, train') /\ Known(train) \subseteq Known(train')
  <2>1. /\ a \in Known(train)
        /\ train' \in {PreparationFailed(train, a), Cancel(train, a), Hold(train, a), Admit(train, a)}
    BY <1>5 DEF PreparationFailedAct, CancelAct, HoldAct, AdmitAct, CanAdmit
  <2>2. train'.latest_activation = train.latest_activation
    BY <1>0, <2>1 DEF PreparationFailed, Cancel, Hold, Admit, Train
  <2>3. /\ Known(train') = Known(train)
        /\ \A b \in Known(train) : train'.requests[b].request = train.requests[b].request
    BY <1>0, <2>1, CommandEffect
  <2> QED
    BY <2>2, <2>3 DEF Keeps
<1>6. ASSUME NEW a \in Attempts, RetireAct(a)
      PROVE  Keeps(train, train') /\ \A b \in Known(train) \ Known(train') : RetireAct(b)
  <2>1. a \in Known(train) /\ train' = Retire(train, a)
    BY <1>6 DEF RetireAct, CanRetire
  <2>2. \A b \in Known(train) \ {a} :
           b \in Known(train') /\ train'.requests[b] = train.requests[b]
    BY <1>0, <2>1, RetireApart
  <2>3. /\ train'.latest_activation = train.latest_activation
        /\ train'.requests = [train.requests EXCEPT ![a] = None]
    BY <1>0, <2>1 DEF Retire, Train
  <2>4. a \notin Known(train')
    BY <1>0, <2>1, <2>3 DEF Known, Train
  <2> QED
    BY <1>6, <2>2, <2>3, <2>4 DEF Keeps
<1>7. ASSUME NEW a \in Attempts, RetryAct(a)
      PROVE  Keeps(train, train') /\ Known(train) \subseteq Known(train')
  <2>1. a \in Known(train) /\ train' = Retry(train, a)
    BY <1>7 DEF RetryAct
  <2>2. /\ Known(train') = Known(train)
        /\ \A b \in Known(train) : train'.requests[b].request = train.requests[b].request
    BY <1>0, <2>1, RetryEffect
  <2>3. train'.latest_activation = train.latest_activation
    <3> DEFINE captured == CaptureFailures(train)
    <3>1. captured \in Train /\ captured.latest_activation = train.latest_activation
      BY <1>0, CaptureEffect, CaptureKeeps
    <3> HIDE DEF captured
    <3> QED
      BY <2>1, <3>1 DEF Retry, Train, captured
  <2> QED
    BY <2>2, <2>3 DEF Keeps
<1>8. ASSUME NEW eligible \in Eligible, DispatchAct(eligible)
      PROVE  Keeps(train, train') /\ Known(train) \subseteq Known(train')
  <2>1. PICK g : train' = Dispatch(train, g)
    BY <1>8 DEF DispatchAct
  <2> QED
    BY <1>0, <1>2, <2>1 DEF Dispatch, Train
<1>9. ASSUME NEW d, NEW ok \in BOOLEAN, FinishAct(d, ok) \/ LateFinishAct(d, ok)
      PROVE  Keeps(train, train') /\ Known(train) \subseteq Known(train')
  <2>1. train' = Finish(train, d, ok)
    BY <1>9 DEF FinishAct, LateFinishAct
  <2>2. CASE ~Accepts(train, d)
    BY <1>1, <2>1, <2>2 DEF Finish
  <2>3. CASE Accepts(train, d)
    <3>1. /\ Known(train') = Known(train)
          /\ \A b \in Known(train) : train'.requests[b].request = train.requests[b].request
      BY <1>0, <2>1, <2>3, FinishEffect
    <3>2. train'.latest_activation = train.latest_activation
      <4>1. \A s : Settled(train, d.goal, s).latest_activation = train.latest_activation
        BY <1>0 DEF Settled, Train
      <4>2. d.goal \in KnownGoals(train)
        BY <2>3 DEF Accepts, RunningGoals, InState
      <4>3. Settled(train, d.goal, "Failed") \in Train
        BY <1>0, <4>2, SettledEffect DEF NodeState
      <4> QED
        BY <2>1, <2>3, <4>1, <4>3, CaptureKeeps DEF Finish
    <3> QED
      BY <3>1, <3>2 DEF Keeps
  <2> QED
    BY <2>2, <2>3
<1>10. ASSUME NEW valid, ReconcileAct(valid)
       PROVE  Keeps(train, train') /\ Known(train) \subseteq Known(train')
  <2>1. train' = Reconcile(train, valid)
    BY <1>10 DEF ReconcileAct
  <2>2. /\ Known(train') = Known(train)
        /\ \A b \in Known(train) : train'.requests[b].request = train.requests[b].request
    BY <1>0, <2>1, ReconcileEffect
  <2>3. train'.latest_activation = train.latest_activation
    <3> DEFINE captured == CaptureFailures(train)
    <3>1. captured \in Train /\ captured.latest_activation = train.latest_activation
      BY <1>0, CaptureEffect, CaptureKeeps
    <3> HIDE DEF captured
    <3> QED
      BY <2>1, <3>1 DEF Reconcile, Train, captured
  <2> QED
    BY <2>2, <2>3 DEF Keeps
<1>11. ASSUME \/ TickAct
              \/ \E a \in Attempts : FenceAct(a)
              \/ \E token \in Attempts \X (0..MaxSequence) : ReleaseFenceAct(token)
              \/ UNCHANGED vars
       PROVE  Keeps(train, train') /\ Known(train) \subseteq Known(train')
  <2>1. /\ train'.requests = train.requests
        /\ train'.latest_activation = train.latest_activation
    BY <1>0, <1>11 DEF TickAct, FenceAct, ReleaseFenceAct, SetFence, ReleaseFence, vars, Train
  <2> QED
    BY <1>2, <2>1
<1> QED
  BY <1>3, <1>4, <1>5, <1>6, <1>7, <1>8, <1>9, <1>10, <1>11 DEF Next

\* Retiring a request takes nothing from another: neither its outcome nor
\* its needs (retire, retained_graph).
THEOREM RetiringIsolated == Spec => RetireIsolated
<1> DEFINE Step == \A a \in Known(train) \ Known(train') :
                     \A b \in Known(train') :
                       /\ Outcome(train', b) = Outcome(train, b)
                       /\ NeededBy(train', b) = NeededBy(train, b)
<1>1. Inv /\ [Next]_vars => Step
  <2> SUFFICES ASSUME Inv, [Next]_vars, NEW a \in Known(train) \ Known(train'),
                      NEW b \in Known(train')
               PROVE  /\ Outcome(train', b) = Outcome(train, b)
                      /\ NeededBy(train', b) = NeededBy(train, b)
    OBVIOUS
  <2>1. train \in Train /\ train' = Retire(train, a)
    BY StepKeeps DEF RetireAct, Becomes, Inv, TypeOK
  <2>2. b \in Known(train) \ {a}
    BY <2>1 DEF Retire, Train, Known
  <2> QED
    BY <2>1, <2>2, RetireApart
<1> QED
  BY <1>1, Invariance, PTL DEF Spec, RetireIsolated

\* No step lets an activation back that a newer request of its target has
\* superseded, not even the end of the newer one (authorize_activation).
THEOREM SupersededForGood == Spec => SupersededStays
<1> DEFINE Step == \A a \in Attempts :
                     /\ Stays(a)
                     /\ train.latest_activation[train.requests[a].request.target] # a
                     => ~Authorized(train', a)
<1>1. Inv /\ [Next]_vars => Step
  <2> SUFFICES ASSUME Inv, [Next]_vars, NEW a \in Attempts, Stays(a),
                      train.latest_activation[train.requests[a].request.target] # a
               PROVE  ~Authorized(train', a)
    OBVIOUS
  <2>1. /\ a \in Known(train) /\ a \in Known(train')
        /\ train.requests[a].request.target \in Targets
    <3>1. a \in Known(train) /\ a \in Known(train') /\ train \in Train
      BY DEF Stays, Inv, TypeOK
    <3>2. train.requests[a] \in RequestRecord
      BY <3>1, KnownType
    <3> QED
      BY <3>1, <3>2 DEF RequestRecord, Request
  <2> QED
    BY <2>1, StepKeeps DEF Keeps, Authorized
<1> QED
  BY <1>1, Invariance, PTL DEF Spec, SupersededStays

\* reconcile changes of a request's record only what capture_failures does.
LEMMA ReconcileChanges ==
    ASSUME NEW t \in Train, NEW valid, NEW b \in Known(t)
    PROVE  Reconcile(t, valid).requests[b] = CaptureFailures(t).requests[b]
<1> DEFINE captured == CaptureFailures(t)
<1>1. captured \in Train
  BY CaptureEffect
<1> HIDE DEF captured
<1>2. Reconcile(t, valid).requests = captured.requests
  BY <1>1 DEF Reconcile, Train, captured
<1> QED
  BY <1>2 DEF captured

\* Retrying a request changes no other request's outcome (retry,
\* capture_failures).
THEOREM RetryingIsolated == Spec => RetryIsolated
<1> DEFINE Step == \A b \in Attempts : OutcomeChanges(b) =>
                     \A a \in Attempts \ {b} : ~RetryAct(a)
<1>1. Inv /\ [Next]_vars => Step
  <2> SUFFICES ASSUME Inv, NEW b \in Attempts, OutcomeChanges(b),
                      NEW a \in Attempts \ {b}, RetryAct(a)
               PROVE  FALSE
    OBVIOUS
  <2>1. train \in Train /\ a \in Known(train) /\ train' = Retry(train, a)
    BY DEF RetryAct, Becomes, Inv, TypeOK
  <2>2. b \in Known(train) \ {a}
    BY DEF OutcomeChanges, Stays
  <2> QED
    BY <2>1, <2>2, RetryApart DEF OutcomeChanges
<1> QED
  BY <1>1, Invariance, PTL DEF Spec, RetryIsolated

\* No evidence found at a restart turns a failed request into another
\* (reconcile, capture_failures).
THEOREM FailuresSurvive == Spec => FailureSurvivesEvidence
<1> DEFINE Step == \A b \in Attempts :
                     /\ Stays(b)
                     /\ Outcome(train, b) = "Failed"
                     /\ Outcome(train', b) # "Failed"
                     => \A valid \in SUBSET Goals : ~ReconcileAct(valid)
<1>1. Inv /\ [Next]_vars => Step
  <2> SUFFICES ASSUME Inv, NEW b \in Attempts, Stays(b), Outcome(train, b) = "Failed",
                      NEW valid \in SUBSET Goals, ReconcileAct(valid)
               PROVE  Outcome(train', b) = "Failed"
    OBVIOUS
  <2>1. train \in Train /\ train' = Reconcile(train, valid) /\ b \in Known(train)
    BY DEF ReconcileAct, Stays, Inv, TypeOK
  <2> QED
    BY <2>1, ReconcileChanges, CapturedFails
<1> QED
  BY <1>1, Invariance, PTL DEF Spec, FailureSurvivesEvidence

\* A join leaves a prepared request no more to do: what it needed was known,
\* and a build does not replace a promised restoration.
LEMMA JoinApart ==
    ASSUME NEW t \in Train, EvidenceClosedIn(t), NEW r \in Request, NEW graph \in Graphs,
           NEW now \in 0..MaxClock, CanSubmit(t, r, graph),
           NEW b \in Known(t) \ {r.attempt}, t.requests[b].prepared, ~t.requests[b].cancelled
    PROVE  NeededBy(Submit(t, r, graph, now), b) \subseteq NeededBy(t, b)
<1> DEFINE u == Submit(t, r, graph, now)
           N == NeededBy(t, b)
<1>1. /\ u.requests[b] = t.requests[b]
      /\ u.nodes = JoinedNodes(t, r.roots, graph, now)
  BY SubmitKeeps
<1>2. RootsOf(t, b) \in SUBSET Goals /\ RootsOf(u, b) = RootsOf(t, b)
  BY <1>1, KnownType DEF RootsOf
<1>3. N \in SUBSET Goals /\ RootsOf(t, b) \subseteq N /\ \A g \in N : BuildInputs(t)[g] \subseteq N
  BY <1>2, BuildInputsType, ClosureContains, ClosureClosed DEF NeededBy, Needed, Closure
<1>4. N \subseteq KnownGoals(t)
  <2>1. RootsOf(t, b) \subseteq KnownGoals(t)
    BY DEF EvidenceClosedIn
  <2>2. \A g \in KnownGoals(t) : BuildInputs(t)[g] \subseteq KnownGoals(t)
    BY DEF EvidenceClosedIn, BuildInputs, KnownGoals
  <2>3. KnownGoals(t) \in SUBSET Goals
    BY DEF KnownGoals
  <2> QED
    BY <2>1, <2>2, <2>3, ClosureLeast DEF NeededBy, Needed
<1>5. N \subseteq PreviouslyNeeded(t)
  BY DEF PreviouslyNeeded, NeededBy
<1> HIDE DEF N, u
<1>6. ASSUME NEW g \in N PROVE BuildInputs(u)[g] \subseteq N
  <2>1. g \in Goals /\ t.nodes[g] # None /\ t.nodes[g] \in Node
    BY <1>3, <1>4, KnownGoalType DEF KnownGoals
  <2>2. CASE g \in DOMAIN graph /\ g \in MayReplan(t, r.roots, graph) /\ t.nodes[g].state = "Pending"
    <3>1. graph[g].operation = "Restore"
      BY <2>2, <1>5 DEF MayReplan
    <3>2. u.nodes[g] = [t.nodes[g] EXCEPT !.definition.operation = graph[g].operation]
      BY <1>1, <2>1, <2>2 DEF JoinedNodes
    <3>3. u.nodes[g].definition.operation = "Restore"
      BY <3>1, <3>2, <2>1 DEF Node, Definition
    <3> QED
      BY <2>1, <3>3 DEF BuildInputs
  <2>3. CASE ~(g \in DOMAIN graph /\ g \in MayReplan(t, r.roots, graph) /\ t.nodes[g].state = "Pending")
    <3>1. u.nodes[g] = t.nodes[g]
      BY <1>1, <2>1, <2>3 DEF JoinedNodes
    <3>2. BuildInputs(u)[g] = BuildInputs(t)[g]
      BY <2>1, <3>1 DEF BuildInputs
    <3> QED
      BY <1>3, <3>2
  <2> QED
    BY <2>2, <2>3
<1>7. NeededBy(u, b) \subseteq N
  BY <1>2, <1>3, <1>6, ClosureLeast DEF NeededBy, Needed
<1> QED
  BY <1>7 DEF u, N

\* A join gives no other prepared request more to do (submit).
THEOREM JoiningAddsNothing == Spec => JoinNeverAddsWork
<1> DEFINE Step == \A b \in Attempts :
                     /\ Stays(b)
                     /\ train'.nodes # train.nodes
                     /\ train.requests[b].prepared
                     /\ ~train.requests[b].cancelled
                     /\ ~(NeededBy(train', b) \subseteq NeededBy(train, b))
                     => \A r \in Requests, graph \in Graphs :
                          r.attempt # b => ~SubmitAct(r, graph)
<1>1. Inv /\ [Next]_vars => Step
  <2> SUFFICES ASSUME Inv, NEW b \in Attempts, Stays(b),
                      train.requests[b].prepared, ~train.requests[b].cancelled,
                      NEW r \in Requests, NEW graph \in Graphs,
                      r.attempt # b, SubmitAct(r, graph)
               PROVE  NeededBy(train', b) \subseteq NeededBy(train, b)
    OBVIOUS
  <2>1. /\ train \in Train /\ EvidenceClosedIn(train) /\ clock \in 0..MaxClock
        /\ r \in Request /\ CanSubmit(train, r, graph)
        /\ train' = Submit(train, r, graph, clock)
        /\ b \in Known(train) \ {r.attempt}
    BY RequestsAssumption DEF SubmitAct, Becomes, Stays, Inv, TypeOK, Sound
  <2> QED
    BY <2>1, JoinApart
<1> QED
  BY <1>1, Invariance, PTL DEF Spec, JoinNeverAddsWork

\* An aged goal goes before one that is not, and before one queued later.
LEMMA AgedChoice ==
    ASSUME NEW t \in Train, NEW now \in 0..MaxClock, NEW g \in Choices(t, now, Goals),
           NEW h \in Frontier(t, Goals), Aged(t, h, now)
    PROVE  t.nodes[g].queued_at <= t.nodes[h].queued_at
<1> DEFINE interests == Interests(t)
           Pair(k) == <<k, Priority(t, interests, k, now)>>
<1>1. ASSUME NEW k \in Frontier(t, Goals) PROVE t.nodes[k].queued_at \in Nat
  <2>1. t.nodes[k] \in Node
    BY <1>1, KnownGoalType DEF Frontier, InState
  <2> QED
    BY <2>1, BoundsAssumption DEF Node
<1>2. /\ g \in Frontier(t, Goals)
      /\ g # h => Precedes(Priority(t, interests, g, now), Priority(t, interests, h, now))
  <2>1. PICK r \in {Pair(k) : k \in Frontier(t, Goals)} :
           /\ g = r[1]
           /\ \A q \in {Pair(k) : k \in Frontier(t, Goals)} \ {r} : Precedes(r[2], q[2])
    BY DEF Choices
  <2>2. r = Pair(g) /\ g \in Frontier(t, Goals)
    BY <2>1
  <2>3. Pair(h) \in {Pair(k) : k \in Frontier(t, Goals)} /\ (Pair(h) = Pair(g) => h = g)
    OBVIOUS
  <2>4. g # h => Precedes(Pair(g)[2], Pair(h)[2])
    BY <2>1, <2>2, <2>3
  <2> QED
    BY <2>2, <2>4
<1>3. CASE g = h
  BY <1>1, <1>3
<1>4. CASE g # h
  <2> DEFINE p == Priority(t, interests, g, now)
             q == Priority(t, interests, h, now)
  <2>1. /\ p[1] = (IF Aged(t, g, now) THEN 0 ELSE 1)
        /\ p[2] = (IF Aged(t, g, now) THEN t.nodes[g].queued_at ELSE 0)
        /\ q[1] = 0
        /\ q[2] = t.nodes[h].queued_at
    BY DEF Priority
  <2>2. PICK i \in 1..6 : p[i] < q[i] /\ \A j \in 1..(i - 1) : p[j] = q[j]
    BY <1>2, <1>4 DEF Precedes
  <2>3. t.nodes[g].queued_at \in Nat /\ t.nodes[h].queued_at \in Nat
    BY <1>1, <1>2
  <2> HIDE DEF p, q
  <2>4. CASE i = 1
    BY <2>1, <2>2, <2>4
  <2>5. CASE i = 2
    <3>1. p[1] = q[1]
      BY <2>2, <2>5
    <3> QED
      BY <2>1, <2>2, <2>3, <2>5, <3>1
  <2>6. CASE i \in 3..6
    <3>1. p[1] = q[1] /\ p[2] = q[2]
      BY <2>2, <2>6
    <3> QED
      BY <2>1, <2>3, <3>1
  <2> QED
    BY <2>4, <2>5, <2>6
<1> QED
  BY <1>3, <1>4

\* Where every goal is eligible, as in `dispatch`, no ready goal that has
\* waited the aging bound is passed over for one that was queued later.
THEOREM AgedGoFirst == ASSUME Eligible = {Goals} PROVE Spec => AgedFirst
<1> DEFINE Step == \A g \in RunningGoals(train') \ RunningGoals(train) :
                     \A h \in Frontier(train, Goals) :
                       Aged(train, h, clock) =>
                         train.nodes[g].queued_at <= train.nodes[h].queued_at
<1>1. Inv /\ [Next]_vars => Step
  <2> SUFFICES ASSUME Inv, [Next]_vars, NEW g \in RunningGoals(train') \ RunningGoals(train)
               PROVE  /\ train \in Train /\ clock \in 0..MaxClock
                      /\ g \in Choices(train, clock, Goals)
    BY AgedChoice
  <2>1. train \in Train /\ clock \in 0..MaxClock
    BY DEF Inv, TypeOK
  <2>2. CASE \/ TickAct
             \/ \E r \in Requests, admitted \in BOOLEAN : RegisterAct(r, admitted)
             \/ \E r \in Requests, graph \in Graphs : SubmitAct(r, graph)
             \/ \E a \in Attempts : \/ PreparationFailedAct(a) \/ CancelAct(a)
                                    \/ HoldAct(a) \/ AdmitAct(a)
             \/ \E a \in Attempts : RetireAct(a) \/ RetryAct(a) \/ FenceAct(a)
             \/ \E token \in Attempts \X (0..MaxSequence) : ReleaseFenceAct(token)
    BY <2>2, QuietActions DEF Quiet
  <2>3. CASE \E eligible \in Eligible : DispatchAct(eligible)
    <3>1. PICK k \in Choices(train, clock, Goals) : train' = Dispatch(train, k)
      BY <2>3 DEF DispatchAct
    <3>2. CanDispatch(train) /\ k \in KnownGoals(train)
      BY <2>3, ChoiceReady DEF DispatchAct
    <3>3. \A h \in Goals \ {k} : train'.nodes[h] = train.nodes[h]
      BY <2>1, <3>1, <3>2, DispatchEffect
    <3>4. g = k
      BY <3>3 DEF RunningGoals, InState, KnownGoals
    <3> QED
      BY <2>1, <3>1, <3>4
  <2>4. CASE \/ \E d \in workers, ok \in BOOLEAN : FinishAct(d, ok)
             \/ \E d \in stale, ok \in BOOLEAN : LateFinishAct(d, ok)
    BY <2>4, FinishStep
  <2>5. CASE \E valid \in SUBSET KnownGoals(train) : ReconcileAct(valid)
    BY <2>5, ReconcileStep
  <2>6. CASE UNCHANGED vars
    BY <2>6 DEF vars
  <2> QED
    BY <2>2, <2>3, <2>4, <2>5, <2>6 DEF Next
<1> QED
  BY <1>1, Invariance, PTL DEF Spec, AgedFirst
=============================================================================
