---------------------------- MODULE TrainEngine ----------------------------
(***************************************************************************)
(* The engine of src/src/build_train/mod.rs as a library: one Train, one   *)
(* action per public method that changes it, called in any order, with any *)
(* request of Requests and any plan of Graphs.                             *)
(*                                                                         *)
(* The caller is modelled as far as the methods rely on it.  It hands the  *)
(* value that `dispatch` returns to a worker, whose receipt comes back     *)
(* through `finish` at any later time, with any result; after `reconcile`, *)
(* which stands for a restart, the receipts of the workers before it may   *)
(* still arrive.  The clock is the caller's and may step either way.       *)
(***************************************************************************)
EXTENDS TrainOps

CONSTANTS
    Requests,   \* the requests callers may submit
    Graphs,     \* the plans a backend may supply
    Eligible    \* the goal sets a placement predicate may let through

ASSUME RequestsAssumption == Requests \subseteq Request

ASSUME GraphsAssumption ==
    \A G \in Graphs :
      /\ DOMAIN G \subseteq Goals
      /\ \A g \in DOMAIN G : G[g] \in Definition

ASSUME EligibleAssumption == Eligible \subseteq SUBSET Goals

VARIABLES
    train,      \* the Train
    workers,    \* receipts of the workers dispatched since the last restart
    stale,      \* receipts of workers dispatched before it
    clock       \* the caller's clock

vars == <<train, workers, stale, clock>>

Init ==
    /\ train = NewTrain
    /\ workers = {}
    /\ stale = {}
    /\ clock = 0

-----------------------------------------------------------------------------
TickAct ==
    /\ clock' \in (0..MaxClock) \ {clock}
    /\ UNCHANGED <<train, workers, stale>>

\* A method that touches the Train alone.
Becomes(t) ==
    /\ train' = t
    /\ UNCHANGED <<workers, stale, clock>>

RegisterAct(r, admitted) ==
    /\ CanRegister(train, r)
    /\ Becomes(Register(train, r, admitted))

SubmitAct(r, graph) ==
    /\ CanSubmit(train, r, graph)
    /\ Becomes(Submit(train, r, graph, clock))

PreparationFailedAct(a) ==
    /\ a \in Known(train)
    /\ Becomes(PreparationFailed(train, a))

RetireAct(a) ==
    /\ CanRetire(train, a)
    /\ Becomes(Retire(train, a))

CancelAct(a) ==
    /\ a \in Known(train)
    /\ Becomes(Cancel(train, a))

HoldAct(a) ==
    /\ a \in Known(train)
    /\ Becomes(Hold(train, a))

AdmitAct(a) ==
    /\ CanAdmit(train, a)
    /\ Becomes(Admit(train, a))

RetryAct(a) ==
    /\ a \in Known(train)
    /\ Becomes(Retry(train, a))

\* dispatch_where, and dispatch when every goal is eligible
DispatchAct(eligible) ==
    /\ CanDispatch(train)
    /\ \E g \in Choices(train, clock, eligible) :
         /\ train' = Dispatch(train, g)
         /\ workers' = workers \cup {ReceiptOf(train', g)}
    /\ UNCHANGED <<stale, clock>>

FinishAct(d, ok) ==
    /\ d \in workers
    /\ train' = Finish(train, d, ok)
    /\ workers' = workers \ {d}
    /\ UNCHANGED <<stale, clock>>

\* A receipt from before the restart arrives late.
LateFinishAct(d, ok) ==
    /\ d \in stale
    /\ train' = Finish(train, d, ok)
    /\ stale' = stale \ {d}
    /\ UNCHANGED <<workers, clock>>

ReconcileAct(valid) ==
    /\ train' = Reconcile(train, valid)
    /\ stale' = stale \cup workers
    /\ workers' = {}
    /\ UNCHANGED clock

FenceAct(a) ==
    /\ CanFence(train, a)
    /\ Becomes(SetFence(train, a))

ReleaseFenceAct(token) ==
    /\ CanReleaseFence(train, token)
    /\ Becomes(ReleaseFence(train))

Next ==
    \/ TickAct
    \/ \E r \in Requests, admitted \in BOOLEAN : RegisterAct(r, admitted)
    \/ \E r \in Requests, graph \in Graphs : SubmitAct(r, graph)
    \/ \E a \in Attempts : PreparationFailedAct(a)
    \/ \E a \in Attempts : RetireAct(a)
    \/ \E a \in Attempts : CancelAct(a)
    \/ \E a \in Attempts : HoldAct(a)
    \/ \E a \in Attempts : AdmitAct(a)
    \/ \E a \in Attempts : RetryAct(a)
    \/ \E eligible \in Eligible : DispatchAct(eligible)
    \/ \E d \in workers, ok \in BOOLEAN : FinishAct(d, ok)
    \/ \E d \in stale, ok \in BOOLEAN : LateFinishAct(d, ok)
    \/ \E valid \in SUBSET KnownGoals(train) : ReconcileAct(valid)
    \/ \E a \in Attempts : FenceAct(a)
    \/ \E token \in Attempts \X (0..MaxSequence) : ReleaseFenceAct(token)

Spec == Init /\ [][Next]_vars

-----------------------------------------------------------------------------
(* Invariants.                                                             *)

\* Every variable holds a value of its kind.
TypeOK ==
    /\ train \in Train
    /\ workers \subseteq Dispatched
    /\ stale \subseteq Dispatched
    /\ clock \in 0..MaxClock

\* No lookup self.nodes[..] of needed, outcome, retire or dispatch_where can
\* miss: a prepared request's roots are known, and so is every dependency of a
\* known goal, whatever was joined, replanned and retired before.
EvidenceClosed == EvidenceClosedIn(train)

\* A running goal belongs to the evidence of a request that still exists:
\* retiring a request never leaves a worker that no request answers for.
RunningOwned == RunningOwnedIn(train)

\* One worker at most for the named outputs of one derivation.
OneWorkerPerDerivation == OneWorkerIn(train)

\* A build that runs has all its inputs, and keeps them until it ends: nothing
\* another request does takes a dependency away under a running worker.
InputsPresent == InputsPresentIn(train)

\* The running goals are exactly those the outstanding workers were given, with
\* the very definition they were given: a joining plan does not turn a running
\* restoration into a build, a late receipt does not end another generation,
\* and `drained` means that no worker is left.
WorkersMatch == workers = {ReceiptOf(train, g) : g \in RunningGoals(train)}

\* Receipts are numbered by the counter, and no number is given out again after
\* a restart.
ReceiptsFresh ==
    /\ \A d \in workers \cup stale : d.serial \in 1..train.dispatch_serial
    /\ \A d \in workers, e \in stale : d.serial # e.serial

-----------------------------------------------------------------------------
(* Action properties.                                                      *)

\* Request b lives through this step as the same membership.
Stays(b) ==
    /\ train' # train
    /\ b \in Known(train)
    /\ b \in Known(train')
    /\ train'.requests[b].sequence = train.requests[b].sequence

OutcomeChanges(b) == Stays(b) /\ Outcome(train', b) # Outcome(train, b)

\* Retrying a request changes no other request's outcome (README "Retrying a
\* shared failure preserves other failed requests' terminal outcomes").
RetryIsolated ==
    [][\A b \in Attempts : OutcomeChanges(b) =>
         \A a \in Attempts \ {b} : ~RetryAct(a)]_vars

\* When a request goes, neither the outcome nor the needs of another change.
RetireIsolated ==
    [][\A a \in Known(train) \ Known(train') :
         \A b \in Known(train') :
           /\ Outcome(train', b) = Outcome(train, b)
           /\ NeededBy(train', b) = NeededBy(train, b)]_vars

\* A join may prune the work of another prepared request and never adds to it
\* ("source work may replace only an unused plan, never a promised
\* restoration", submit).
JoinNeverAddsWork ==
    [][\A b \in Attempts :
         /\ Stays(b)
         /\ train'.nodes # train.nodes
         /\ train.requests[b].prepared
         /\ ~train.requests[b].cancelled
         /\ ~(NeededBy(train', b) \subseteq NeededBy(train, b))
         => \A r \in Requests, graph \in Graphs :
              r.attempt # b => ~SubmitAct(r, graph)]_vars

\* Store evidence found at a restart does not undo a failure, not even when it
\* shows the failed goal complete ("Failed requests retain their original
\* outcomes until explicit retry", reconcile).
FailureSurvivesEvidence ==
    [][\A b \in Attempts :
         /\ Stays(b)
         /\ Outcome(train, b) = "Failed"
         /\ Outcome(train', b) # "Failed"
         => \A valid \in SUBSET Goals : ~ReconcileAct(valid)]_vars

\* An activation request that a newer one superseded stays superseded as long
\* as it lives, also after the newer one is retired: the frontends can never
\* be let back to an older revision.
SupersededStays ==
    [][\A a \in Attempts :
         /\ Stays(a)
         /\ train.latest_activation[train.requests[a].request.target] # a
         => ~Authorized(train', a)]_vars

\* While a fence stands no goal starts; no other owner takes it over, and it is
\* lifted only over a train that runs nothing.
FenceHolds ==
    [][train.fence # None =>
         /\ RunningGoals(train') \subseteq RunningGoals(train)
         /\ train'.fence # train.fence =>
              Drained(train) /\ train'.fence = None]_vars

\* When a goal starts, no goal that was ready and had waited the aging bound
\* is left behind for one that was queued later.
AgedFirst ==
    [][\A g \in RunningGoals(train') \ RunningGoals(train) :
         \A h \in Frontier(train, Goals) :
           Aged(train, h, clock) =>
             train.nodes[g].queued_at <= train.nodes[h].queued_at]_vars

-----------------------------------------------------------------------------
(* Liveness.                                                               *)

Waiting(a) ==
    /\ a \in Known(train)
    /\ train.requests[a].admitted
    /\ train.requests[a].prepared
    /\ Outcome(train, a) = "Pending"
    /\ train.fence = None

-----------------------------------------------------------------------------
\* What the comments of retry and capture_failures say: the failure of a planned
\* request "is cleared only by that request's retry".  Submitting the request
\* again clears it too.
ClearedOnlyByRetry ==
    [][\A a \in Known(train) :
         /\ train.requests[a].prepared
         /\ Outcome(train, a) = "Failed"
         /\ a \in Known(train')
         /\ Outcome(train', a) \in {"Pending", "Ready"}
         => RetryAct(a)]_vars
=============================================================================
