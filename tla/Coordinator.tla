----------------------------- MODULE Coordinator -----------------------------
(***************************************************************************)
(* The service of src/src/build_train/runtime.rs: one loop that owns the   *)
(* train, threads that plan, retain and build, a journal and archives on   *)
(* disk, and clients that send commands.  The service may stop at any      *)
(* point between two writes and is started again from the journal.         *)
(*                                                                         *)
(* `at` is where the loop stands.  A turn takes the receipts of planners,  *)
(* the deadlines, the receipts of workers, then (unless it is stopping) a  *)
(* batch of commands, the answers to waiting clients, new planners and new *)
(* workers.  A step is atomic up to its next write; a command that writes  *)
(* more than once goes through `job`.                                      *)
(*                                                                         *)
(* A thread's end and the taking of its receipt are one step.  A write     *)
(* that fails ends the service when the loop made it, which is a crash,    *)
(* and is an error to the client when a command made it; the file may hold *)
(* the old or the new content then (the directory sync comes after the     *)
(* rename).  Sockets, frames, lease files and the backend's mechanics are  *)
(* left out.                                                               *)
(***************************************************************************)
EXTENDS TrainOps

CONSTANTS
    Requests,           \* the requests clients may submit
    Graphs,             \* the plans the backend may supply
    Workers,            \* Config.workers
    QueueLimit,         \* Config.queue_limit
    PlanningWorkers,    \* Config.planning_workers
    WaiterLimit,        \* waiting clients per request (8 in the code)
    Commands,           \* the commands clients send
    Events              \* what may happen besides: crashes, failing writes, ...

ASSUME InputsAssumption ==
    /\ Requests \subseteq Request
    /\ \A G \in Graphs :
         DOMAIN G \subseteq Goals /\ \A g \in DOMAIN G : G[g] \in Definition

ASSUME LimitsAssumption ==
    /\ Workers \in Nat
    /\ QueueLimit \in Nat
    /\ PlanningWorkers \in Nat
    /\ WaiterLimit \in Nat

VARIABLES
    at,         \* where the loop stands; "down" when no service runs
    stopping,   \* the stop flag
    train,      \* the Train in memory
    planners,   \* planner threads by request
    workers,    \* builds that run, each with the sibling outputs it checks
    waiters,    \* clients that wait for a request's preparation
    job,        \* a command between two of its writes
    journal,    \* train.json
    archive,    \* the retirement archives
    roots,      \* outputs pinned for each request
    pinned,     \* requests whose source and derivations are pinned
    told,       \* the furthest standing that a client may have been told
    handover    \* the fence that its owner was told, and whether nothing runs

memory == <<at, stopping, train, planners, workers, waiters, job>>
disk == <<journal, archive, roots, pinned>>
clients == <<told, handover>>
vars == <<memory, disk, clients>>

Phases == {"down", "receipts", "deadlines", "completions", "commands",
           "planners", "dispatch"}

Verdicts == {"Ready", "Failed", "Cancelled"}

Planner == [step : {"Planning", "Retaining"}, timed_out : BOOLEAN]

Worker == [receipt : Dispatched, siblings : SUBSET Goals]

Archive == [outcome : Verdicts, graph : SUBSET Goals, released : BOOLEAN]

Job == [attempt : Attempts, step : {"intake", "archived", "journalled", "released"}]

Handover == [fence : Fence, quiet : BOOLEAN]

ASSUME AbsenceAssumption == None \notin Planner \cup Archive \cup Job \cup Handover

Up == at # "down"

NoPlanners == [a \in Attempts |-> None]
NoWaiters == [a \in Attempts |-> 0]

Live == {a \in Attempts : planners[a] # None}

\* fn active_requests
Active(t) == {a \in Known(t) : Outcome(t, a) = "Pending"}

\* What retain pins for a request, by the evidence of train t.
RetainedIn(t) ==
    [a \in Attempts |->
       IF a \in Known(t) THEN roots[a] \cup RetainedGraph(t, a) ELSE roots[a]]

Init ==
    /\ at = "down"
    /\ stopping = FALSE
    /\ train = NewTrain
    /\ planners = NoPlanners
    /\ workers = {}
    /\ waiters = NoWaiters
    /\ job = None
    /\ journal = NewTrain
    /\ archive = [a \in Attempts |-> None]
    /\ roots = [a \in Attempts |-> {}]
    /\ pinned = {}
    /\ told = [a \in Attempts |-> "Unknown"]
    /\ handover = None

-----------------------------------------------------------------------------
(* Writes.                                                                 *)

\* The train is saved and then adopted.
Commit(t) ==
    /\ journal' = t
    /\ train' = t

\* The save of t fails: the journal holds t or what it held, and the train in
\* memory stays.
CommitFails(t) ==
    /\ "SaveFails" \in Events
    /\ journal' \in {journal, t}
    /\ UNCHANGED train

\* Everything in memory is gone.
Lost ==
    /\ at' = "down"
    /\ stopping' = FALSE
    /\ train' = NewTrain
    /\ planners' = NoPlanners
    /\ workers' = {}
    /\ waiters' = NoWaiters
    /\ job' = None

-----------------------------------------------------------------------------
(* Planner receipts and threads.                                           *)

\* flush_waiters, once the planner of a is gone
Answered(a) ==
    /\ planners' = [planners EXCEPT ![a] = None]
    /\ waiters' = [waiters EXCEPT ![a] = 0]

\* Mutant: the receipt of a planner that missed its deadline is not taken.
DropReceiptTimely(a) ==
    /\ at = "receipts"
    /\ a \in Live
    /\ train.requests[a].cancelled
    /\ Answered(a)
    /\ UNCHANGED <<at, stopping, train, workers, job, disk, clients>>

\* A planner that missed its deadline or whose request was cancelled: its
\* receipt is dropped and its slot freed.
DropReceipt(a) ==
    /\ at = "receipts"
    /\ a \in Live
    /\ planners[a].timed_out \/ train.requests[a].cancelled
    /\ Answered(a)
    /\ UNCHANGED <<at, stopping, train, workers, job, disk, clients>>

Heard(a, step) ==
    /\ at = "receipts"
    /\ a \in Live
    /\ planners[a].step = step
    /\ ~planners[a].timed_out
    /\ ~train.requests[a].cancelled

\* Mutant: the plan is journalled with the retention's result only.
PlanReceiptUnsaved(a, graph, now) ==
    /\ Heard(a, "Planning")
    /\ CanSubmit(train, train.requests[a].request, graph)
    /\ train' = [Submit(train, train.requests[a].request, graph, now)
                    EXCEPT !.requests[a].prepared = FALSE]
    /\ planners' = [planners EXCEPT ![a].step = "Retaining"]
    /\ UNCHANGED <<at, stopping, workers, waiters, job, disk, clients>>

\* Mutant: the request counts as prepared before its retention starts.
PlanReceiptPrepared(a, graph, now) ==
    /\ Heard(a, "Planning")
    /\ CanSubmit(train, train.requests[a].request, graph)
    /\ Commit(Submit(train, train.requests[a].request, graph, now))
    /\ planners' = [planners EXCEPT ![a].step = "Retaining"]
    /\ UNCHANGED <<at, stopping, workers, waiters, job, archive, roots, pinned,
                   clients>>

\* The plan joins and is journalled, still unprepared, before its retention
\* starts on the same slot.
PlanReceipt(a, graph, now) ==
    /\ Heard(a, "Planning")
    /\ CanSubmit(train, train.requests[a].request, graph)
    /\ Commit([Submit(train, train.requests[a].request, graph, now)
                 EXCEPT !.requests[a].prepared = FALSE])
    /\ planners' = [planners EXCEPT ![a].step = "Retaining"]
    /\ UNCHANGED <<at, stopping, workers, waiters, job, archive, roots, pinned,
                   clients>>

\* The retention thread pins one output after another.
RetainStep(a, g) ==
    /\ a \in Live
    /\ planners[a].step = "Retaining"
    /\ g \in RetainedGraph(train, a) \ roots[a]
    /\ roots' = [roots EXCEPT ![a] = @ \cup {g}]
    /\ pinned' = pinned \cup {a}
    /\ UNCHANGED <<memory, journal, archive, clients>>

\* Mutant: the retention's result is not looked at.
RetainReceiptAny(a) ==
    /\ Heard(a, "Retaining")
    /\ Commit([train EXCEPT !.requests[a].prepared = TRUE])
    /\ Answered(a)
    /\ UNCHANGED <<at, stopping, workers, job, archive, roots, pinned, clients>>

RetainReceipt(a) ==
    /\ Heard(a, "Retaining")
    /\ RetainedGraph(train, a) \subseteq roots[a]
    /\ Commit([train EXCEPT !.requests[a].prepared = TRUE])
    /\ pinned' = pinned \cup {a}
    /\ Answered(a)
    /\ UNCHANGED <<at, stopping, workers, job, archive, roots, clients>>

\* The backend fails or panics, or the plan is refused.
FailedReceipt(a) ==
    /\ Heard(a, "Planning") \/ Heard(a, "Retaining")
    /\ Commit(PreparationFailed(train, a))
    /\ Answered(a)
    /\ UNCHANGED <<at, stopping, workers, job, archive, roots, pinned, clients>>

\* The deadline fails the request and answers its clients; the thread keeps
\* its slot.
DeadlineAct(a) ==
    /\ "Deadline" \in Events
    /\ at = "deadlines"
    /\ a \in Live
    /\ ~planners[a].timed_out
    /\ Commit(PreparationFailed(train, a))
    /\ planners' = [planners EXCEPT ![a].timed_out = TRUE]
    /\ waiters' = [waiters EXCEPT ![a] = 0]
    /\ UNCHANGED <<at, stopping, workers, job, archive, roots, pinned, clients>>

-----------------------------------------------------------------------------
(* Worker receipts.                                                        *)

\* The outputs found in the store are complete, whatever was recorded.
WithEvidence(t, valid) ==
    [t EXCEPT !.nodes =
       [g \in Goals |-> IF g \in valid \cap KnownGoals(t)
                        THEN [t.nodes[g] EXCEPT !.state = "Complete", !.serial = 0]
                        ELSE t.nodes[g]]]

\* A worker succeeds only if its own output is in the store.
CompletedAct(w, ok, valid) ==
    /\ at = "completions"
    /\ w \in workers
    /\ valid \subseteq w.siblings
    /\ ok => w.receipt.goal \in valid
    /\ Commit(WithEvidence(Finish(train, w.receipt, ok), valid))
    /\ workers' = workers \ {w}
    /\ UNCHANGED <<at, stopping, planners, waiters, job, archive, roots, pinned,
                   clients>>

\* A waiting client has gone; its request stays.
DetachAct(a) ==
    /\ "Detach" \in Events
    /\ at = "completions"
    /\ waiters[a] > 0
    /\ waiters' = [waiters EXCEPT ![a] = @ - 1]
    /\ UNCHANGED <<at, stopping, train, planners, workers, job, disk, clients>>

-----------------------------------------------------------------------------
(* Commands.  A refused one changes nothing and is no step.                *)

Receives(kind) ==
    /\ kind \in Commands
    /\ at = "commands"
    /\ job = None

\* A command whose only write is the save of t.
Saves(t) ==
    /\ Commit(t) \/ CommitFails(t)
    /\ UNCHANGED <<at, stopping, planners, workers, waiters, job, archive, told>>

\* A client of an unprepared pending request waits for its answer.
Attaches(a) ==
    waiters' = [waiters EXCEPT ![a] =
                  IF ~train'.requests[a].prepared /\ Outcome(train', a) = "Pending"
                  THEN @ + 1 ELSE @]

\* Mutant: the archive is not asked.
CanIntakeRetired(r) ==
    /\ r.attempt \notin Known(train)
    /\ Cardinality(Active(train)) < QueueLimit
    /\ CanRegister(train, r)

\* Submit or Register of a new attempt: it is journalled before its source is
\* pinned.
CanIntake(r) ==
    /\ r.attempt \notin Known(train)
    /\ Cardinality(Active(train)) < QueueLimit
    /\ archive[r.attempt] = None
    /\ CanRegister(train, r)

IntakeAct(kind, r) ==
    /\ kind \in {"Submit", "Register"}
    /\ Receives(kind)
    /\ waiters[r.attempt] < WaiterLimit
    /\ CanIntake(r)
    /\ \/ /\ Commit(Register(train, r, kind = "Submit"))
          /\ job' = [attempt |-> r.attempt, step |-> "intake"]
       \/ /\ CommitFails(Register(train, r, kind = "Submit"))
          /\ UNCHANGED job
    /\ UNCHANGED <<at, stopping, planners, workers, waiters, archive, roots,
                   pinned, clients>>

IntakeRetained(a) ==
    /\ job = [attempt |-> a, step |-> "intake"]
    /\ job' = None
    /\ pinned' = pinned \cup {a}
    /\ UNCHANGED train
    /\ Attaches(a)
    /\ UNCHANGED <<at, stopping, planners, workers, journal, archive, roots,
                   clients>>

\* Pinning fails: the request is known and terminal, unless recording that
\* fails too.
IntakeUnretained(a) ==
    /\ "RetainFails" \in Events
    /\ job = [attempt |-> a, step |-> "intake"]
    /\ job' = None
    /\ pinned' \in {pinned, pinned \cup {a}}
    /\ Commit(PreparationFailed(train, a)) \/ CommitFails(PreparationFailed(train, a))
    /\ UNCHANGED <<at, stopping, planners, workers, waiters, archive, roots,
                   clients>>

\* Mutant: any number of clients may wait.
RepeatUnbounded(kind, r) ==
    /\ kind \in {"Submit", "Register"}
    /\ Receives(kind)
    /\ r.attempt \in Known(train)
    /\ train.requests[r.attempt].request = r
    /\ \/ Commit(train) /\ Attaches(r.attempt)
       \/ CommitFails(train) /\ UNCHANGED waiters
    /\ UNCHANGED <<at, stopping, planners, workers, job, archive, roots, pinned,
                   clients>>

\* The same request again, by a client that lost its reply.
RepeatAct(kind, r) ==
    /\ kind \in {"Submit", "Register"}
    /\ Receives(kind)
    /\ waiters[r.attempt] < WaiterLimit
    /\ r.attempt \in Known(train)
    /\ train.requests[r.attempt].request = r
    /\ \/ Commit(train) /\ Attaches(r.attempt)
       \/ CommitFails(train) /\ UNCHANGED waiters
    /\ UNCHANGED <<at, stopping, planners, workers, job, archive, roots, pinned,
                   clients>>

AdmitAct(a) ==
    /\ Receives("Admit")
    /\ CanAdmit(train, a)
    /\ Saves(Admit(train, a))
    /\ UNCHANGED <<roots, pinned, handover>>

CancelAct(a) ==
    /\ Receives("Cancel")
    /\ a \in Known(train)
    /\ Saves(Cancel(train, a))
    /\ UNCHANGED <<roots, pinned, handover>>

\* The owner is told its fence and whether anything runs (Client::drain).
FenceAct(a) ==
    /\ Receives("Fence")
    /\ CanFence(train, a)
    /\ \/ /\ Commit(SetFence(train, a))
          /\ handover' = [fence |-> train'.fence, quiet |-> Drained(train)]
       \/ /\ CommitFails(SetFence(train, a))
          /\ UNCHANGED handover
    /\ UNCHANGED <<at, stopping, planners, workers, waiters, job, archive, roots,
                   pinned, told>>

\* The owner ends its handover by the attempt, whatever comes of it.
ReleaseFenceAct(token) ==
    /\ Receives("ReleaseFence")
    /\ CanReleaseFence(train, token)
    /\ Saves(ReleaseFence(train))
    /\ handover' = None
    /\ UNCHANGED <<roots, pinned>>

\* Mutant: a retry is not counted.
CanRetryUncounted(a) ==
    /\ a \in Known(train)
    /\ a \notin Live

\* A retry that makes a request pending again needs capacity.
CanRetry(a) ==
    /\ a \in Known(train)
    /\ a \notin Live
    /\ a \notin Active(train) => Cardinality(Active(train)) < QueueLimit

RetryAct(a) ==
    /\ Receives("Retry")
    /\ CanRetry(a)
    /\ roots' = [roots EXCEPT ![a] = @ \cup RetainedGraph(train, a)]
    /\ pinned' = pinned \cup {a}
    /\ Saves(Retry(train, a))
    /\ UNCHANGED handover

\* The pinning fails half way; the train is not touched.
RetryUnretained(a) ==
    /\ "RetainFails" \in Events
    /\ Receives("Retry")
    /\ CanRetry(a)
    /\ \E some \in SUBSET RetainedGraph(train, a) :
         roots' = [roots EXCEPT ![a] = @ \cup some]
    /\ pinned' = pinned \cup {a}
    /\ UNCHANGED <<memory, journal, archive, clients>>

\* Mutant: a planner of the request may still run.
RetireLive(a) ==
    /\ Receives("Retire")
    /\ CanRetire(train, a)
    /\ archive' = [archive EXCEPT ![a] =
                     [outcome |-> Outcome(train, a),
                      graph |-> RetainedGraph(train, a),
                      released |-> FALSE]]
    /\ \/ job' = [attempt |-> a, step |-> "archived"]
       \/ "SaveFails" \in Events /\ UNCHANGED job
    /\ UNCHANGED <<at, stopping, train, planners, workers, waiters, journal,
                   roots, pinned, clients>>

\* Retirement: evidence first, membership second, roots last.
RetireAct(a) ==
    /\ Receives("Retire")
    /\ a \notin Live
    /\ CanRetire(train, a)
    /\ archive' = [archive EXCEPT ![a] =
                     [outcome |-> Outcome(train, a),
                      graph |-> RetainedGraph(train, a),
                      released |-> FALSE]]
    /\ \/ job' = [attempt |-> a, step |-> "archived"]
       \/ "SaveFails" \in Events /\ UNCHANGED job
    /\ UNCHANGED <<at, stopping, train, planners, workers, waiters, journal,
                   roots, pinned, clients>>

\* Retire of a request that is only in the archive takes up its release.
RetireAgainAct(a) ==
    /\ Receives("Retire")
    /\ a \notin Live
    /\ a \notin Known(train)
    /\ archive[a] # None
    /\ ~archive[a].released
    /\ job' = [attempt |-> a, step |-> "journalled"]
    /\ UNCHANGED <<at, stopping, train, planners, workers, waiters, disk, clients>>

RetireJournalled(a) ==
    /\ job = [attempt |-> a, step |-> "archived"]
    /\ \/ /\ Commit(Retire(train, a))
          /\ job' = [job EXCEPT !.step = "journalled"]
       \/ /\ CommitFails(Retire(train, a))
          /\ job' = None
    /\ UNCHANGED <<at, stopping, planners, workers, waiters, archive, roots,
                   pinned, clients>>

\* release refuses roots that the archived evidence does not own.
RetireReleased(a) ==
    /\ job = [attempt |-> a, step |-> "journalled"]
    /\ roots[a] \subseteq archive[a].graph
    /\ roots' = [roots EXCEPT ![a] = {}]
    /\ pinned' = pinned \ {a}
    /\ job' = [job EXCEPT !.step = "released"]
    /\ UNCHANGED <<at, stopping, train, planners, workers, waiters, journal,
                   archive, clients>>

\* It may also stop half way.
RetireUnreleased(a) ==
    /\ job = [attempt |-> a, step |-> "journalled"]
    /\ "ReleaseFails" \in Events \/ ~(roots[a] \subseteq archive[a].graph)
    /\ \E left \in SUBSET roots[a] : roots' = [roots EXCEPT ![a] = left]
    /\ pinned' \in {pinned, pinned \ {a}}
    /\ job' = None
    /\ UNCHANGED <<at, stopping, train, planners, workers, waiters, journal,
                   archive, clients>>

RetireSealed(a) ==
    /\ job = [attempt |-> a, step |-> "released"]
    /\ job' = None
    /\ \/ archive' = [archive EXCEPT ![a].released = TRUE]
       \/ "SaveFails" \in Events /\ UNCHANGED archive
    /\ UNCHANGED <<at, stopping, train, planners, workers, waiters, journal,
                   roots, pinned, clients>>

\* The owner asks again until nothing runs.
InspectAct ==
    /\ Receives("Inspect")
    /\ handover # None
    /\ Drained(train)
    /\ handover' = [handover EXCEPT !.quiet = TRUE]
    /\ UNCHANGED <<memory, disk, told>>

-----------------------------------------------------------------------------
(* The rest of a turn.                                                     *)

\* What a Status says of a request, and with it any other reply.
Answer(a) ==
    IF a \in Known(train) THEN "Live"
    ELSE IF archive[a] # None THEN archive[a].outcome
    ELSE told[a]

\* After the batch the clients whose request is settled are answered.  The
\* batch may have held a Status of every request, so all of them are told.
FlushAct ==
    /\ at = "commands"
    /\ job = None
    /\ \A a \in Attempts : waiters[a] > 0 => a \in Known(train)
    /\ at' = "planners"
    /\ waiters' = [a \in Attempts |->
                     IF a \in Active(train) /\ ~train.requests[a].prepared
                     THEN waiters[a] ELSE 0]
    /\ told' = [a \in Attempts |-> Answer(a)]
    /\ UNCHANGED <<stopping, train, planners, workers, job, disk, handover>>

\* A waiter's request is indexed without a check: one that the batch retired
\* is a panic.
FlushPanic ==
    /\ at = "commands"
    /\ job = None
    /\ \E a \in Attempts : waiters[a] > 0 /\ a \notin Known(train)
    /\ Lost
    /\ UNCHANGED <<disk, clients>>

Unplanned ==
    {a \in Active(train) \ Live : ~train.requests[a].prepared}

StartPlanner(a) ==
    /\ at = "planners"
    /\ Cardinality(Live) < PlanningWorkers
    /\ a \in Unplanned
    /\ \A b \in Unplanned :
         train.requests[a].sequence <= train.requests[b].sequence
    /\ planners' = [planners EXCEPT ![a] =
                      [step |-> "Planning", timed_out |-> FALSE]]
    /\ UNCHANGED <<at, stopping, train, workers, waiters, job, disk, clients>>

PlannersStarted ==
    /\ at = "planners"
    /\ Unplanned = {} \/ Cardinality(Live) >= PlanningWorkers
    /\ at' = "dispatch"
    /\ UNCHANGED <<stopping, train, planners, workers, waiters, job, disk, clients>>

CanStart ==
    /\ CanDispatch(train)
    /\ Cardinality(RunningGoals(train)) < Workers
    /\ Frontier(train, Goals) # {}

\* Mutant: the worker starts on a dispatch that is not journalled.
DispatchUnsaved(now) ==
    /\ at = "dispatch"
    /\ CanStart
    /\ \E g \in Choices(train, now, Goals) :
         /\ train' = Dispatch(train, g)
         /\ workers' = workers \cup
              {[receipt |-> ReceiptOf(train', g),
                siblings |-> {h \in KnownGoals(train) :
                                DerivationOf[h] = DerivationOf[g]}]}
    /\ UNCHANGED <<at, stopping, planners, waiters, job, disk, clients>>

\* The dispatch is journalled before its worker starts.
DispatchAct(now) ==
    /\ at = "dispatch"
    /\ CanStart
    /\ \E g \in Choices(train, now, Goals) :
         /\ Commit(Dispatch(train, g))
         /\ workers' = workers \cup
              {[receipt |-> ReceiptOf(train', g),
                siblings |-> {h \in KnownGoals(train) :
                                DerivationOf[h] = DerivationOf[g]}]}
    /\ UNCHANGED <<at, stopping, planners, waiters, job, archive, roots, pinned,
                   clients>>

WorkersStarted ==
    /\ at = "dispatch"
    /\ ~CanStart
    /\ at' = "receipts"
    /\ UNCHANGED <<stopping, train, planners, workers, waiters, job, disk, clients>>

\* The loop goes on, past the commands when it is stopping.
ReceiptsTaken ==
    /\ at = "receipts"
    /\ at' = "deadlines"
    /\ UNCHANGED <<stopping, train, planners, workers, waiters, job, disk, clients>>

DeadlinesPassed ==
    /\ at = "deadlines"
    /\ at' = "completions"
    /\ UNCHANGED <<stopping, train, planners, workers, waiters, job, disk, clients>>

CompletionsTaken ==
    /\ at = "completions"
    /\ IF ~stopping
       THEN at' = "commands"
       ELSE /\ Live # {} \/ ~Drained(train)
            /\ at' = "receipts"
    /\ UNCHANGED <<stopping, train, planners, workers, waiters, job, disk, clients>>

-----------------------------------------------------------------------------
(* Stop, crash, restart.                                                   *)

StopAct ==
    /\ "Stop" \in Events
    /\ Up
    /\ ~stopping
    /\ stopping' = TRUE
    /\ UNCHANGED <<at, train, planners, workers, waiters, job, disk, clients>>

\* Mutant: a stopping service waits for its clients too.
ShutdownAnswered ==
    /\ at = "completions"
    /\ stopping
    /\ Live = {}
    /\ Drained(train)
    /\ waiters = NoWaiters
    /\ Lost
    /\ UNCHANGED <<disk, clients>>

\* A stopping service ends when nothing runs; the clients left are answered.
ShutdownAct ==
    /\ at = "completions"
    /\ stopping
    /\ Live = {}
    /\ Drained(train)
    /\ Lost
    /\ UNCHANGED <<disk, clients>>

CrashAct ==
    /\ "Crash" \in Events
    /\ Up
    /\ Lost
    /\ UNCHANGED <<disk, clients>>

\* Every request of the journal is pinned again before the store is asked what
\* is still there.
RestartAct(valid) ==
    /\ at = "down"
    /\ roots' = RetainedIn(journal)
    /\ pinned' = pinned \cup Known(journal)
    /\ Commit(Reconcile(journal, valid))
    /\ at' = "receipts"
    /\ UNCHANGED <<stopping, planners, workers, waiters, job, archive, clients>>

\* A start that fails while it pins a request leaves what it pinned.
RestartRefused(a) ==
    /\ "RetainFails" \in Events
    /\ at = "down"
    /\ a \in Known(journal)
    /\ \E some \in SUBSET RetainedGraph(journal, a) :
         roots' = [roots EXCEPT ![a] = @ \cup some]
    /\ pinned' = pinned \cup {a}
    /\ UNCHANGED <<memory, journal, archive, clients>>

Next ==
    \/ \E a \in Attempts : DropReceipt(a)
    \/ \E a \in Attempts, graph \in Graphs, now \in 0..MaxClock :
         PlanReceipt(a, graph, now)
    \/ \E a \in Attempts, g \in Goals : RetainStep(a, g)
    \/ \E a \in Attempts : RetainReceipt(a)
    \/ \E a \in Attempts : FailedReceipt(a)
    \/ \E a \in Attempts : DeadlineAct(a)
    \/ \E w \in workers, ok \in BOOLEAN : \E valid \in SUBSET w.siblings :
         CompletedAct(w, ok, valid)
    \/ \E a \in Attempts : DetachAct(a)
    \/ \E kind \in Commands, r \in Requests : IntakeAct(kind, r)
    \/ \E a \in Attempts : IntakeRetained(a)
    \/ \E a \in Attempts : IntakeUnretained(a)
    \/ \E kind \in Commands, r \in Requests : RepeatAct(kind, r)
    \/ \E a \in Attempts : AdmitAct(a)
    \/ \E a \in Attempts : CancelAct(a)
    \/ \E a \in Attempts : FenceAct(a)
    \/ \E token \in Attempts \X (0..MaxSequence) : ReleaseFenceAct(token)
    \/ \E a \in Attempts : RetryAct(a)
    \/ \E a \in Attempts : RetryUnretained(a)
    \/ \E a \in Attempts : RetireAct(a)
    \/ \E a \in Attempts : RetireAgainAct(a)
    \/ \E a \in Attempts : RetireJournalled(a)
    \/ \E a \in Attempts : RetireReleased(a)
    \/ \E a \in Attempts : RetireUnreleased(a)
    \/ \E a \in Attempts : RetireSealed(a)
    \/ InspectAct
    \/ FlushAct
    \/ FlushPanic
    \/ \E a \in Attempts : StartPlanner(a)
    \/ PlannersStarted
    \/ \E now \in 0..MaxClock : DispatchAct(now)
    \/ WorkersStarted
    \/ ReceiptsTaken
    \/ DeadlinesPassed
    \/ CompletionsTaken
    \/ StopAct
    \/ ShutdownAct
    \/ CrashAct
    \/ \E valid \in SUBSET KnownGoals(journal) : RestartAct(valid)
    \/ \E a \in Attempts : RestartRefused(a)

Spec == Init /\ [][Next]_vars

\* Every thread of the backend returns, the loop keeps turning and a batch of
\* commands is finite.
PlannerReturns(a) ==
    \/ DropReceipt(a)
    \/ \E graph \in Graphs, now \in 0..MaxClock : PlanReceipt(a, graph, now)
    \/ RetainReceipt(a)
    \/ FailedReceipt(a)

WorkerReturns ==
    \E w \in workers, ok \in BOOLEAN : \E valid \in SUBSET w.siblings :
      CompletedAct(w, ok, valid)

Turn ==
    \/ FlushAct
    \/ FlushPanic
    \/ \E a \in Attempts : StartPlanner(a)
    \/ PlannersStarted
    \/ \E now \in 0..MaxClock : DispatchAct(now)
    \/ WorkersStarted
    \/ ReceiptsTaken
    \/ DeadlinesPassed
    \/ CompletionsTaken
    \/ ShutdownAct

Fairness ==
    /\ \A a \in Attempts : SF_vars(PlannerReturns(a))
    /\ SF_vars(WorkerReturns)
    /\ SF_vars(Turn)
    /\ WF_vars(\E a \in Attempts : IntakeRetained(a))

FairSpec == Spec /\ Fairness

-----------------------------------------------------------------------------
(* Invariants.                                                             *)

\* Every variable holds a value of its kind.
TypeOK ==
    /\ at \in Phases
    /\ stopping \in BOOLEAN
    /\ train \in Train
    /\ planners \in [Attempts -> Planner \cup {None}]
    /\ workers \subseteq Worker
    /\ waiters \in [Attempts -> 0..WaiterLimit]
    /\ job \in Job \cup {None}
    /\ journal \in Train
    /\ archive \in [Attempts -> Archive \cup {None}]
    /\ roots \in [Attempts -> SUBSET Goals]
    /\ pinned \subseteq Attempts
    /\ told \in [Attempts -> {"Unknown", "Live"} \cup Verdicts]
    /\ handover \in Handover \cup {None}

\* The train in memory and the one a restart would load are both consistent,
\* at every point where the service may stop.
TrainsSound == Sound(train) /\ Sound(journal)

\* Every build that runs is in the journal under its generation (dispatch:
\* "Receipt exists before any worker starts"), and the train counts no other.
BuildsJournalled ==
    /\ {w.receipt : w \in workers} = {ReceiptOf(train, g) : g \in RunningGoals(train)}
    /\ \A w \in workers :
         /\ w.receipt.goal \in RunningGoals(journal)
         /\ ReceiptOf(journal, w.receipt.goal) = w.receipt

\* The receipt of a thread finds its request: the loop indexes it unchecked.
ThreadsKnown == Live \subseteq Known(train)

\* Nothing is pinned that the journal or an unreleased archive does not own, so
\* a retirement that is repeated long enough leaves no root behind.
RootsOwned ==
    \A a \in Attempts :
      roots[a] # {} \/ a \in pinned =>
        \/ a \in Known(journal) /\ roots[a] \subseteq RetainedGraph(journal, a)
        \/ /\ archive[a] # None
           /\ ~archive[a].released
           /\ roots[a] \subseteq archive[a].graph

\* What a prepared request is promised is pinned, in memory and in the journal.
RootsHeldIn(t) ==
    \A a \in Known(t) :
      t.requests[a].prepared => /\ RetainedGraph(t, a) \subseteq roots[a]
                                /\ a \in pinned

RootsHeld == RootsHeldIn(train) /\ RootsHeldIn(journal)

\* As long as its owner has not tried to release it, a fence stands, also after
\* a crash and after commands that failed; once the owner was told that nothing
\* runs, nothing does.
HandoverQuiet ==
    handover # None =>
      /\ journal.fence = handover.fence
      /\ Up => train.fence = handover.fence
      /\ handover.quiet => workers = {}

-----------------------------------------------------------------------------
(* Action properties and refinement.                                       *)

\* No command makes more requests pending than the queue holds.
QueueBound ==
    [][Cardinality(Active(train')) > Cardinality(Active(train)) /\ at = "commands"
         => Cardinality(Active(train')) <= QueueLimit]_vars

DurableStanding ==
    [a \in Attempts |->
       IF a \in Known(journal) THEN "Live"
       ELSE IF archive[a] # None THEN archive[a].outcome
       ELSE "Unknown"]

\* The service keeps the ledger: over crashes, failed writes and repeated
\* commands nothing that a client was told about a request is taken back.
Promise == INSTANCE Ledger WITH standing <- DurableStanding

LedgerKept == Promise!Spec

-----------------------------------------------------------------------------
(* Liveness.                                                               *)

Unprepared(a) == Up /\ a \in Known(train) /\ a \in Active(train)
                    /\ ~train.requests[a].prepared

\* Every request's preparation ends.
PreparationEnds == \A a \in Attempts : Unprepared(a) ~> ~Unprepared(a)

\* A service that is told to stop stops.
StopEnds == stopping ~> ~Up

-----------------------------------------------------------------------------
(* What the source says and the code does not keep.                        *)

\* "Cancellation removes one request's interests and lets already-running Nix
\* work finish" (runtime.rs): without a crash no command ends the service.
CommandsKeepService == [][at = "commands" => at' # "down"]_vars

\* The comments of capture_failures: a failure is captured "before store evidence
\* or shared-node retries can replace" it and "cleared only by that request's
\* retry".
FailureLasts ==
    [][\A a \in Known(train) :
         /\ train.requests[a].prepared
         /\ Outcome(train, a) = "Failed"
         /\ a \in Known(train')
         /\ Outcome(train', a) \in {"Pending", "Ready"}
         => RetryAct(a)]_vars
=============================================================================
