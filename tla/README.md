# Fleetix in TLA+

Specifications of [fleetix](../src/README.md), the fleet topology and
construction tool, kept beside its Rust source. `src/...` below is the
repository; `mod.rs`, `runtime.rs` and so on without a path are the files of
`src/src/build_train/`.

The program has two halves. One is a library of typed topology facts with pure
projections and validators. The other is a handful of long-running or
crash-sensitive programs: the *construction train* (a coordinator that shares
one build of each derivation between many requests), the MCP configuration
reconciler, the SSH trust observer, the sidecar evaluation cache and the health
publisher. The second half is where order, failure and restarts matter, and most
of these specifications are about it. The construction train comes first: it has
the most state, the most callers and the strongest promises. Of the library, the
specifications cover what relates several facts to each other: the merged supply
graph, and the checks of a topology together with what is derived from it.

## 1. Inventory

### Train engine — `mod.rs` (modelled)

*State* `Train { requests, nodes, fence, sequence, dispatch_serial,
latest_activation }`. A request has a frozen identity (attempt, target, roots,
activates), a sequence number and the flags `cancelled`, `admitted`,
`prepared`, `preparation_error`. A node is one exact derivation output with its
definition (dependencies, build or restore), its state
Pending/Running(serial)/Complete/Failed and `queued_at`.

*Operations* `register`, `submit`, `preparation_failed`, `retire`, `cancel`,
`hold`, `admit`, `retry`, `dispatch[_where]`, `finish`, `reconcile`, `fence`,
`release_fence`; reads `outcome`, `retained_graph`, `running`, `drained`,
`authorize_activation`.

*Hard* Everything is shared: a node belongs to whichever requests' evidence
reaches it, so every method called for one request can disturb another. A plan
that joins later may reclassify a pending goal. A worker's receipt can arrive
after a restart has dispatched its goal again. The scheduler prefers shared
goals and must not starve the others. The clock is wall time and may step back.

*Correct when* no lookup of a node can miss; a running goal always has an owner,
all its inputs and no sibling worker; receipts and running goals correspond;
retry, retire and restart act on one request only; a superseded activation
never comes back; the fence holds; a waiting request ends.

### Coordinator service — `runtime.rs` (modelled)

*State* the train and its durable journal, the archive of retired requests,
planner threads with deadlines, at most `workers` build threads, clients that wait
for a preparation, a stop flag.

*Operations* one loop: planner receipts (planned, retained, failed), planner
deadlines, worker receipts, pruning of waiters, commands (Submit, Register, Admit,
Retry, Retire, Cancel, Fence, ReleaseFence; Status, Inspect and AuthorizeActivation
only read), answering waiters, starting planners, dispatch, shutdown; at start:
load, retain, validate, reconcile.

*Interacts with* the engine (applies every method to a clone, saves the clone,
then adopts it), the backend (plan, retain, release, valid, realise, in
threads), its clients over a socket, `fsutil` for each save. `Client::drain`, in
the same file, is the owner of a handover.

*Hard* crash between journalling and starting a worker; archive before journal
before release; late planner and worker receipts; a planner that passed its
deadline keeps its slot; waiters that outlive their request; retry and replay
against the queue limit; a save that failed after its rename;
stopping while planners and workers are live.

*Correct when* the journal never lags behind what a client was told or a worker
was started for; roots are retained while any live request needs them; identities
are never reused; a restart neither loses a request nor runs a goal twice at
once; every waiter is answered.

### Coordinator IPC and wire — `runtime/ipc.rs`, `runtime/wire.rs`

*State* the socket and, per connection, a bounded frame with a read and write
deadline. *Operations* accept, decode, enqueue, answer. *Hard* a reply that is
lost after the command took effect; connections beyond the limit. *Correct when*
a client that repeats its command gets the answer the first one earned.

### Policy rollover — `runtime/rollover.rs` (modelled)

*State* the snapshot of the drained journal, the `rollover.json` marker, archives,
retained roots, the new journal and the receipt. *Operations* begin, then one
durable step after another, and the same again after a crash. *Interacts with*
the coordinator, which refuses to start while the marker is there. *Hard* a crash
after every step; an archive that an interrupted retirement left. *Correct when*
repeating the exact command completes it, and no evidence or root is lost on the way.

### Preparation receipts — `runtime/preparation.rs` (modelled)

*State* one receipt per task under a lease. *Operations* wait for the lease,
reuse and revalidate, run the task, record. *Hard* the artifacts a receipt names
are collected; callers that give up or die; a record that is written and reported as
failed. *Correct when* one caller at a time works, and a caller is told of a pass only
for artifacts of a passed run that are there.

### Native Nix backend — `native.rs`

Drives the `nix` command line: instantiation, closure queries, roots as symlinks,
realisation. No state of its own but the roots directory; external behaviour for
the coordinator.

### Build-train CLI — `cli.rs`

Argument parsing in front of client calls, and the drain protocol of a client:
fence, wait until drained, activate, release. *Correct when* a client that dies
leaves a fence that its owner can take up again.

### MCP reconciler — `src/src/mcp.rs`, `src/src/mcp/document.rs` (modelled)

*State* several programs' configuration files and the ownership ledger, which is also
the journal of a run under way. *Operations* plan, journal, replace each file,
record ownership; the next run recovers. *Hard* a crash between two files; a foreign edit
between check and replacement. *Correct when* an entry that somebody else wrote or
changed is never overwritten or removed, and what it wrote itself stays owned (it does
not after three stopped runs, see the findings of section 5).

### Sidecar evaluation cache — `src/crates/fleetix-sidecar/src` (partly)

*State* per source file the rendered result with the trace of what its evaluation
read. *Operations* look up, evaluate while recording, render, put. *Hard* a file that
changes while an evaluation reads it; files that were absent; another build of the
program. *Correct when* a cached rendering is the rendering of the files as they are.

### Durable file replacement — `src/src/fsutil.rs`

Write a temporary file, sync, rename, sync the directory. Used by every component
with durable state. *Hard* an error after the rename: the caller is told that
nothing happened.

### Trust observer — `src/src/trust/`, `fleetix trust` in `src/src/cli.rs` (modelled)

*State* known_hosts, the decisions file, `Trust.pkl` and the exported sidecar.
*Operations* scan, take the baseline, prompt, ignore, integrate (patch, export, restore
on failure). *Hard* several processes load, change and save the same files without a
lock; a file that cannot be read counts as absent; an export fails after the patch.
*Correct when* a process takes away no decision and no declaration it could know of, and no
key that contradicts a host's own is declared.

### Health publisher — `src/src/health.rs`

Collects the checks of one host once, from units, jobs and its own network, and publishes
the result to Gatus. Keeps nothing between two runs.

### Supply graph — `src/src/supply.rs` (partly)

*State* a graph merged from several producers' documents. *Operations* merge, report
gaps, walk, forecast a budget. *Hard* producers that disagree, say null or come in
another order. *Correct when* the order decides only whose value is kept, and a walk
lists exactly what is within its depth.

### Topology, validation, derived facts (partly)

`topology.rs` and its parts are the types, `validate.rs` and its parts the checks,
`accessors.rs`, `publication.rs`, `management.rs` what consumers derive. A topology is
loaded only if every check passes. *Hard* a consumer combines facts that were checked
apart: an endpoint's substitute with an ingress group, a destination with the sites,
Pages and records of a zone. *Correct when* what was accepted can be derived from.

### Front end — `cli.rs`, `main.rs`, `pkl.rs`, `pkl_to_nix.rs`

Parse arguments, call the Pkl evaluator, print. `gpu.rs`, `review_pin.rs` and
`forge.rs` are lookups and queries of a remote service.

The hazards of all components, with the lines where they bite and the
properties that cover them so far, are listed in `PROJECT.json`.

## 2. Plan

| # | module | models | abstract specification / main properties |
|---|--------|--------|-------------------------------------------|
| 1 | `TrainOps`, `TrainEngine`, `MCTrain`, `MCMethods` | the engine — **done** | invariants, isolation, fence, aging, liveness |
| 2 | `TrainOpsProofs`, `TrainProofs` | theorems about the engine — **done** | `Typing`, `Invariance` and what follows |
| 3 | `Coordinator`, `Ledger`, `MCCoordinator` | `runtime.rs`: loop, planners, workers, journal, archive, waiters, crash and restart, failed saves — **done** | implements `Ledger`; each durable train is sound; roots cover live requests; preparations end |
|   | `CoordinatorProofs` | theorems about the service — **done** | `ServiceInvariant`, `RootsInv`, the queue, the refinement |
| 4 | `Rollover`, `MCRollover` | `rollover.rs` and the service around it, stopped anywhere — **done** | archives, roots; completed by repetition (refuted) |
|   | `RolloverProofs` | theorems about the handover — **done** | `NoRootIsLost`, `NoEvidenceIsLost` |
| 5 | `McpReconcile`, `MCMcp` | `mcp.rs` — **done** | what it wrote keeps its owner; foreign entries stay; two promises of the journal (refuted) |
|   | `McpProofs` | theorems about the reconciler — **done** | `OwnersStay`, `UsersKept` |
| 6 | `SidecarCache` | `cache.rs`, `lib.rs` of the sidecar — **done** | a hit is the rendering of the current files |
|   | `SidecarProofs` | theorems about the cache — **done** | `EntriesSound` |
| 7 | `TrustObserver` | `trust/` and its commands in `cli.rs` — **done** | no contradicted key; no decision or declaration lost that a process knew of |
|   | `TrustProofs` | theorems about the observer — **done** | `KeysStand`, `TrustLosesOnlyMissed` |
| 8 | `Preparation` | `preparation.rs` — **done** | a pass is proved by artifacts that exist |
| 9 | `Supply`, `SupplyInstance` | `supply.rs` — **done** | order of documents; walk against distance by definition |
| 10 | `Placement`, `Naming`, `Routing`, `Topology`, `TopologyInstance` | validation and accessors — **done** | what is accepted can be derived from |
| 11 | `MCTools` | the components 4 to 10, one run | section 5 |
|   | `ToolsProofs` | theorems about preparations, a loaded topology, the supply graph and the composition — **done** | `PassesAreProved`, `LoadedDials`, `LoadedNames`, `LoadedStarts`, `DocumentsDecide`, `WalkIsExact` |

Every invariant and action property that a passing run checks is stated by a theorem; liveness
stays with TLC.

## 3. The engine

### Correspondence

`TrainOps` holds the methods as operators over one value `t`. Where a method can
return `Err`, `CanM(t, ...)` says when it returns `Ok`; `M(t, ...)` is the train
afterwards. An `Err` leaves the train unchanged in the code (the checks precede the
assignments, and the service works on a clone), so a refused call is no step.

| code | specification |
|------|---------------|
| `Train`, `RequestRecord`, `Node`, `Definition`, `Fence`, `Dispatch` | sets of records of the same names; `Dispatch` is `Dispatched` |
| `BTreeMap` of requests / nodes | functions to a record or `None` |
| `NodeState::Running { serial }` | `state = "Running"` and the field `serial` |
| work lists of `needed`, `retained_graph`, `submit` | `Closure(from, next)`, the least closed set |
| `validate_graph` (Kahn) | `ValidGraph`: every set of goals has a minimal one |
| tuple ordering in `dispatch_where` | `Priority`, `Precedes`, `Choices` |
| `saturating_sub` on the clock | `Waited` |
| `checked_add` on `sequence`, `dispatch_serial` | refusal at `MaxSequence`, `MaxSerial` |
| fence token `"<attempt>-<sequence>"` | the pair of both |

`TrainEngine` is the state machine: `train`, the receipts of outstanding `workers`,
the `stale` receipts of workers from before a restart, and the caller's `clock`. One
action per method. The caller is modelled only as far as the methods rely on it: it
gives each value `dispatch` returns to a worker, and reports the worker's end with
`finish`, once. `ReconcileAct` is a restart: any subset of the known goals may be
valid in the store, outstanding workers become stale, and their receipts may still
arrive.

Left out because no property depends on it: error texts (an `Option<String>` is a
Boolean), source revisions, output paths. Paths are part of the evidence that
`submit` compares; `dependencies` stands for that evidence.

### Runs

All runs are in `MCTrain`, or `MCMethods` which extends it: an image `app` built from output `lib` of a derivation
that also has an output `dev`. That is the smallest graph with a dependency, a
shared dependency and two outputs of one derivation.

**train_sharing** (about 26 000 states). Two requests, one for `app` and one for
`app` and `dev`; plans that build everything or restore `app`; two more plans that
`submit` must refuse; dispatch, failure, retry, retirement, restart and late
receipts. Shows:
- `EvidenceClosed`: no node lookup in `needed`, `outcome`, `retire` and
  `dispatch_where` can miss (they index a map and would panic);
- `RunningOwned`: no worker is left without a request;
- `OneWorkerPerDerivation`: two outputs never build at once;
- `InputsPresent`: nothing takes a dependency from under a running build;
- `WorkersMatch`: running goals and outstanding receipts are the same, with
  unchanged definitions;
- `RetryIsolated`, `RetireIsolated`: one request's retry or retirement changes
  nothing of another;
- `JoinNeverAddsWork`: a later plan never gives a prepared request more to do;
- `FailureSurvivesEvidence`: a restart lifts no failure.

Two dispatch serials suffice for a restart and a second generation of one goal, and
for two goals running at once. Two sequence numbers let both requests exist; a
retired identity may come back only while numbers are left. The commands that do not
touch shared evidence (cancel, hold, fence, preparation failure) are in train_methods.

**train_methods** (about 242 000 states) asks two questions, and a behaviour one of them
(`question`), so the run explores the sum of the two.

- "methods": every method, with two goals, two identities of which one may arrive as an
  activating or as a non-activating request, two placement predicates. `MaxSequence = 3` lets
  two requests and a fence, or a superseded, retired and re-registered request, exist; the
  limit itself is reached by fences and registrations. Here one dispatch and a clock that
  stands are enough. Shows `TypeOK`, `SupersededStays`, `FenceHolds`.
- "queue": three requests, aging bound 1, a clock that moves both ways between 0 and 1. Shows
  `AgedFirst` (a goal that waited the bound is not overtaken by one queued later) and the
  liveness property `WaitingEnds` (an admitted, prepared request whose train is not fenced
  becomes ready, fails, or is taken back). Without retry and restart three goals need at most
  three serials, so with `MaxSerial = 4` the exception for an exhausted counter is never used.
  Without retry, too, only finitely many goals can pass a waiting one; that no shared goal
  passes an aged one, however often it comes back, is what `AgedFirst` says.

**train_cleared** expects a violation, see Findings.

No run checks deadlock: a train whose requests are all done, or whose bounded
counters are used up, has nothing left to do.

*Fairness* (the queue of train_methods only): weak fairness of `DispatchAct` with every goal
eligible, because the service's loop asks for work on every turn until `dispatch`
has none, and of `FinishAct`, because a worker thread reports its realisation's end,
good or bad. Nothing is assumed of clients, the clock or the workers' results.

### Theorems

`TrainProofs` proves, for every finite or infinite set of attempts, targets and
goals, every set of requests and plans and every value of the bounds:

| theorem | property |
|---------|----------|
| `Typing` | `[]TypeOK` |
| `EvidenceStaysClosed` | `[]EvidenceClosed` |
| `RunningStaysOwned` | `[]RunningOwned` |
| `NoSiblingWorkers` | `[]OneWorkerPerDerivation` |
| `InputsStayPresent` | `[]InputsPresent` |
| `WorkersAlwaysMatch` | `[]WorkersMatch` |
| `FenceAlwaysHolds` | `FenceHolds` |
| `RetiringIsolated` | `RetireIsolated` |
| `RetryingIsolated` | `RetryIsolated` |
| `FailuresSurvive` | `FailureSurvivesEvidence` |
| `JoiningAddsNothing` | `JoinNeverAddsWork` |
| `SupersededForGood` | `SupersededStays` |
| `AgedGoFirst` | `AgedFirst`, if every goal is eligible |

*Assumptions* `BoundsAssumption` (bounds are natural numbers), `NoneAssumption`
(`None` is not one of the values it is told apart from), `RequestsAssumption`,
`GraphsAssumption`, `EligibleAssumption` (inputs have their types). Nothing is
assumed of the plans: cyclic, dangling and contradicting ones are refused by
`CanSubmit`, and the proofs use exactly that guard.

*Argument* No property is inductive alone, so they are proved together:

    Inv == TypeOK /\ Sound(train) /\ WorkersMatch /\ ReceiptsFresh

`Sound` is the conjunction of the first four invariants. Its parts need each other:
retirement keeps the nodes some remaining request retains, so a dependency stays
known only if the retained set is closed; a running goal is kept because it is
owned; the inputs of a running build stay complete because a retry resets failed
goals only and a retirement keeps everything a running, owned goal depends on.
`WorkersMatch` needs `ReceiptsFresh`: a receipt from before a restart is refused
because serials are never reused, so its number is not that of the goal's present
generation.

The proof has two layers. `TrainOpsProofs` works on operators alone: for each method
an *effect* lemma (which nodes and flags change) and a *sound* lemma (`Sound(t)`
implies `Sound` of the result). Joins, commands, retries and captures share three
lemmas: `GrowthKeepsEvidence` (evidence only grows), `SameNodesSound`,
`NewStatesSound`. `RetainedKept` says that retirement leaves every other request's
retained graph as it was. `TrainProofs` adds the receipts: `QuietActions` covers all
actions that start and end no work, `DispatchStep`, `FinishStep` and `ReconcileStep`
the others, and `Invariance` combines them.

*What requests do to each other.* Six action properties follow from the same invariant.
`SameEvidenceSameOutcome` is what they have in common: the standing of a request is read
off its own record and the nodes it retains, so a step that keeps both keeps the standing.
`RetireApart`, `RetryApart` and `JoinApart` say which of them a retirement, a retry and a
joining plan leave alone, `CaptureKeeps` that capturing only adds failures; `Keeps` sorts
the other methods (registrations, commands, dispatch, a worker's end), whose lemmas
`RegisterKeeps`, `SubmitKeeps` and `StepKeeps` are shared by the theorems. A retirement may
take a node from under another request only if that request did not retain it, which is
`RetainedKept` again; a retry resets only nodes that failed, which no other request that
counts on them can have as done.

`AgedGoFirst` has the premise `Eligible = {Goals}`: it is about `dispatch`, which passes
every goal. Under a placement predicate (`dispatch_where`) an aged goal that is not eligible
is overtaken, as it should be. The argument is `AgedChoice`: among the candidates `Precedes`
puts aged goals first and orders them by their sequence.

Only model-checked: `WaitingEnds` (liveness under fairness, which stays with TLC).

## 4. The coordinator

### Correspondence

`Coordinator` extends `TrainOps`: the service applies the engine's methods to a clone
of its train, saves the clone and adopts it, so its actions apply the same operators.

| code | specification |
|------|---------------|
| the phases of the `while` loop in `serve` | `at`; "down" when no process runs |
| `train`, `planners`, `workers`, `waiters` | variables of these names |
| `train.json`, `archive/` | `journal`, `archive` |
| GC roots of outputs; of sources and derivations | `roots`; `pinned` |
| `stop` | `stopping` |
| a command between two of its writes | `job` |
| `save(..)?; *train = next` | `Commit(t)`, or `CommitFails(t)` in a command |
| `mpsc` receipts | a thread's end and the taking of its receipt are one step |
| `backend.plan`, `valid`, `realise`, `retain`, `release` | any plan of `Graphs` or failure; any subset of outputs; pinning and releasing one output after the other, failing anywhere |

*Atomicity.* Only the loop changes the train, so a step runs up to the next write. A
command with several writes (intake, retirement) is several steps with `job` between
them, and a crash may come at each. Retention is the one thing that runs beside the
loop and writes: `RetainStep` interleaves with everything.

*Failing saves.* `atomic_write` syncs the directory after the rename, so a save that
reports an error has left the old or the new content. When a command made it the
client gets the error and the train in memory stays; when the loop made it, `serve`
returns, which is a crash with the old or the new journal.

*History.* `told` is the furthest standing of a request that any client may have been
told: replies leave the service after the batch, and the batch may have held a Status
of every request. `handover` is what `Client::drain` knows: the fence it was given and
whether it has seen that nothing runs.

`RepeatAct` is the client that lost its reply and sends its request again.

`Ledger` is the abstract promise about identities: each is unknown, live or retired
with a verdict; what nobody was told may be lost in a crash, what a client was told
is never taken back. `LedgerKept` is `Ledger!Spec` under the mapping `standing <-
DurableStanding` (the journal first, then the archive).

### Runs

All runs are in `MCCoordinator`, with one planner slot and one waiting client per
request.

**coord_life** (about 480 000 states, reduced by the symmetry of the two attempts).
Two requests for one output, `QueueLimit = 1`: registration, planning, retention,
repetition, cancellation, retry and retirement, while the service crashes anywhere
and saving, pinning and releasing fail. Nothing is built, so all of a request's life
that needs no worker is explored with every failure. Shows `TypeOK`; `ThreadsKnown`
(a receipt finds its request, which the loop indexes unchecked); `RootsOwned` (nothing
is pinned that the journal or an unreleased archive does not own, so no root is ever
orphaned); `RootsHeld` (what is prepared is pinned); `QueueBound` (for commands);
`LedgerKept`. The symmetry is sound: the requests differ in their attempt only, and
none of the run's properties is a liveness property.

**coord_work** (about 860 000 states). Two requests, for the image and for `dev`, two
workers; admission, dispatch, completion with any sibling evidence, and an owner that
fences, drains and releases; crashes and failing saves. Three sequence numbers are two
requests and a fence; three dispatch serials are two builds and one more after a
restart. Shows `TrainsSound` (the engine's four invariants hold for the train in
memory and for the one on disk, at every point where the service may stop),
`BuildsJournalled`, `RootsHeld`, `HandoverQuiet`.

**coord_turns** (about 97 000 states, liveness). Deadlines, clients that hang up,
cancellation and stopping, with two requests for one planner slot. Shows
`PreparationEnds` and `StopEnds`.

**coord_panic** and **coord_sibling** expect violations, see Findings.

No run checks deadlock: a service that is idle, or down for good, has nothing to do.

*Fairness* (coord_turns only). `SF(PlannerReturns(a))` and `SF(WorkerReturns)`: every
thread of the backend returns and its receipt waits in a channel until the loop's next
receive phase; strong, because the phase is left and entered again. `SF(Turn)`: the
loop goes on; strong, because commands interrupt it, and a batch of commands is finite.
`WF` of the end of an intake, which is the same call. Nothing is assumed of clients,
of the results of plans and builds, or of deadlines. A thread that never returns is
outside this assumption: the deadline then answers the clients, the slot stays taken.

coord_turns has no Retry: planners are started by the requests' sequence numbers and a
retry keeps its number, so a client that retries an old request again and again can keep a
younger one from being prepared.

### Theorems

`CoordinatorProofs` proves, for every set of requests, plans, commands and failures and
every limit:

| theorem | property |
|---------|----------|
| `ServiceTyped` | `[]TypeOK` |
| `ServiceTrainsSound` | `[]TrainsSound` |
| `ServiceBuildsJournalled` | `[]BuildsJournalled` |
| `ServiceThreadsKnown` | `[]ThreadsKnown` |
| `ServiceHandoverQuiet` | `[]HandoverQuiet` |
| `ServiceRootsOwned` | `[]RootsOwned` |
| `ServiceRootsHeld` | `[]RootsHeld` |
| `ServiceQueueBound` | `QueueBound` |
| `ServiceImplementsLedger` | `LedgerKept`, that is `Ledger!Spec` |

*Assumptions* those of the engine's constants, `InputsAssumption` (requests and plans
have their types), `LimitsAssumption` (limits are natural numbers) and
`AbsenceAssumption` (`None` is none of the records it is told apart from).

*Argument* The first five follow from `ServiceInvariant`, `Spec => []IInv`. `IInv` strengthens the
five properties by what they need of each other:
- `Good`: each record of a train is filed under its own attempt, so a plan that joins
  updates the request it was made for;
- `WorkersApart`: no two builds have the same goal and the siblings of a build share its
  derivation, so the evidence taken at a build's end completes no other running goal;
- `Rooted`: the plan of a request whose retention runs has joined, so `prepared` may be
  set when it ends;
- `DownClean`: nothing is in memory while no service runs, so a restart finds no build;
- `JobSound`: a command between two writes finds its request as its guards left it. This
  is where the single loop is used: only a service that takes commands has such a job.

`Keeps(t, u)` is what the methods of the engine have in common: u runs what t runs and
knows the requests that are left, and their roots, as well as t did. A lemma per method
(`RegisterKeeps`, ..., `PlanKeeps`) gets it from the engine's lemmas. `StepKinds` then
sorts all actions into five kinds: quiet ones, whose two trains each keep the one in
memory, the end of a build, the start of a build, the loss of the memory, a restart.
Trains, builds and fence are argued over these kinds only; types, threads and jobs
over the actions.

The refinement needs one more invariant, `LedgerOK`, inductive together with `IInv`.
Clients are answered from the train in memory while the ledger's standing is read off
the disk, and after a failed save the two differ: a request may be in the train and no
longer in the journal (its retirement was written but reported failed) or in the journal
and not in the train (its registration was). `LedgerOK` says which differences can
occur: whatever the train still holds is in the journal or archived, and a request that
is archived and gone from the train is gone from the journal. The first makes "Live" a
true answer, the second a verdict. Every step then satisfies `Ledger!Next`: `told`
moves forward (`LedgerStep`) and the standing follows it.

*Roots.* `RootsOwned` and `RootsHeld` follow from `RootsInv`, inductive together with `IInv`.
A root is written before or after the train that justifies it, and either write may be the
last one before a crash; so ownership is stated of the journal and, while the service is
up, of the train in memory too (`OwnedIn`), and `Covered` relates the two. `JobHeld` is the
retirement between its writes: the archive holds what the train retains until the request
has left both trains, and only then do its roots go. `EvidenceKept` and `PreparedKept` say
what a method leaves of a request's retained graph: it grows until the request is prepared
and stays as it is afterwards, which is why what was pinned at the end of the preparation
remains enough.

*The queue.* `QueueBound` counts, so it needs that the sets are finite: `Few`, inductive
because each step takes in at most one request. A lemma per method (`RegisterWaits`,
`CommandWaits`, `RetryWaits`, `RetireWaits`, `FenceWaits`) says that no request starts to
wait but the one the command names, and `QueueStep` adds the limit that `apply` checks.

Model-checked only: `PreparationEnds` and `StopEnds` (liveness).

### Findings

`ClearedOnlyByRetry` (run train_cleared). The comments in `mod.rs` say that a
captured failure is cleared only by that request's own retry (lines 387 and 564).
`submit` clears it too (line 276): a request that failed and is submitted again goes
from Failed back to Pending, or to Ready once others have built its goals. The
coordinator answers a repeated submission from its records and never gets there; a
caller of the library does.

`CommandsKeepService` (run coord_panic). After a batch of commands, line 802 of
`runtime.rs` indexes `train.requests` by every waiting attempt. A registration that
waits, a Cancel and a Retire of the same attempt that arrive together leave a waiter
without a request, and the service panics; `coord_life` explores what follows
(`FlushPanic`): the journal and the archive are in order and the next start goes on.

`FailureLasts` (run coord_sibling). `capture_failures` runs when a node fails, when
the store's evidence is taken at a restart and at a retry, but not where line 702 of
`runtime.rs` takes the sibling evidence of a worker. A request that joins on an output
that had failed before has no failure recorded; when the worker of a sibling output
finds that output in the store, the request goes from Failed to Ready without a retry.

Seen while reading, without a run: `README.md` of the module says that roots are
"retained before journal admission" (line 62), while `apply` journals an intake before
it retains (its comment at line 979 says why, and `RootsOwned` depends on it).

## 5. The other components

Seven components share no variables with the train and none with each other. Each is a
module with its own `Init`, `Next` and properties. `MCTools` extends `Rollover`, so that
the run checks the very definitions its theorems are about, and instantiates the other
six, with small constants. A behaviour picks one component (`tool`) and runs only that
one, so one run explores the sum of the components and not their product.

**tools** (about 384 000 states, symmetric in the two observers and in the three callers
of a preparation, whose properties are all about safety). Deadlock is not checked: a
topology that was loaded, or a source that nobody edits, has nothing left to do.

### Rollover

| code | specification |
|------|---------------|
| `train.json`, `archive/`, `rollover.json` with its snapshot, receipts, pinned outputs | `journal`, `archives`, `marker`, `receipts`, `pins` |
| the leases of state directory and socket | `run`: one process at a time, with the place it has reached |
| `serve`, `apply` | `ServiceStart`, which retains the roots of every record; `Intake`, `IntakeFails`, `IntakeStops`; `Settle`, `Reopen` |
| `fence`, `release_fence` | `SetFence`, `ReleaseFence`, by owner and token; the owner cannot be retired |
| `retire` | `RetireArchive` to `RetireFails` |
| `rollover`, first call | `Begin`, after checking that the journal is fenced and every request has ended |
| `rollover`, repeated | `Resume`, then every loop from its start |
| the two loops | `NextTombstone`, `TombstoneRelease`, `TombstoneSeal`; `ArchiveRequest`, `Release`, `Seal` |
| the end | `Publish`, `Receipt`, `Unmark` |

`Stop` ends any run between two writes; a write that reports an error after it replaced
the file is a stop after that write. An intake saves the record first and retains the roots
then: retaining may fail half way, with a record that stays as failed, or as pending if that
cannot be saved either, and the service may die in between; its next start retains again.
`EvidenceKept`: a request leaves the journal only into an archive with the outcome it had, a
released archive never changes, and no roots are released of a request without an archive.
`RootsAccounted`: a ready request has its roots until it is archived, and every pin has
somebody who will release it.

Two requests, two tokens and two stops: a stop in a retirement of one request and one in
the handover, which is what an old archive needs to meet a new snapshot.

**rollover_stuck** expects a violation of `HandoverCompletes`, "a marked handover gets
done". *Fairness* weak, of `Advance` (a process that is not stopped goes on, and there is
a bound on stops) and of `Resume` (the owner repeats the exact call, as the comment asks).

### Preparation receipts

One key, since tasks of different keys share nothing. A caller waits, gives up, holds the
lease, works, records, and may die anywhere; the kernel frees a dead caller's lease.
`Collect` takes artifacts from under receipts, `Meddle` leaves a receipt that does not
parse or that no run writes, or removes it. `PassedIsProved` says that exactly the holder is past the
lease, and that an answer "passed" names an artifact of a run that passed and that existed
since the caller had the lease. It cannot say "that exists now": the caller gets no root.

The instance has three callers (one works, one waits, one comes late) and two artifacts.

### MCP reconciler

| code | specification |
|------|---------------|
| `Destination` (file, root in it) | a member of `Places`; `FileOf` its file |
| a JSON or TOML document | a function from keys to values |
| `State`, names `n` and `n@retired:<hash>` | `ledger`, labels `<<n, None>>` and `<<n, p>>` |
| lines 245 to 376 of `mcp.rs` | `Edited`, `Stripped`, `Foreign`, `After`, `Final`, `Pending` |
| the checks and writes of lines 395 to 409 | `SavePending`, `CheckFile`, `Refuse`, `Replace`, `SaveFinal` |

Users edit at any step (`ForeignEdit`), also between the check of a file and its
replacement. `OwnersKept`: an entry the reconciler wrote and nobody touched is owned by a
record that accepts its value, and no step takes that owner away, whatever stopped and whatever
manifest comes next, but the one step that **mcp_moves** is about. `ForeignKept`: a value found is replaced or removed only if the reconciler wrote it or was
told to take it. The instance moves one target between two files, with a change, an
adoption, a retirement and its removal.

Runs may stop as often as they like. The one step that `OwnersKept` excepts is the journal of
a move in which line 325 puts the current record of a target under a label that an older
record of the same place has (`Overwrites`).

**mcp_moves** expects a violation of `Accounted` (between the runs, what the reconciler wrote
and nobody touched has an owner), with a target that moves away, back and away again.

**mcp_journal** expects a violation of `JournalAccepts`, with a target that is renamed.

### Sidecar cache

`Script` gives, for each content of the source, the reads its evaluation makes: the same
file twice, a file that may be absent, an existence test and a read, an environment
variable. The world (source, imported file, setting, build of the program) changes between
any two steps. `EntrySound`: an entry that a lookup would accept now renders the world as
it is now. Exempt is an evaluation in which a file was read twice and had changed in
between (`torn`): the recorder keeps the later hash, so the entry may mix two states of a
file; `cache.rs:231` is listed as a hazard for it.

### Trust observer

Two processes, each an observer with prompts or a command, over two lines that name the
fleet host `web` (written with a port) together with `git`, one with web's own key
and one with another. Every file operation is a step and may fail. Where the code takes a file it
cannot read for an absent one (`state.rs:28`, `patch.rs:46`), the model does too: `Scan`,
`IgnoreLoad` and `PatchRead` get what the file has, or nothing. `HostKeysStand`: the line with
the other key never gets into `Trust.pkl` or the sidecar. The code has no lock, so decisions and
declarations can be lost. `OnlyMissedLost` says which: a process that replaces a file takes
away only what it could not know of (`missed`), that is what another process added since it
read or wrote the file, or what the file had when it could not be read. In particular a
decision is added to all that were read, a patch keeps every entry that was read, and a
rollback takes away nothing but the entry its integration added.

### Supply

`Merge` is a document, in the order of the command line; seven documents, taken three at a
time with repetition, agree, disagree, say null, dispute a kind and tie a contract.
`TypeOK`: no null is ever in the graph. `OrderFree` compares every graph with the one of
the reversed documents: the conflicts are the same; without one the gaps are the same; a
forecast is the same or refused in both. Edges are merged by source, target and kind, so the
enrollments of a repository are those of different orchestrators, and the sums over them are
sums over orchestrators. `WalkExact` compares the breadth-first loop with
the set of nodes within n hops, for every root, direction and depth up to three.

### Topology

`Topology` is the loading: a file holds one of `TopologyFiles`, `Load` accepts it if every
check passes. The checks are in `Placement` (hosts, links, management, intents, local
access, supply), `Naming` (zones and writers) and `Routing` (endpoints, sites, catalog),
each next to what consumers derive. `TopologyInstance` has one base topology and seven
families that vary one part each, sound and unsound: links, dependencies, proxies with
fallbacks over two ingress hosts, names and writers, probes, shared policies, managed zones.
`Dialable` (every ingress host can dial every endpoint of every route over one transport),
`OneWriter` (a static name has exactly one writer) and `StartOrder` (Kahn's loop accepts
exactly what can be ordered) relate parts that the checks look at apart.

### Findings

`HandoverCompletes` (run rollover_stuck). `retire` writes the archive before the journal.
If it stops in between and the request then changes (a retry), the archive keeps the old outcome.
A rollover over this directory releases that archive's roots, then finds that it differs from its
snapshot (`rollover.rs:273`) and ends with an error, in every repetition. The marker is
there by then, so the service does not start either.

`JournalAccepts` (run mcp_journal). MCP.md promises at line 102 that the journal accepts the
values before and after. The value before is looked up in the document from which the entries
of names that are gone have just been removed (`mcp.rs:272`, `287`), so for a renamed target only
the new one is journalled. After a stop the next run takes the old value for an edit.

`Accounted` (run mcp_moves). The comment at line 324 of `mcp.rs` says that a moved destination is
kept in the journal until its old entries are removed. The label it is kept under,
`name@retired:<destination>`, is overwritten if it is taken. A target writes an entry here; it is
moved there, and the run stops after the journal; it is declared here again without the entry,
and that run stops too; it is moved there again, and the journal replaces the retired record,
which owned the entry, by one that does not. Every later run takes the entry for a user's.

Seen while reading and modelling, without a run of their own:

- `validate.rs` 1255-1289: a managed zone must be listed in `zones` and may not be listed
  twice over both lists, so no topology with managed zones is accepted. `DomainsSound` says so.
- `accessors.rs` 266-271: a managed site at a zone's apex without a destination gets a CNAME to
  itself.
- `validate.rs` 454 compares hostnames of sites by spelling, while the writers of names compare
  without case; `OneWriter` is therefore about sites that differ in more than case.
- `supply.rs` 642: a runner nobody offers is not reported when absent usages and a node
  without a repository depend on it.
- `supply.rs`: a forecast passes over a workflow to which an earlier document gave another kind;
  `OrderFree` exempts kinds in dispute.
- `state.rs` 28 and `patch.rs` 46 take any error of reading for a missing file. The decisions are
  then replaced by a new baseline (`cli.rs` 555) or a single one, and `Trust.pkl` by a default
  file with one entry, which a rollback removes. `OnlyMissedLost` counts these as missed.
- `cli.rs` 650 and 726: without a decisions file `unwrap_or_default` saves version 0, which
  every later load refuses (`IgnoreLoad`, `Supported`).
- `trust/mod.rs` 66: a declaration written `[host]:port` is looked up without brackets, so its
  line is proposed for ever.
- `cli.rs` 1026-1034: an export validates one evaluation and writes a second one.

### Theorems

They hold for any number of requests, tokens, callers, artifacts, targets, documents, entries,
sources, files and stops; **tools** checks the same formulas on two or three of each. Each
module assumes `ConstantsSound` of its component: what stands for "nothing" is none of the real
values, inputs have their types, bounds are numbers. Beyond that

- `TrustObserver` assumes of `Plain`, which takes the brackets off a host, that doing it twice
  does no more than doing it once;
- `Topology` assumes that a file is a record of the parts that validation reads (`WellFormed`),
  which is what decoding the JSON gives, and `Supply` the same of the lists in a document.

`tools.cfg` gives every constant its value, and the run evaluates all of these assumptions
(`RolloverAssumption`, `ToolsAssumption`).

| module | theorem | property |
|--------|---------|----------|
| `RolloverProofs` | `NoRootIsLost` | `[]RootsAccounted` |
| | `NoEvidenceIsLost` | `EvidenceKept` |
| `McpProofs` | `OwnersStay` | `OwnersKept` |
| | `UsersKept` | `ForeignKept` |
| `SidecarProofs` | `EntriesSound` | `[]EntrySound` |
| `TrustProofs` | `KeysStand` | `[]HostKeysStand` |
| | `TrustLosesOnlyMissed` | `OnlyMissedLost` |
| `ToolsProofs` | `PassesAreProved` | `[]PassedIsProved` |
| | `LoadedDials`, `LoadedNames`, `LoadedStarts` | `Dialable`, `OneWriter`, `StartOrder` of a loaded topology |
| | `DocumentsDecide` | the same conflicts, gaps and forecast for any two lists of the same documents; gives `OrderFree` |
| | `ToolsKeepOwners`, `ToolsKeepForeign`, `ToolsEntrySound`, `ToolsKeysStand`, `ToolsLoseOnlyMissed`, `ToolsPassesProved`, `ToolsDialable`, `ToolsOneWriter`, `ToolsStartOrder`, `ToolsOrderFree`, `ToolsWalkExact` | the same of the composition, which is what **tools** runs |

`ToolsTyped` (`ToolsTypeOK`) combines the types of the components, which are proved with them
(`HandoverTyped`, `ReconcilerTyped`, `CacheTyped`, `TrustTyped`, `SupplyTyped`).

*Rollover.* `NoRootIsLost` (`RootsAccounted`), `NoEvidenceIsLost` (`EvidenceKept`), `HandoverTyped`.
Neither property is inductive: that the journal may be replaced depends on what the loops
before it did. The invariant says how far each loop has come.

| part of `IInv` | why it is needed |
|----------------|------------------|
| `Exclusive` | the service runs without a marker, the handover with one |
| `Marked` | the journal is the snapshot's or the replacement; every pin belongs to a record of the snapshot or to an archive it found unreleased, so the two loops between them meet all pins |
| `Freed` | a released archive has no pin: a loop that skips it skips nothing |
| `Retiring` | a retirement takes out a record that is archived as it stands |
| `Entombing` | the pins of interrupted retirements are among the work left |
| `Archiving` | the pins are among the work left, and what is no longer left is archived with the snapshot's outcome |

When the work left is empty, `Archiving` gives no pins and complete archives, which is
what `Publish` needs. Every write of archives is one of two operations (`AddedIs`,
`SealedIs`), and the steps that leave the files alone are one lemma (`RunSteps`).

*Reconciler.* `RunInv` is about one run: what is on its way into the ledger is claimed
(`Claimed`), the journal saved first accepts what the run will write (`Journals`), and the
documents it writes differ from those it read only where the manifest permits (`Permitted`).
That gives `UsersKept`. `OwnersStay` also needs `MineInv`: an entry the reconciler wrote is, while
a run is under way, as that run read it or as it writes it, depending on whether its file's turn
has come, and goes if it has an owner and no target wants it. The hard step is the saving of the
journal: a record keeps its label, is the current record of a target that moves and gets the
label of the place it leaves, or was under that label. Only the last loses it, which is what
`OwnersKept` excepts.

*Cache.* `CacheInv`: the snapshot recorded with an entry answers the program's reads as they
were answered (`Recorded`), unless the evaluation is torn; `CallRecorded` is the step that adds
a read. `CurrentRenders` turns that into `EntrySound`: a snapshot that still matches gives every
read the answer it gave then, one after the other, so the same rendering.

*Observer.* `KeysInv` follows the key through the files and through what a process holds and
is about to write. `FreshInv` says that between reading and writing a process knows all that a
file has but what it missed: every write of another process adds to that. Both
processes' steps are split by `ProcAct`, one lemma per step, so nothing depends on their number.

*Preparation.* `PassesAreProved` (`PassedIsProved`). An answer comes from the receipt or from the
caller's own work: the receipt names only artifacts of runs that passed (`Recorded`), what
exists while a caller has the lease existed since it had it, because nobody else works
meanwhile (`Watched`), and what is recorded is an artifact (`Results`).

*Topology.* `LoadInv`: what is loaded was accepted. The rest is about what acceptance implies,
and relates checks made apart from each other. `LoadedDials`: the endpoint that stands in for
one that an ingress host cannot reach is itself of the accepted kind and in reach
(`DialedEndpoint`). `LoadedNames`: a static name has a writer because it is in a zone
(`ZoneIsPrefix`, `ApexIsZone`), and only one because destinations and sites are kept apart by
zone (`DestinationWriters`, `SiteWriters`).

`LoadedStarts` is the correctness of Kahn's loop. The loop is a function of the number of turns
(`Turns`), so that `TurnsAre` and `Upwards`, induction over a set of naturals, can follow it.
`TurnInv` says what a turn keeps: what is done is what has no dependency left and is not in the
queue (`Started`), every count is the number of edges from what is not done (`Open`; a
dependency listed twice is two edges), and what is done has an order. When the queue is empty,
every intent that is left depends on another that is left, so none of them can be first.

*Supply.* What a graph says is the set of statements (a producer's node or edge) that its
documents make, and `Told` is how: a node is there if somebody states it, with one of the
kinds stated; an attribute is there if somebody states it other than null, with one of the
values stated (`AttrsTold`); the expectations and blockers are all those stated; each edge is there
once; and what is in conflict is exactly what two statements contest (`ConflictsTold`). A merge
adds one statement at a time to that (`EntryMerged`, `Contests`, `MergeTold`), whatever the
order, and building is a function of the number of documents (`BuiltIs`, `BuildTold`). The
invariant is `GraphInv`: the graph is free of nulls, with a list of edges over finitely many
nodes (`GraphSound`), and `Told` of the documents read. `SupplyTyped` and `ToolsWalkExact` need
only the former; the latter's lemma `WalkIsExact` holds for any depth.

`DocumentsDecide` is about any two lists of the same documents, in any order and with any
repetition, of which `OrderFree` is the reversed one. Two graphs of the same statements are
`Alike`: they have the same conflicts (`SameConflicts`), nodes and edges, and differ only in
contested values, in the order of their edges and in whom they name for what several stated.
Where nothing is in conflict the attributes are the same (`AttrsAgree`), so each rule of the
gaps reports the same (`SameCoverage`, `SameDependentGaps`, `SameStated`, `SameGaps`). A
forecast also reads past conflicts elsewhere: the same workflows are in dispute (`SameDisputed`),
a budget with one fails in both graphs, and what an undisputed one reads is not contested
(`SameFigures`, `SameBudget`, `SameForecast`). Where documents disagree on kinds, the first
kind decides what is a workflow at all, which is why forecasts are compared only where they agree.

The walk is a function of its turns, as Kahn's loop is, and a turn one of the edges it has
followed (`WalkedIs`, `PushedIs`). `WalkInv` says what a turn keeps: what was found, listed or
still in the queue, is a list without repetition (`Found`), nearer nodes first, each at its
distance; the neighbours of what is listed were found (`Followed`); and nothing found is more
than one hop behind the front of the queue. The last is why a node found next can be put at the
end; that it was not nearer is `NearFound`: when all nearer nodes are listed, all that can be
reached in fewer hops was found. Nobody is found twice, so after as many turns as there are
nodes the queue is empty (`FoundFew`), and what was found is what the depth reaches (`WalkEnds`).

*Composition.* A step of `MCTools` is a step of one component or a stutter of it
(`ComponentSteps`), and the constants and operators of the instances are those that the proof
modules instantiate (the `ProvedSame` lemmas), so each theorem carries over.

Model-checked only:

- liveness: `WaitingEnds` of the engine, `PreparationEnds` and `StopEnds` of the service, which
  hold under fairness;
- the properties of the six runs that expect a violation.

## 6. Not modelled, and why

- `runtime/ipc.rs`, `runtime/wire.rs`: socket plumbing. That a reply may be lost and the
  command repeated is part of `Coordinator`.
- `native.rs`: drives the `nix` command line; the coordinator takes it as its environment,
  failing anywhere.
- `build_train/cli.rs`, `main.rs`, `pkl.rs`, `pkl_to_nix.rs`, most of `cli.rs`: arguments,
  output, the call of the evaluator.
- `health.rs`: one pass over the checks of a host, sent off; no state, nobody to interleave with.
- `gpu.rs`, `review_pin.rs`, `forge.rs`: lookups and remote queries without state.
- Checks of one text or number in `validate.rs` (names, paths, storage, GPU inventory, VPN
  profiles) and its warnings: nothing else depends on them, and unit tests reach them.
- In `supply.rs` the reduction candidates and the age of documents; of the sidecar the
  file it renders to, which nothing reads back, and directory permissions.
- Durable replacement appears as what a caller sees of it: after an error the file has the
  old or the new content.

## 7. Running

    tlc -config train_sharing.cfg MCTrain
    tlc -config train_methods.cfg MCMethods
    tlc -config coord_life.cfg MCCoordinator
    tlc -config tools.cfg MCTools
    tlc -config rollover_stuck.cfg MCRollover
    tlc -config mcp_journal.cfg MCMcp
    tlc -config mcp_moves.cfg MCMcp
    tlapm TrainOpsProofs.tla
    tlapm TrainProofs.tla
    tlapm CoordinatorProofs.tla
    tlapm RolloverProofs.tla
    tlapm McpProofs.tla
    tlapm SidecarProofs.tla
    tlapm TrustProofs.tla
    tlapm ToolsProofs.tla
