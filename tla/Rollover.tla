------------------------------ MODULE Rollover ------------------------------
(***************************************************************************)
(* The offline handover of a train to another policy                       *)
(* (src/src/build_train/runtime/rollover.rs), together with the service    *)
(* that owns the same directory before and after it, and that may have     *)
(* left retirements unfinished.                                            *)
(*                                                                         *)
(* Whoever runs holds the leases of the directory, so the service and the  *)
(* handover exclude each other; what they share are the files: journal,    *)
(* archives, marker, receipts, and the pins of the store.  A run ends at   *)
(* any point (Stop), by a crash or by a write or a release that failed.    *)
(* Left out: the fields a record carries besides its outcome, running      *)
(* builds (a request with one is Pending here), and the identity of the    *)
(* snapshot, which the marker stands for: its file is reached through the  *)
(* marker only, and checked against its digest.                            *)
(***************************************************************************)
EXTENDS Naturals, Functions

CONSTANTS
    Attempts,
    Tokens,     \* the fence tokens owners use
    None,
    MaxStops    \* bound on interrupted runs

Policies == {"old", "new"}
Ended == {"Ready", "Failed", "Cancelled"}
Outcomes == {"Pending"} \cup Ended

Partial(S, T) == UNION {[D -> T] : D \in SUBSET S}
Without(f, a) == Restrict(f, DOMAIN f \ {a})
With(f, a, x) == [b \in DOMAIN f \cup {a} |-> IF b = a THEN x ELSE f[b]]

VARIABLES
    journal,    \* train.json
    archives,   \* archive/<attempt>.json
    pins,       \* the requests whose roots the store holds
    marker,     \* rollover.json with the snapshot it names, or None
    receipts,   \* rollovers/*/receipt.json
    run,        \* the process that holds the leases and where it stands
    stops       \* runs interrupted so far

vars == <<journal, archives, pins, marker, receipts, run, stops>>
files == <<journal, archives, pins, marker, receipts>>

Fence == [attempt : Attempts, token : Tokens]
Journal == [policy : Policies, records : Partial(Attempts, Outcomes),
            fence : Fence \cup {None}]
Archive == [policy : Policies, outcome : Outcomes, released : BOOLEAN]
Marker == [token : Tokens, train : Journal, archives : Partial(Attempts, Archive)]

ConstantsSound == MaxStops \in Nat /\ None \notin Tokens \cup Marker

ASSUME RolloverAssumption == ConstantsSound

\* `at` is the next thing the process does; `now` is the request it is
\* doing it to, `todo` the requests of the current loop still to come.
Steps == {"Idle", "Service", "RetireJournal", "RetireRelease", "RetireSeal",
          "Tombstones", "TombstoneRelease", "TombstoneSeal",
          "Requests", "Release", "Seal", "Journal", "Receipt", "Unmark"}
Run == [at : Steps, now : Attempts \cup {None}, todo : SUBSET Attempts]

Idle == [at |-> "Idle", now |-> None, todo |-> {}]

NewJournal(p) ==
    [policy |-> p, records |-> [a \in {} |-> "Ready"], fence |-> None]

Init ==
    /\ journal = NewJournal("old")
    /\ archives = [a \in {} |-> NewJournal("old")]
    /\ pins = {}
    /\ marker = None
    /\ receipts = {}
    /\ run = Idle
    /\ stops = 0

Goto(step) == run' = [run EXCEPT !.at = step]
Records == journal.records

-----------------------------------------------------------------------------
(* The service on either side of the handover.                             *)

\* serve refuses to start over a marker, and retains what the journal owns.
ServiceStart ==
    /\ run = Idle
    /\ marker = None
    /\ pins' = pins \cup DOMAIN Records
    /\ Goto("Service")
    /\ UNCHANGED <<journal, archives, marker, receipts, stops>>

ServiceStop ==
    /\ run.at = "Service"
    /\ run' = Idle
    /\ UNCHANGED <<files, stops>>

\* Admission: the record is saved, then the roots are retained; an archived
\* identity is not used again.  A fence stops dispatch, not registration.
CanIntake(a) == run.at = "Service" /\ a \notin DOMAIN Records \cup DOMAIN archives

Intake(a) ==
    /\ CanIntake(a)
    /\ journal' = [journal EXCEPT !.records = With(Records, a, "Pending")]
    /\ pins' = pins \cup {a}
    /\ UNCHANGED <<archives, marker, receipts, run, stops>>

\* Retaining fails, after some of the roots or none: the record stays, as
\* failed, or as it was if saving that fails too.
IntakeFails(a, o) ==
    /\ CanIntake(a)
    /\ o \in {"Failed", "Pending"}
    /\ journal' = [journal EXCEPT !.records = With(Records, a, o)]
    /\ pins' \in {pins, pins \cup {a}}
    /\ UNCHANGED <<archives, marker, receipts, run, stops>>

\* The service dies with the record saved and the roots not all retained.
IntakeStops(a) ==
    /\ CanIntake(a)
    /\ journal' = [journal EXCEPT !.records = With(Records, a, "Pending")]
    /\ pins' \in {pins, pins \cup {a}}
    /\ run' = Idle
    /\ UNCHANGED <<archives, marker, receipts, stops>>

\* A request ends, or is cancelled.  One that ends well was planned, and its
\* roots were retained with the plan.
Settle(a, o) ==
    /\ run.at = "Service"
    /\ a \in DOMAIN Records
    /\ \/ Records[a] = "Pending" /\ o \in Ended
       \/ Records[a] # "Cancelled" /\ o = "Cancelled"
    /\ journal' = [journal EXCEPT !.records[a] = o]
    /\ pins' = IF o = "Ready" THEN pins \cup {a} ELSE pins
    /\ UNCHANGED <<archives, marker, receipts, run, stops>>

\* A retry retains the roots again; a request that loses its outputs over a
\* restart had them retained before.
Reopen(a) ==
    /\ run.at = "Service"
    /\ a \in DOMAIN Records
    /\ journal' = [journal EXCEPT !.records[a] = "Pending"]
    /\ pins' = pins \cup {a}
    /\ UNCHANGED <<archives, marker, receipts, run, stops>>

SetFence(a, t) ==
    /\ run.at = "Service"
    /\ a \in DOMAIN Records
    /\ journal.fence = None
    /\ journal' = [journal EXCEPT !.fence = [attempt |-> a, token |-> t]]
    /\ UNCHANGED <<archives, pins, marker, receipts, run, stops>>

ReleaseFence ==
    /\ run.at = "Service"
    /\ journal.fence # None
    /\ journal' = [journal EXCEPT !.fence = None]
    /\ UNCHANGED <<archives, pins, marker, receipts, run, stops>>

\* retire: evidence first, membership second, roots last.
ArchiveOf(a, released) ==
    [policy |-> journal.policy, outcome |-> Records[a], released |-> released]

RetireArchive(a) ==
    /\ run.at = "Service"
    /\ a \in DOMAIN Records
    /\ Records[a] \in Ended
    /\ journal.fence # None => journal.fence.attempt # a
    /\ archives' = With(archives, a, ArchiveOf(a, FALSE))
    /\ run' = [run EXCEPT !.at = "RetireJournal", !.now = a]
    /\ UNCHANGED <<journal, pins, marker, receipts, stops>>

RetireJournal ==
    /\ run.at = "RetireJournal"
    /\ journal' = [journal EXCEPT !.records = Without(Records, run.now)]
    /\ Goto("RetireRelease")
    /\ UNCHANGED <<archives, pins, marker, receipts, stops>>

\* Repeating the command resumes a retirement that stopped here.
RetireAgain(a) ==
    /\ run.at = "Service"
    /\ a \in DOMAIN archives \ DOMAIN Records
    /\ archives[a].policy = journal.policy
    /\ ~archives[a].released
    /\ run' = [run EXCEPT !.at = "RetireRelease", !.now = a]
    /\ UNCHANGED <<files, stops>>

RetireRelease ==
    /\ run.at = "RetireRelease"
    /\ pins' = pins \ {run.now}
    /\ Goto("RetireSeal")
    /\ UNCHANGED <<journal, archives, marker, receipts, stops>>

RetireSeal ==
    /\ run.at = "RetireSeal"
    /\ archives' = [archives EXCEPT ![run.now].released = TRUE]
    /\ run' = [run EXCEPT !.at = "Service", !.now = None]
    /\ UNCHANGED <<journal, pins, marker, receipts, stops>>

\* A write or a release failed; the service goes on.
RetireFails ==
    /\ run.at \in {"RetireJournal", "RetireRelease", "RetireSeal"}
    /\ stops < MaxStops
    /\ stops' = stops + 1
    /\ run' = [run EXCEPT !.at = "Service", !.now = None]
    /\ UNCHANGED files

-----------------------------------------------------------------------------
(* The handover.                                                           *)

Unreleased(as) == {a \in DOMAIN as : ~as[a].released}

\* The journal must be the one of the snapshot, or the replacement if the
\* run that stopped got that far.
Resumable(m) == journal \in {m.train, NewJournal("new")}

TombstonesOf(m) == [at |-> "Tombstones", now |-> None, todo |-> Unreleased(m.archives)]

\* A first run: snapshot, then marker.  With the marker absent and the new
\* policy in the journal, the call only looks for its receipt.
Begin(token) ==
    /\ run = Idle
    /\ marker = None
    /\ journal.policy = "old"
    /\ journal.fence # None
    /\ journal.fence.token = token
    /\ \A a \in DOMAIN Records : Records[a] \in Ended
    /\ marker' = [token |-> token, train |-> journal, archives |-> archives]
    /\ run' = TombstonesOf(marker')
    /\ UNCHANGED <<journal, archives, pins, receipts, stops>>

Resume(token) ==
    /\ run = Idle
    /\ marker # None
    /\ marker.token = token
    /\ Resumable(marker)
    /\ run' = TombstonesOf(marker)
    /\ UNCHANGED <<files, stops>>

\* Archives that the snapshot found unreleased: interrupted retirements.
NextTombstone(a) ==
    /\ run.at = "Tombstones"
    /\ a \in run.todo
    /\ run' = [at |-> IF archives[a].released THEN "Tombstones" ELSE "TombstoneRelease",
               now |-> a, todo |-> run.todo \ {a}]
    /\ UNCHANGED <<files, stops>>

TombstoneRelease ==
    /\ run.at = "TombstoneRelease"
    /\ pins' = pins \ {run.now}
    /\ Goto("TombstoneSeal")
    /\ UNCHANGED <<journal, archives, marker, receipts, stops>>

TombstoneSeal ==
    /\ run.at = "TombstoneSeal"
    /\ archives' = [archives EXCEPT ![run.now].released = TRUE]
    /\ Goto("Tombstones")
    /\ UNCHANGED <<journal, pins, marker, receipts, stops>>

TombstonesDone ==
    /\ run.at = "Tombstones"
    /\ run.todo = {}
    /\ run' = [at |-> "Requests", now |-> None, todo |-> DOMAIN marker.train.records]
    /\ UNCHANGED <<files, stops>>

\* The archive the snapshot calls for, with the release flag of the file.
Evidence(a) ==
    [policy |-> "old", outcome |-> marker.train.records[a],
     released |-> a \in DOMAIN archives /\ archives[a].released]

Agrees(a) == a \in DOMAIN archives => archives[a] = Evidence(a)

\* (mutant) An archive that is there is taken as it is.
ArchiveRequestTrusting(a) ==
    /\ run.at = "Requests"
    /\ a \in run.todo
    /\ archives' = IF a \in DOMAIN archives THEN archives
                   ELSE With(archives, a, Evidence(a))
    /\ run' = [at |-> IF Evidence(a).released THEN "Requests" ELSE "Release",
               now |-> a, todo |-> run.todo \ {a}]
    /\ UNCHANGED <<journal, pins, marker, receipts, stops>>

ArchiveRequest(a) ==
    /\ run.at = "Requests"
    /\ a \in run.todo
    /\ Agrees(a)
    /\ archives' = With(archives, a, Evidence(a))
    /\ run' = [at |-> IF Evidence(a).released THEN "Requests" ELSE "Release",
               now |-> a, todo |-> run.todo \ {a}]
    /\ UNCHANGED <<journal, pins, marker, receipts, stops>>

\* "retirement archive differs from rollover evidence"
Differs(a) ==
    /\ run.at = "Requests"
    /\ a \in run.todo
    /\ ~Agrees(a)
    /\ run' = Idle
    /\ UNCHANGED <<files, stops>>

Release ==
    /\ run.at = "Release"
    /\ pins' = pins \ {run.now}
    /\ Goto("Seal")
    /\ UNCHANGED <<journal, archives, marker, receipts, stops>>

Seal ==
    /\ run.at = "Seal"
    /\ archives' = [archives EXCEPT ![run.now].released = TRUE]
    /\ Goto("Requests")
    /\ UNCHANGED <<journal, pins, marker, receipts, stops>>

\* (mutant) The journal is replaced while requests are still to be archived.
PublishEarly ==
    /\ run.at = "Requests"
    /\ journal' = NewJournal("new")
    /\ Goto("Receipt")
    /\ UNCHANGED <<archives, pins, marker, receipts, stops>>

Publish ==
    /\ run.at = "Requests"
    /\ run.todo = {}
    /\ journal' = NewJournal("new")
    /\ Goto("Receipt")
    /\ UNCHANGED <<archives, pins, marker, receipts, stops>>

Receipt ==
    /\ run.at = "Receipt"
    /\ receipts' = receipts \cup {marker.token}
    /\ Goto("Unmark")
    /\ UNCHANGED <<journal, archives, pins, marker, stops>>

Unmark ==
    /\ run.at = "Unmark"
    /\ marker' = None
    /\ run' = Idle
    /\ UNCHANGED <<journal, archives, pins, receipts, stops>>

\* A crash of whoever runs, or an error that ends the handover.
Stop ==
    /\ run.at \notin {"Idle", "Service"}
    /\ stops < MaxStops
    /\ stops' = stops + 1
    /\ run' = Idle
    /\ UNCHANGED files

Advance ==
    \/ TombstoneRelease \/ TombstoneSeal \/ TombstonesDone
    \/ Release \/ Seal \/ Publish \/ Receipt \/ Unmark
    \/ \E a \in Attempts : NextTombstone(a) \/ ArchiveRequest(a) \/ Differs(a)

Next ==
    \/ ServiceStart \/ ServiceStop
    \/ \E a \in Attempts :
         \/ Intake(a) \/ IntakeStops(a) \/ Reopen(a)
         \/ RetireArchive(a) \/ RetireAgain(a)
    \/ \E a \in Attempts, o \in Outcomes : IntakeFails(a, o) \/ Settle(a, o)
    \/ \E a \in Attempts, t \in Tokens : SetFence(a, t)
    \/ ReleaseFence
    \/ RetireJournal \/ RetireRelease \/ RetireSeal \/ RetireFails
    \/ \E t \in Tokens : Begin(t) \/ Resume(t)
    \/ Advance
    \/ Stop

Spec == Init /\ [][Next]_vars

\* The owner repeats the exact call while the marker stands, and a run that
\* is neither killed nor failed goes on.
Repeated == WF_vars(Advance) /\ WF_vars(\E t \in Tokens : Resume(t))

-----------------------------------------------------------------------------
(* What the handover promises.                                             *)

TypeOK ==
    /\ journal \in Journal
    /\ archives \in Partial(Attempts, Archive)
    /\ pins \subseteq Attempts
    /\ marker \in Marker \cup {None}
    /\ receipts \subseteq Tokens
    /\ run \in Run
    /\ stops \in 0..MaxStops

\* A request leaves the journal, by retirement or by the handover, only when
\* its archive holds the outcome the journal had; archives stay, and one
\* whose roots are released is final.  No roots are released of a request
\* that was not archived.
KeepsEvidence ==
    /\ \A a \in DOMAIN Records \ DOMAIN Records' :
         a \in DOMAIN archives /\ archives[a].outcome = Records[a]
    /\ \A a \in DOMAIN archives :
         /\ a \in DOMAIN archives'
         /\ archives[a].released => archives'[a] = archives[a]
    /\ pins \ pins' \subseteq DOMAIN archives

EvidenceKept == [][KeepsEvidence]_vars

\* The store holds the roots of every request that is ready, until it is
\* archived, and none that nobody will release: a pinned request is in the
\* journal or in an unreleased archive that the running policy can still read.
RootsAccounted ==
    /\ \A a \in DOMAIN Records : Records[a] = "Ready" => a \in pins \cup DOMAIN archives
    /\ \A a \in pins \ DOMAIN Records :
         /\ a \in DOMAIN archives
         /\ ~archives[a].released
         /\ archives[a].policy = journal.policy

\* An interrupted handover is completed by repeating it
\* (BUILD_TRAIN.md and the comment of `rollover`).
HandoverCompletes == (marker # None) ~> (marker = None)
=============================================================================
