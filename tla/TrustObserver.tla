--------------------------- MODULE TrustObserver ---------------------------
(***************************************************************************)
(* `fleetix trust` (src/src/cli.rs, src/src/trust): a desktop observer and *)
(* the commands of a user scan known_hosts for keys that the fleet does    *)
(* not declare, and declare them in Trust.pkl or remember that they are to *)
(* be ignored.  Nothing locks the files: every process reads, decides and  *)
(* replaces, and two of them may interleave at every file operation.  A    *)
(* file that cannot be read counts as absent where the code takes it so.   *)
(*                                                                         *)
(* An entry is the set of host names of a line, as written, and its key;   *)
(* lines that can never be declared are left out, as are two declarations  *)
(* of one entry.  An absent Trust.pkl is one without entries.              *)
(***************************************************************************)
EXTENDS Naturals

CONSTANTS
    Procs,
    Names,      \* host names as written in known_hosts and Trust.pkl
    Plain,      \* [Names -> Names]: "[host]:port" without the brackets
    Keys,
    HostKey,    \* [Names -> Keys or None]: keys of the fleet's own hosts
    Entries,    \* the lines known_hosts may get
    None

Entry == [names : SUBSET Names, key : Keys]

Decisions == [version : {0, 1}, ignored : SUBSET Entries]

\* What is between the first brackets has none to strip.
ConstantsSound ==
    /\ Entries \subseteq Entry
    /\ Plain \in [Names -> Names]
    /\ \A n \in Names : Plain[Plain[n]] = Plain[n]
    /\ HostKey \in [Names -> Keys \cup {None}]
    /\ None \notin Decisions

VARIABLES
    known,      \* known_hosts
    pkl,        \* Trust.pkl
    sidecar,    \* the exported topology's trust section
    decisions,  \* state.json, or None
    proc,       \* what each process does
    missed      \* (history) what the file a process read has that it does not know

vars == <<known, pkl, sidecar, decisions, proc, missed>>
files == <<known, pkl, sidecar, decisions>>

Idle == [at |-> "Idle", prompts |-> {}]

Init ==
    /\ known = {}
    /\ pkl = {}
    /\ sidecar = {}
    /\ decisions = None
    /\ proc = [p \in Procs |-> Idle]
    /\ missed = [p \in Procs |-> {}]

-----------------------------------------------------------------------------
\* DeclaredTrust: declarations are indexed as written, looked up as Plain.
KeysFor(declared, n) ==
    ({HostKey[Plain[n]]} \ {None}) \cup {e.key : e \in {d \in declared : Plain[n] \in d.names}}

\* (mutant) One declared host name is enough to make an entry harmless.
ConflictAllNames(declared, e) ==
    \A n \in e.names : KeysFor(declared, n) # {} /\ e.key \notin KeysFor(declared, n)

Conflict(declared, e) ==
    \E n \in e.names : KeysFor(declared, n) # {} /\ e.key \notin KeysFor(declared, n)

Proposed(declared, e) ==
    /\ ~Conflict(declared, e)
    /\ \E n \in e.names : e.key \notin KeysFor(declared, n)

Proposals == {e \in known : Proposed(pkl, e)}

\* The decisions as loaded: without them, nothing is ignored.
Supported(d) == d # None => d.version = 1
Ignored(d) == IF d = None THEN {} ELSE d.ignored

-----------------------------------------------------------------------------
Becomes(p, r) == proc' = [proc EXCEPT ![p] = r]
Goto(p, step) == Becomes(p, [proc[p] EXCEPT !.at = step])

DecisionSteps == {"SaveBaseline", "SaveIgnore"}
PklSteps == {"Patch", "Export", "Evaluate", "Restore"}

\* (history) A process reads what a file has, and got `read` of it.
Reads(p, has, read) == missed' = [missed EXCEPT ![p] = has \ read]

\* (history) A process writes a file, which it then knows; the others that are
\* between reading and writing it do not know what is new in it.
Writes(p, new, steps) ==
    missed' = [q \in Procs |-> CASE q = p -> {}
                                 [] q # p /\ proc[q].at \in steps -> missed[q] \cup new
                                 [] OTHER -> missed[q]]

\* The next prompt of a scan, or its end.
Onwards(p) == Becomes(p, [at |-> "Prompt", prompts |-> proc[p].prompts])

\* actionable_proposals; a scan that finds no decisions and does not review
\* takes what is there as its baseline.
Scan(p, review, loaded) ==
    /\ proc[p] = Idle
    /\ Supported(loaded)
    /\ IF loaded = None /\ ~review
       THEN Becomes(p, [at |-> "SaveBaseline", prompts |-> {}, ignore |-> Proposals])
       ELSE Becomes(p, [at |-> "Prompt", prompts |-> Proposals \ Ignored(loaded)])
    /\ Reads(p, Ignored(decisions), Ignored(loaded))
    /\ UNCHANGED files

SaveBaseline(p) ==
    /\ proc[p].at = "SaveBaseline"
    /\ decisions' = [version |-> 1, ignored |-> proc[p].ignore]
    /\ Becomes(p, Idle)
    /\ Writes(p, proc[p].ignore \ Ignored(decisions), DecisionSteps)
    /\ UNCHANGED <<known, pkl, sidecar>>

\* The desktop prompt: integrate, ignore, or nothing chosen.
Prompt(p, e, action) ==
    /\ proc[p].at = "Prompt"
    /\ e \in proc[p].prompts
    /\ Becomes(p, [at |-> action, prompts |-> proc[p].prompts \ {e}, entry |-> e])
    /\ UNCHANGED <<files, missed>>

Prompted(p) ==
    /\ proc[p].at = "Prompt"
    /\ proc[p].prompts = {}
    /\ Becomes(p, Idle)
    /\ UNCHANGED <<files, missed>>

\* The commands `trust integrate` and `trust ignore`.
Command(p, e, action) ==
    /\ proc[p] = Idle
    /\ e \in known
    /\ Becomes(p, [at |-> action, prompts |-> {}, entry |-> e])
    /\ UNCHANGED <<files, missed>>

\* Without decisions the new file has the version of State::default.
IgnoreLoad(p, loaded) ==
    /\ proc[p].at = "Ignore"
    /\ IF Supported(loaded)
       THEN Becomes(p, [at |-> "SaveIgnore", prompts |-> proc[p].prompts,
                        version |-> IF loaded = None THEN 0 ELSE 1,
                        ignore |-> {proc[p].entry} \cup Ignored(loaded)])
       ELSE Becomes(p, Idle)
    /\ Reads(p, Ignored(decisions), Ignored(loaded))
    /\ UNCHANGED files

SaveIgnore(p) ==
    /\ proc[p].at = "SaveIgnore"
    /\ decisions' = [version |-> proc[p].version, ignored |-> proc[p].ignore]
    /\ Onwards(p)
    /\ Writes(p, proc[p].ignore \ Ignored(decisions), DecisionSteps)
    /\ UNCHANGED <<known, pkl, sidecar>>

\* run_integrate scans again; what it then patches is read once more.
IntegrateCheck(p) ==
    /\ proc[p].at = "Integrate"
    /\ IF proc[p].entry \in Proposals THEN Goto(p, "PatchRead") ELSE Becomes(p, Idle)
    /\ UNCHANGED <<files, missed>>

PatchRead(p, read) ==
    /\ proc[p].at = "PatchRead"
    /\ Becomes(p, [at |-> "Patch", prompts |-> proc[p].prompts,
                   entry |-> proc[p].entry, previous |-> read])
    /\ Reads(p, pkl, read)
    /\ UNCHANGED files

Patch(p, export) ==
    /\ proc[p].at = "Patch"
    /\ pkl' = proc[p].previous \cup {proc[p].entry}
    /\ IF export THEN Goto(p, "Export") ELSE Onwards(p)
    /\ Writes(p, pkl' \ pkl, PklSteps)
    /\ UNCHANGED <<known, sidecar, decisions>>

\* export_topology loads and validates, then evaluates a second time; either
\* may fail, of an entry that makes the topology invalid or otherwise.
ExportLoad(p) ==
    /\ proc[p].at = "Export"
    /\ Goto(p, "Evaluate")
    /\ UNCHANGED <<files, missed>>

ExportWrite(p) ==
    /\ proc[p].at = "Evaluate"
    /\ sidecar' = pkl
    /\ Onwards(p)
    /\ UNCHANGED <<known, pkl, decisions, missed>>

ExportFails(p) ==
    /\ proc[p].at \in {"Export", "Evaluate"}
    /\ Goto(p, "Restore")
    /\ UNCHANGED <<files, missed>>

\* (mutant) The rollback forgets what was there before.
RestoreEmpty(p) ==
    /\ proc[p].at = "Restore"
    /\ pkl' = {}
    /\ Becomes(p, Idle)
    /\ Writes(p, pkl' \ pkl, PklSteps)
    /\ UNCHANGED <<known, sidecar, decisions>>

Restore(p) ==
    /\ proc[p].at = "Restore"
    /\ pkl' = proc[p].previous
    /\ Becomes(p, Idle)
    /\ Writes(p, pkl' \ pkl, PklSteps)
    /\ UNCHANGED <<known, sidecar, decisions>>

\* A file operation fails, or the process is killed.
Abort(p) ==
    /\ proc[p] # Idle
    /\ Becomes(p, Idle)
    /\ UNCHANGED <<files, missed>>

\* The user connects to a host: ssh adds a line.
Connect(e) ==
    /\ e \notin known
    /\ known' = known \cup {e}
    /\ UNCHANGED <<pkl, sidecar, decisions, proc, missed>>

Next ==
    \/ \E p \in Procs :
         \/ \E review \in BOOLEAN, loaded \in {decisions, None} : Scan(p, review, loaded)
         \/ \E e \in Entries :
              \/ \E action \in {"Integrate", "Ignore", "Prompt"} : Prompt(p, e, action)
              \/ \E action \in {"Integrate", "Ignore"} : Command(p, e, action)
         \/ \E loaded \in {decisions, None} : IgnoreLoad(p, loaded)
         \/ \E read \in {pkl, {}} : PatchRead(p, read)
         \/ SaveBaseline(p) \/ Prompted(p) \/ SaveIgnore(p)
         \/ IntegrateCheck(p) \/ Restore(p)
         \/ \E export \in BOOLEAN : Patch(p, export)
         \/ ExportLoad(p) \/ ExportWrite(p) \/ ExportFails(p) \/ Abort(p)
    \/ \E e \in Entries : Connect(e)

Spec == Init /\ [][Next]_vars

-----------------------------------------------------------------------------
TypeOK ==
    /\ known \subseteq Entries
    /\ pkl \subseteq Entries
    /\ sidecar \subseteq Entries
    /\ decisions \in Decisions \cup {None}
    /\ missed \in [Procs -> SUBSET Entries]

\* However scans, integrations and rollbacks interleave, no key other than
\* the host's own is declared or exported for a name of a fleet host, in
\* whatever form the name is written and whichever names share its line.
HostKeysStand ==
    \A e \in pkl \cup sidecar : \A n \in e.names : HostKey[Plain[n]] \in {e.key, None}

\* However readings and writes interleave, a process that replaces a file
\* takes away only what it could not know of: what another process added since
\* it read or wrote the file, or what the file had when it could not be read.
\* Every other decision and declaration stays, but on a rollback the entry that
\* this integration had added, if it was not there before.
LosesOnlyMissed ==
    \A p \in Procs : proc'[p] # proc[p] =>
      /\ proc[p].at \in DecisionSteps =>
           Ignored(decisions) \ Ignored(decisions') \subseteq missed[p]
      /\ proc[p].at = "Patch" => pkl \ pkl' \subseteq missed[p]
      /\ proc[p].at = "Restore" =>
           pkl \ pkl' \subseteq missed[p] \cup ({proc[p].entry} \ proc[p].previous)

OnlyMissedLost == [][LosesOnlyMissed]_vars
=============================================================================
