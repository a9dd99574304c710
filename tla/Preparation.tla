---------------------------- MODULE Preparation ----------------------------
(***************************************************************************)
(* Preparation receipts (src/src/build_train/runtime/preparation.rs):      *)
(* processes that want the result of one exact task serialise on its       *)
(* lease, reuse the receipt of a passed run after revalidating what it     *)
(* names, and otherwise do the work.  Tasks of different keys share        *)
(* nothing, so one key is enough.  Artifacts may be collected at any time; *)
(* someone may also leave a receipt that does not parse or that no run     *)
(* writes.                                                                 *)
(***************************************************************************)
EXTENDS Naturals

CONSTANTS
    Callers,
    Artifacts,  \* what a passed run produces
    None

VARIABLES
    holder,     \* the caller that has the lease, or None
    receipt,    \* the receipt file
    valid,      \* the artifacts that exist
    caller,     \* where each caller stands and what it holds
    passed,     \* (history) artifacts of runs that passed
    trusted     \* (history) per caller, those that existed since it had the lease

vars == <<holder, receipt, valid, caller, passed, trusted>>

Broken == {"Unparsable", "Skipped"}
Outcome == Artifacts \cup {"Skipped", "Error"}

\* No artifact is taken for a broken receipt, for an answer or for none.
ConstantsSound ==
    /\ None \notin Callers
    /\ Artifacts \cap (Broken \cup {"Error", None}) = {}

Away == [at |-> "Away", value |-> None]

Init ==
    /\ holder = None
    /\ receipt = None
    /\ valid = {}
    /\ caller = [c \in Callers |-> Away]
    /\ passed = {}
    /\ trusted = [c \in Callers |-> {}]

-----------------------------------------------------------------------------
Goto(c, step, value) == caller' = [caller EXCEPT ![c] = [at |-> step, value |-> value]]

Arrive(c) ==
    /\ caller[c].at \in {"Away", "Returned"}
    /\ Goto(c, "Waiting", None)
    /\ UNCHANGED <<holder, receipt, valid, passed, trusted>>

\* The deadline passes while another caller has the lease.
GiveUp(c) ==
    /\ caller[c].at = "Waiting"
    /\ holder # None
    /\ Goto(c, "Returned", "Error")
    /\ UNCHANGED <<holder, receipt, valid, passed, trusted>>

Acquire(c) ==
    /\ caller[c].at = "Waiting"
    /\ holder = None
    /\ holder' = c
    /\ Goto(c, "Leased", None)
    /\ trusted' = [trusted EXCEPT ![c] = valid]
    /\ UNCHANGED <<receipt, valid, passed>>

Return(c, value) ==
    /\ holder' = None
    /\ Goto(c, "Returned", value)

\* (mutant) The receipt is believed as it was when the caller came.
ReusableStale(x) == x \in Artifacts

Reusable(x) == x \in Artifacts \cap valid

Reuse(c) ==
    /\ caller[c].at = "Leased"
    /\ Reusable(receipt)
    /\ Return(c, receipt)
    /\ UNCHANGED <<receipt, valid, passed, trusted>>

\* A receipt that does not parse, or of a run that did not pass, is an error.
RefuseReceipt(c) ==
    /\ caller[c].at = "Leased"
    /\ receipt \in Broken
    /\ Return(c, "Error")
    /\ UNCHANGED <<receipt, valid, passed, trusted>>

StartWork(c) ==
    /\ caller[c].at = "Leased"
    /\ receipt \notin Broken
    /\ ~Reusable(receipt)
    /\ Goto(c, "Working", None)
    /\ UNCHANGED <<holder, receipt, valid, passed, trusted>>

\* The work passes with an artifact; the receipt is still to be written.
WorkPasses(c, x) ==
    /\ caller[c].at = "Working"
    /\ valid' = valid \cup {x}
    /\ passed' = passed \cup {x}
    /\ trusted' = [trusted EXCEPT ![c] = trusted[c] \cup {x}]
    /\ Goto(c, "Recording", x)
    /\ UNCHANGED <<holder, receipt>>

WorkEnds(c, value) ==
    /\ caller[c].at = "Working"
    /\ Return(c, value)
    /\ UNCHANGED <<receipt, valid, passed, trusted>>

Record(c) ==
    /\ caller[c].at = "Recording"
    /\ receipt' = caller[c].value
    /\ Return(c, caller[c].value)
    /\ UNCHANGED <<valid, passed, trusted>>

RecordFails(c, written) ==
    /\ caller[c].at = "Recording"
    /\ receipt' = IF written THEN caller[c].value ELSE receipt
    /\ Return(c, "Error")
    /\ UNCHANGED <<valid, passed, trusted>>

\* The kernel takes the lease from a caller that dies.
Die(c) ==
    /\ caller[c].at \notin {"Away", "Returned"}
    /\ holder' = IF holder = c THEN None ELSE holder
    /\ caller' = [caller EXCEPT ![c] = Away]
    /\ UNCHANGED <<receipt, valid, passed, trusted>>

Collect(x) ==
    /\ x \in valid
    /\ valid' = valid \ {x}
    /\ UNCHANGED <<holder, receipt, caller, passed, trusted>>

Meddle(x) ==
    /\ receipt' = x
    /\ UNCHANGED <<holder, valid, caller, passed, trusted>>

Next ==
    \/ \E c \in Callers :
         \/ Arrive(c) \/ GiveUp(c) \/ Acquire(c)
         \/ Reuse(c) \/ RefuseReceipt(c) \/ StartWork(c)
         \/ \E x \in Artifacts : WorkPasses(c, x)
         \/ \E value \in {"Skipped", "Error"} : WorkEnds(c, value)
         \/ Record(c) \/ Die(c)
         \/ \E written \in BOOLEAN : RecordFails(c, written)
    \/ \E x \in Artifacts : Collect(x)
    \/ \E x \in Broken \cup {None} : Meddle(x)

Spec == Init /\ [][Next]_vars

-----------------------------------------------------------------------------
TypeOK ==
    /\ holder \in Callers \cup {None}
    /\ receipt \in Artifacts \cup Broken \cup {None}
    /\ valid \subseteq Artifacts
    /\ caller \in [Callers ->
         [at : {"Away", "Waiting", "Leased", "Working", "Recording", "Returned"},
          value : Outcome \cup {None}]]
    /\ passed \subseteq Artifacts
    /\ trusted \in [Callers -> SUBSET Artifacts]

\* One caller at a time is past the lease, and a caller is told of a pass
\* only by a run of this task that passed, whose artifacts existed at some
\* moment since the caller had the lease: neither a collected artifact nor
\* a skip, a failure or a foreign receipt comes back as one.
PassedIsProved ==
    /\ \A c \in Callers : caller[c].at \in {"Leased", "Working", "Recording"} <=> holder = c
    /\ \A c \in Callers : caller[c].value \in Artifacts =>
         caller[c].value \in passed \cap trusted[c]
=============================================================================
