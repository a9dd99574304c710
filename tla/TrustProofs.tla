----------------------------- MODULE TrustProofs -----------------------------
(***************************************************************************)
(* Theorems about the trust observer and its commands, for any number of   *)
(* processes, names, keys and lines.                                       *)
(***************************************************************************)
EXTENDS TrustObserver, TLAPS

\* What a process can be in the middle of.
Doing ==
         [at : {"Idle", "Prompt"}, prompts : SUBSET Entries]
    \cup [at : {"Prompt", "Integrate", "Ignore", "PatchRead"},
          prompts : SUBSET Entries, entry : Entries]
    \cup [at : {"Patch", "Export", "Evaluate", "Restore"},
          prompts : SUBSET Entries, entry : Entries, previous : SUBSET Entries]
    \cup [at : {"SaveBaseline"}, prompts : SUBSET Entries, ignore : SUBSET Entries]
    \cup [at : {"SaveIgnore"}, prompts : SUBSET Entries, ignore : SUBSET Entries,
          version : {0, 1}]

Typed == TypeOK /\ proc \in [Procs -> Doing]

\* Nothing in E contradicts the key of a host.
Stands(E) == \A e \in E : \A n \in e.names : HostKey[Plain[n]] \in {e.key, None}

\* What a process is about to write does not either.
Held(r) ==
    /\ r.at \in {"PatchRead"} \cup PklSteps => Stands({r.entry})
    /\ r.at \in PklSteps => Stands(r.previous)

KeysInv ==
    /\ Stands(pkl) /\ Stands(sidecar)
    /\ \A p \in Procs : Held(proc[p])

\* Between reading and writing, what a file has and the process does not know
\* is what it missed.
Fresh(p) ==
    LET r == proc[p]
    IN  /\ r.at \in DecisionSteps => Ignored(decisions) \subseteq r.ignore \cup missed[p]
        /\ r.at = "Patch" => pkl \subseteq r.previous \cup missed[p]
        /\ r.at \in {"Export", "Evaluate", "Restore"} =>
             pkl \subseteq r.previous \cup {r.entry} \cup missed[p]

FreshInv == \A p \in Procs : Fresh(p)

-----------------------------------------------------------------------------
\* The steps of process p.
ProcAct(p) ==
    \/ \E review \in BOOLEAN, loaded \in {decisions, None} : Scan(p, review, loaded)
    \/ \E e \in Entries :
         \/ \E action \in {"Integrate", "Ignore", "Prompt"} : Prompt(p, e, action)
         \/ \E action \in {"Integrate", "Ignore"} : Command(p, e, action)
    \/ \E loaded \in {decisions, None} : IgnoreLoad(p, loaded)
    \/ \E read \in {pkl, {}} : PatchRead(p, read)
    \/ SaveBaseline(p) \/ Prompted(p) \/ SaveIgnore(p)
    \/ IntegrateCheck(p) \/ Restore(p)
    \/ \E export \in BOOLEAN : Patch(p, export)
    \/ ExportLoad(p) \/ ExportWrite(p) \/ ExportFails(p) \/ Abort(p)

\* A process that steps leaves the others where they were.
LEMMA OthersWait ==
    ASSUME Typed, NEW p \in Procs, ProcAct(p)
    PROVE  \A q \in Procs \ {p} : proc'[q] = proc[q]
<1>1. \E r : proc' = [proc EXCEPT ![p] = r]
  BY DEF ProcAct, Scan, Prompt, Command, SaveBaseline, Prompted, IgnoreLoad, SaveIgnore,
         IntegrateCheck, PatchRead, Restore, Patch, ExportLoad, ExportWrite,
         ExportFails, Abort, Becomes, Goto, Onwards
<1> QED
  BY <1>1 DEF Typed

\* What each step makes of the process, as a record.
LEMMA ProcTyped ==
    ASSUME ConstantsSound, Typed, NEW p \in Procs, ProcAct(p)
    PROVE  proc'[p] \in Doing /\ proc' \in [Procs -> Doing]
<1> USE DEF Becomes, Doing
<1>1. /\ proc \in [Procs -> Doing] /\ proc[p] \in Doing
      /\ Proposals \subseteq Entries /\ pkl \subseteq Entries
  BY DEF Typed, TypeOK, Proposals
<1>2. CASE \E review \in BOOLEAN, loaded \in {decisions, None} : Scan(p, review, loaded)
  BY <1>1, <1>2 DEF Scan, Idle
<1>3. CASE \E e \in Entries :
              \/ \E action \in {"Integrate", "Ignore", "Prompt"} : Prompt(p, e, action)
              \/ \E action \in {"Integrate", "Ignore"} : Command(p, e, action)
  BY <1>1, <1>3 DEF Prompt, Command
<1>4. CASE SaveBaseline(p) \/ Prompted(p) \/ Restore(p) \/ Abort(p)
  BY <1>1, <1>4 DEF SaveBaseline, Prompted, Restore, Abort, Idle
<1>5. CASE \E loaded \in {decisions, None} : IgnoreLoad(p, loaded)
  <2>1. \A loaded \in {decisions, None} : Ignored(loaded) \in SUBSET Entries
    BY DEF Typed, TypeOK, Decisions, Ignored
  <2> QED
    BY <1>1, <1>5, <2>1 DEF IgnoreLoad, Idle
<1>6. CASE SaveIgnore(p)
  BY <1>1, <1>6 DEF SaveIgnore, Onwards
<1>7. CASE IntegrateCheck(p) \/ \E read \in {pkl, {}} : PatchRead(p, read)
  BY <1>1, <1>7 DEF IntegrateCheck, PatchRead, Goto, Idle
<1>8. CASE \E export \in BOOLEAN : Patch(p, export)
  BY <1>1, <1>8 DEF Patch, Goto, Onwards
<1>9. CASE ExportLoad(p) \/ ExportWrite(p) \/ ExportFails(p)
  BY <1>1, <1>9 DEF ExportLoad, ExportWrite, ExportFails, Goto, Onwards
<1> QED
  BY <1>2, <1>3, <1>4, <1>5, <1>6, <1>7, <1>8, <1>9 DEF ProcAct

LEMMA TypedStep ==
    ASSUME ConstantsSound, Typed, [Next]_vars
    PROVE  Typed'
<1>1. CASE \E p \in Procs : ProcAct(p)
  <2> SUFFICES ASSUME NEW p \in Procs, ProcAct(p)
               PROVE  Typed'
    BY <1>1
  <2>1. proc' \in [Procs -> Doing] /\ proc[p] \in Doing
    BY ProcTyped DEF Typed
  <2>2. known' \subseteq Entries /\ pkl' \subseteq Entries /\ sidecar' \subseteq Entries
    <3>1. CASE UNCHANGED files
      BY <3>1 DEF files, Typed, TypeOK
    <3>2. CASE SaveBaseline(p) \/ SaveIgnore(p) \/ ExportWrite(p)
      BY <3>2 DEF SaveBaseline, SaveIgnore, ExportWrite, Typed, TypeOK
    <3>3. CASE Restore(p) \/ \E export \in BOOLEAN : Patch(p, export)
      BY <2>1, <3>3 DEF Restore, Patch, Typed, TypeOK, Doing
    <3> QED
      BY <3>1, <3>2, <3>3 DEF ProcAct, Scan, Prompt, Command, Prompted, IgnoreLoad,
                              IntegrateCheck, PatchRead, ExportLoad, ExportFails, Abort
  <2>3. decisions' \in Decisions \cup {None}
    <3>1. CASE UNCHANGED decisions
      BY <3>1 DEF Typed, TypeOK
    <3>2. CASE SaveBaseline(p) \/ SaveIgnore(p)
      BY <2>1, <3>2 DEF SaveBaseline, SaveIgnore, Doing, Decisions
    <3> QED
      BY <3>1, <3>2 DEF ProcAct, Scan, Prompt, Command, Prompted, IgnoreLoad, files, Restore, Patch,
                        IntegrateCheck, PatchRead, ExportLoad, ExportWrite, ExportFails, Abort
  <2>4. missed' \in [Procs -> SUBSET Entries]
    <3>1. CASE UNCHANGED missed
      BY <3>1 DEF Typed, TypeOK
    <3>2. CASE \E has \in SUBSET Entries : \E read : Reads(p, has, read)
      BY <3>2 DEF Reads, Typed, TypeOK
    <3>3. CASE \E new \in SUBSET Entries : \E steps : Writes(p, new, steps)
      BY <3>3 DEF Writes, Typed, TypeOK
    <3>4. Ignored(decisions) \in SUBSET Entries /\ pkl \in SUBSET Entries
      BY DEF Ignored, Typed, TypeOK, Decisions
    <3>5. SaveBaseline(p) \/ SaveIgnore(p) => proc[p].ignore \in SUBSET Entries
      BY <2>1 DEF SaveBaseline, SaveIgnore, Doing
    <3> QED
      BY <2>2, <3>1, <3>2, <3>3, <3>4, <3>5
         DEF ProcAct, Scan, Prompt, Command, SaveBaseline, Prompted, IgnoreLoad,
             SaveIgnore, IntegrateCheck, PatchRead, Restore, Patch, ExportLoad, ExportWrite,
             ExportFails, Abort
  <2> QED
    BY <2>1, <2>2, <2>3, <2>4 DEF Typed, TypeOK
<1>2. CASE \E e \in Entries : Connect(e)
  BY <1>2 DEF Connect, Typed, TypeOK, Decisions
<1>3. CASE UNCHANGED vars
  BY <1>3 DEF vars, Typed, TypeOK, Decisions
<1> QED
  BY <1>1, <1>2, <1>3 DEF Next, ProcAct

-----------------------------------------------------------------------------
(* Host keys.                                                              *)

\* An entry that may be proposed agrees with the host's own key: a key that a
\* declaration gives for the name is the host's already.
LEMMA ProposedStands ==
    ASSUME ConstantsSound, NEW E \in SUBSET Entries, Stands(E),
           NEW e \in Entries, Proposed(E, e)
    PROVE  Stands({e})
<1> SUFFICES ASSUME NEW n \in e.names, HostKey[Plain[n]] # None
             PROVE  HostKey[Plain[n]] = e.key
  BY DEF Stands
<1>1. n \in Names /\ Plain[n] \in Names /\ Plain[Plain[n]] = Plain[n]
  BY DEF ConstantsSound, Entry
<1>2. e.key \in KeysFor(E, n)
  BY DEF Proposed, Conflict, KeysFor
<1> QED
  BY <1>1, <1>2 DEF KeysFor, Stands

LEMMA KeysStep ==
    ASSUME ConstantsSound, Typed, KeysInv, [Next]_vars
    PROVE  KeysInv'
<1>1. CASE \E p \in Procs : ProcAct(p)
  <2> SUFFICES ASSUME NEW p \in Procs, ProcAct(p)
               PROVE  KeysInv'
    BY <1>1
  <2> USE DEF Becomes, PklSteps
  <2>1. proc' \in [Procs -> Doing] /\ proc \in [Procs -> Doing] /\ proc[p] \in Doing
    BY ProcTyped DEF Typed
  <2>2. Stands(pkl) /\ Stands(sidecar) /\ Held(proc[p])
    BY DEF KeysInv
  <2>3. Stands(pkl)' /\ Stands(sidecar)' /\ Held(proc'[p])
    <3>1. CASE Restore(p)
      BY <2>1, <2>2, <3>1 DEF Restore, Held, Idle, Doing, Stands
    <3>2. CASE \E export \in BOOLEAN : Patch(p, export)
      <4>1. Stands(proc[p].previous \cup {proc[p].entry})
        BY <2>1, <2>2, <3>2 DEF Patch, Held, Stands
      <4> QED
        BY <2>1, <2>2, <3>2, <4>1 DEF Patch, Held, Goto, Onwards, Doing, Stands
    <3>3. CASE ExportWrite(p)
      BY <2>1, <2>2, <3>3 DEF ExportWrite, Held, Onwards, Stands
    <3>4. CASE IntegrateCheck(p)
      <4>1. CASE proc[p].entry \in Proposals
        <5>1. proc[p].entry \in Entries /\ pkl \in SUBSET Entries
          BY <2>1, <3>4 DEF IntegrateCheck, Doing, Typed, TypeOK
        <5>2. Stands({proc[p].entry})
          BY <2>2, <4>1, <5>1, ProposedStands DEF Proposals
        <5> QED
          BY <2>1, <2>2, <3>4, <4>1, <5>2 DEF IntegrateCheck, Held, Goto, Doing, files, Stands
      <4>2. CASE proc[p].entry \notin Proposals
        BY <2>1, <2>2, <3>4, <4>2 DEF IntegrateCheck, Held, Idle, files, Stands
      <4> QED
        BY <4>1, <4>2
    <3>5. CASE \E read \in {pkl, {}} : PatchRead(p, read)
      BY <2>1, <2>2, <3>5 DEF PatchRead, Held, files, Stands
    <3>6. CASE ExportLoad(p) \/ ExportFails(p)
      BY <2>1, <2>2, <3>6 DEF ExportLoad, ExportFails, Held, Goto, Doing, files, Stands
    <3>7. CASE \/ \E review \in BOOLEAN, loaded \in {decisions, None} : Scan(p, review, loaded)
               \/ \E e \in Entries :
                    \/ \E action \in {"Integrate", "Ignore", "Prompt"} : Prompt(p, e, action)
                    \/ \E action \in {"Integrate", "Ignore"} : Command(p, e, action)
               \/ \E loaded \in {decisions, None} : IgnoreLoad(p, loaded)
               \/ Prompted(p) \/ Abort(p)
      BY <2>1, <2>2, <3>7
         DEF Scan, Prompt, Command, Prompted, IgnoreLoad, Abort, Held, Idle, files, Stands
    <3>8. CASE SaveBaseline(p) \/ SaveIgnore(p)
      BY <2>1, <2>2, <3>8 DEF SaveBaseline, SaveIgnore, Onwards, Held, Idle, Stands
    <3> QED
      BY <3>1, <3>2, <3>3, <3>4, <3>5, <3>6, <3>7, <3>8 DEF ProcAct
  <2>4. \A q \in Procs \ {p} : Held(proc'[q])
    BY OthersWait DEF KeysInv
  <2> QED
    BY <2>3, <2>4 DEF KeysInv, Held, Stands
<1>2. CASE \E e \in Entries : Connect(e)
  BY <1>2 DEF Connect, KeysInv, Held, Stands
<1>3. CASE UNCHANGED vars
  BY <1>3 DEF vars, KeysInv, Held, Stands
<1> QED
  BY <1>1, <1>2, <1>3 DEF Next, ProcAct

-----------------------------------------------------------------------------
(* What is written over.                                                   *)

LEMMA FreshStep ==
    ASSUME ConstantsSound, Typed, FreshInv, [Next]_vars
    PROVE  FreshInv'
<1>1. CASE \E p \in Procs : ProcAct(p)
  <2> SUFFICES ASSUME NEW p \in Procs, ProcAct(p)
               PROVE  FreshInv'
    BY <1>1
  <2> USE DEF Becomes, PklSteps, DecisionSteps
  <2>1. proc' \in [Procs -> Doing] /\ proc \in [Procs -> Doing] /\ proc[p] \in Doing
        /\ missed \in [Procs -> SUBSET Entries]
    BY ProcTyped DEF Typed, TypeOK
  <2>2. Fresh(p)
    BY DEF FreshInv
  <2>3. Fresh(p)'
    <3>1. CASE Restore(p)
      BY <2>1, <3>1 DEF Restore, Fresh, Idle
    <3>2. CASE \E export \in BOOLEAN : Patch(p, export)
      BY <2>1, <3>2 DEF Patch, Fresh, Goto, Onwards, Doing
    <3>3. CASE ExportLoad(p) \/ ExportWrite(p) \/ ExportFails(p)
      BY <2>1, <2>2, <3>3 DEF ExportLoad, ExportWrite, ExportFails, Fresh, Goto, Onwards,
                              Doing, files
    <3>4. CASE IntegrateCheck(p)
      BY <2>1, <3>4 DEF IntegrateCheck, Fresh, Goto, Idle, Doing
    <3>5. CASE \E read \in {pkl, {}} : PatchRead(p, read)
      BY <2>1, <3>5 DEF PatchRead, Reads, Fresh, files
    <3>6. CASE \E review \in BOOLEAN, loaded \in {decisions, None} : Scan(p, review, loaded)
      <4>1. PICK review \in BOOLEAN, loaded \in {decisions, None} : Scan(p, review, loaded)
        BY <3>6
      <4>2. missed'[p] = Ignored(decisions) \ Ignored(loaded) /\ decisions' = decisions
        BY <2>1, <4>1 DEF Scan, Reads, files
      <4>3. CASE loaded = None /\ ~review
        <5>1. proc'[p].at = "SaveBaseline"
          BY <2>1, <4>1, <4>3 DEF Scan
        <5>2. Ignored(loaded) = {} /\ Ignored(decisions)' = Ignored(decisions)
          BY <4>2, <4>3 DEF Ignored
        <5> QED
          BY <4>2, <5>1, <5>2 DEF Fresh
      <4>4. CASE ~(loaded = None /\ ~review)
        BY <2>1, <4>1, <4>4 DEF Scan, Fresh
      <4> QED
        BY <4>3, <4>4
    <3>7. CASE \E loaded \in {decisions, None} : IgnoreLoad(p, loaded)
      <4>1. PICK loaded \in {decisions, None} : IgnoreLoad(p, loaded)
        BY <3>7
      <4>2. missed'[p] = Ignored(decisions) \ Ignored(loaded)
            /\ Ignored(decisions)' = Ignored(decisions)
        BY <2>1, <4>1 DEF IgnoreLoad, Reads, files, Ignored
      <4>3. CASE Supported(loaded)
        <5>1. /\ proc'[p].at = "SaveIgnore"
              /\ proc'[p].ignore = {proc[p].entry} \cup Ignored(loaded)
          BY <2>1, <4>1, <4>3 DEF IgnoreLoad
        <5> QED
          BY <4>2, <5>1 DEF Fresh
      <4>4. CASE ~Supported(loaded)
        BY <2>1, <4>1, <4>4 DEF IgnoreLoad, Fresh, Idle
      <4> QED
        BY <4>3, <4>4
    <3>8. CASE \/ \E e \in Entries :
                    \/ \E action \in {"Integrate", "Ignore", "Prompt"} : Prompt(p, e, action)
                    \/ \E action \in {"Integrate", "Ignore"} : Command(p, e, action)
               \/ Prompted(p) \/ Abort(p)
      BY <2>1, <3>8 DEF Prompt, Command, Prompted, Abort, Fresh, Idle
    <3>9. CASE SaveBaseline(p) \/ SaveIgnore(p)
      BY <2>1, <3>9 DEF SaveBaseline, SaveIgnore, Onwards, Fresh, Idle
    <3> QED
      BY <3>1, <3>2, <3>3, <3>4, <3>5, <3>6, <3>7, <3>8, <3>9 DEF ProcAct
  <2>4. ASSUME NEW q \in Procs \ {p}
        PROVE  Fresh(q)'
    <3>1. proc'[q] = proc[q] /\ Fresh(q)
      BY OthersWait DEF FreshInv
    <3>2. CASE SaveBaseline(p) \/ SaveIgnore(p)
      <4>1. /\ Ignored(decisions)' = proc[p].ignore /\ pkl' = pkl
            /\ Writes(p, proc[p].ignore \ Ignored(decisions), DecisionSteps)
        <5>1. \A v : [version |-> v, ignored |-> proc[p].ignore] # None
                       => Ignored([version |-> v, ignored |-> proc[p].ignore]) = proc[p].ignore
          BY DEF Ignored
        <5>2. decisions' # None
          BY <2>1, <3>2 DEF SaveBaseline, SaveIgnore, ConstantsSound, Decisions, Doing
        <5> QED
          BY <3>2, <5>1, <5>2 DEF SaveBaseline, SaveIgnore, Ignored
      <4>2. /\ proc[q].at \in DecisionSteps =>
                 missed'[q] = missed[q] \cup (proc[p].ignore \ Ignored(decisions))
            /\ proc[q].at \notin DecisionSteps => missed'[q] = missed[q]
        BY <4>1 DEF Writes
      <4> QED
        BY <3>1, <4>1, <4>2 DEF Fresh
    <3>3. CASE Restore(p) \/ \E export \in BOOLEAN : Patch(p, export)
      <4>1. decisions' = decisions /\ Writes(p, pkl' \ pkl, PklSteps)
        BY <3>3 DEF Restore, Patch
      <4>2. /\ proc[q].at \in PklSteps => missed'[q] = missed[q] \cup (pkl' \ pkl)
            /\ proc[q].at \notin PklSteps => missed'[q] = missed[q]
        BY <4>1 DEF Writes
      <4> QED
        BY <3>1, <4>1, <4>2 DEF Fresh, Ignored
    <3>4. CASE ~(\/ SaveBaseline(p) \/ SaveIgnore(p) \/ Restore(p)
                 \/ \E export \in BOOLEAN : Patch(p, export))
      <4>1. UNCHANGED <<pkl, decisions>>
            /\ (UNCHANGED missed \/ \E has, read : Reads(p, has, read))
        BY <3>4 DEF ProcAct, Scan, Prompt, Command, Prompted, IgnoreLoad, IntegrateCheck,
                    PatchRead, ExportLoad, ExportWrite, ExportFails, Abort, files
      <4>2. missed'[q] = missed[q]
        BY <2>1, <4>1 DEF Reads
      <4> QED
        BY <3>1, <4>1, <4>2 DEF Fresh, Ignored
    <3> QED
      BY <3>2, <3>3, <3>4
  <2> QED
    BY <2>3, <2>4 DEF FreshInv
<1>2. CASE \E e \in Entries : Connect(e)
  BY <1>2 DEF Connect, FreshInv, Fresh, Ignored
<1>3. CASE UNCHANGED vars
  BY <1>3 DEF vars, FreshInv, Fresh, Ignored
<1> QED
  BY <1>1, <1>2, <1>3 DEF Next, ProcAct

\* A write puts back what the process knew, with its own change.
LEMMA OnlyMissedStep ==
    ASSUME ConstantsSound, Typed, FreshInv, [Next]_vars
    PROVE  LosesOnlyMissed
<1> SUFFICES ASSUME NEW p \in Procs, proc'[p] # proc[p]
             PROVE  /\ proc[p].at \in DecisionSteps =>
                         Ignored(decisions) \ Ignored(decisions') \subseteq missed[p]
                    /\ proc[p].at = "Patch" => pkl \ pkl' \subseteq missed[p]
                    /\ proc[p].at = "Restore" =>
                         pkl \ pkl' \subseteq missed[p] \cup ({proc[p].entry} \ proc[p].previous)
  BY DEF LosesOnlyMissed
<1>1. ProcAct(p)
  <2>1. PICK q \in Procs : ProcAct(q)
    BY DEF Next, ProcAct, Connect, vars
  <2> QED
    BY <2>1, OthersWait
<1>2. Fresh(p) /\ proc[p] \in Doing
  BY DEF FreshInv, Typed
<1>3. CASE proc[p].at \in DecisionSteps
  <2>1. UNCHANGED decisions \/ SaveBaseline(p) \/ SaveIgnore(p)
    BY <1>1, <1>3 DEF ProcAct, DecisionSteps, Scan, Idle, Prompt, Command, Prompted, IgnoreLoad,
                      IntegrateCheck, PatchRead, Patch, Restore, ExportLoad, ExportWrite,
                      ExportFails, Abort, files
  <2>2. CASE SaveBaseline(p) \/ SaveIgnore(p)
    <3>1. decisions' # None /\ decisions'.ignored = proc[p].ignore
      BY <1>2, <2>2 DEF SaveBaseline, SaveIgnore, ConstantsSound, Decisions, Doing
    <3> QED
      BY <1>2, <1>3, <3>1 DEF Fresh, Ignored, DecisionSteps
  <2> QED
    BY <1>3, <2>1, <2>2 DEF DecisionSteps, Ignored
<1>4. CASE proc[p].at = "Patch" \/ proc[p].at = "Restore"
  <2>1. UNCHANGED pkl \/ Restore(p) \/ \E export \in BOOLEAN : Patch(p, export)
    BY <1>1, <1>4 DEF ProcAct, Scan, Idle, Prompt, Command, Prompted, IgnoreLoad, SaveBaseline,
                      SaveIgnore, IntegrateCheck, PatchRead, ExportLoad, ExportWrite,
                      ExportFails, Abort, files
  <2> QED
    BY <1>2, <1>4, <2>1 DEF Restore, Patch, Fresh, DecisionSteps
<1> QED
  BY <1>3, <1>4

-----------------------------------------------------------------------------
(* The theorems.                                                           *)

\* The files hold entries that are or were in known_hosts, and decisions in
\* one of the two versions the code writes.
THEOREM TrustTyped == ASSUME ConstantsSound PROVE Spec => []Typed
<1>1. Init => Typed
  BY DEF Init, Typed, TypeOK, Idle, Doing
<1>2. Typed /\ [Next]_vars => Typed'
  BY TypedStep
<1> QED
  BY <1>1, <1>2, PTL DEF Spec

\* Whatever the processes interleave, no other key than its own is declared or
\* exported for a host of the fleet (DeclaredTrust, observe).
THEOREM KeysStand == ASSUME ConstantsSound PROVE Spec => []HostKeysStand
<1>1. Init => KeysInv
  BY DEF Init, KeysInv, Stands, Held, Idle, PklSteps
<1>2. Typed /\ KeysInv /\ [Next]_vars => KeysInv'
  BY KeysStep
<1>3. KeysInv => HostKeysStand
  BY DEF KeysInv, Stands, HostKeysStand
<1> QED
  BY <1>1, <1>2, <1>3, TrustTyped, PTL DEF Spec

\* Whatever the processes interleave and whichever readings fail, a process that
\* replaces a file takes away only what it could not know of (State::load,
\* patch_trust_pkl, restore_trust_pkl).
THEOREM TrustLosesOnlyMissed == ASSUME ConstantsSound PROVE Spec => OnlyMissedLost
<1>1. Init => FreshInv
  <2>1. Idle.at = "Idle"
    BY DEF Idle
  <2> SUFFICES ASSUME Init, NEW p \in Procs
               PROVE  Fresh(p)
    BY DEF FreshInv
  <2>2. proc[p] = Idle
    BY DEF Init
  <2> QED
    BY <2>1, <2>2 DEF Fresh, DecisionSteps
<1>2. Typed /\ FreshInv /\ [Next]_vars => FreshInv'
  BY FreshStep
<1>3. Typed /\ FreshInv /\ [Next]_vars => LosesOnlyMissed
  BY OnlyMissedStep
<1> QED
  BY <1>1, <1>2, <1>3, TrustTyped, PTL DEF Spec, OnlyMissedLost
=============================================================================
