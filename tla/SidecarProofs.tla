---------------------------- MODULE SidecarProofs ----------------------------
(***************************************************************************)
(* Theorems about the evaluation cache, for any sources, scripts of calls  *)
(* and worlds.                                                             *)
(***************************************************************************)
EXTENDS SidecarCache, TLAPS

Snapshot == [lib : Texts \cup {None}, existence : BOOLEAN \cup {None}, volatile : BOOLEAN]

FileCalls == {"import", "optional"}

\* The snapshot s says what the first calls of `script` were answered, unless
\* it says that nothing may be kept.
Recorded(script, answers, s) ==
    \A i \in DOMAIN answers :
      /\ script[i] \in FileCalls => answers[i] = s.lib /\ s.lib # None
      /\ script[i] = "exists" => answers[i] = s.existence /\ s.existence # None
      /\ script[i] # "volatile"

\* An evaluation in progress.
Running ==
    [at : {"Evaluate"}, publish : BOOLEAN, main : Sources,
     answers : Seq(Texts \cup {None} \cup BOOLEAN \cup Settings),
     snapshot : Snapshot, torn : BOOLEAN]

RunSound(r) ==
    /\ r \in Running
    /\ Len(r.answers) <= Len(Script[r.main])
    /\ ~r.torn /\ ~r.snapshot.volatile => Recorded(Script[r.main], r.answers, r.snapshot)

\* An entry that may be put, or was.
Entry ==
    [producer : Producers, main : Sources, snapshot : Snapshot, torn : BOOLEAN,
     nix : [producer : Producers, main : Sources,
            answers : Seq(Texts \cup {None} \cup BOOLEAN \cup Settings)]]

EntryKept(e) ==
    /\ e \in Entry
    /\ e.nix.producer = e.producer /\ e.nix.main = e.main
    /\ Len(e.nix.answers) = Len(Script[e.main])
    /\ ~e.torn => Recorded(Script[e.main], e.nix.answers, e.snapshot)

CacheInv ==
    /\ world \in World
    /\ cache # None => EntryKept(cache)
    /\ \/ run.at = "Idle"
       \/ RunSound(run)
       \/ run = [at |-> "Write", publish |-> FALSE]
       \/ /\ run \in [at : {"Write", "Put"}, publish : BOOLEAN, entry : Entry]
          /\ run.at = "Put" => run.publish
          /\ run.publish => EntryKept(run.entry)

-----------------------------------------------------------------------------
\* One more call keeps the snapshot true: had an answer changed since it was
\* given, the evaluation would be torn.
LEMMA CallRecorded ==
    ASSUME ConstantsSound, CacheInv, Call
    PROVE  RunSound(run')
<1> DEFINE script == Script[run.main]
           n == Len(run.answers)
           call == script[n + 1]
           answer == Answer(world, call)
           snapshot == Observe(run.snapshot, world, call)
<1>1. /\ RunSound(run) /\ run \in Running /\ world \in World
      /\ script \in Seq(Calls) /\ n \in Nat /\ n < Len(script)
  BY DEF Call, CacheInv, RunSound, Running, ConstantsSound
<1>2. call \in Calls
  BY <1>1
<1>3. answer \in Texts \cup {None} \cup BOOLEAN \cup Settings
  BY <1>1, <1>2 DEF Answer, World, Calls
<1>4. snapshot \in Snapshot
  BY <1>1, <1>2 DEF Observe, Snapshot, Running, World, Calls
<1>5. /\ run' \in Running
      /\ run'.main = run.main /\ run'.answers = Append(run.answers, answer)
      /\ run'.snapshot = snapshot
  <2> DEFINE torn == run.torn \/ \E i \in DOMAIN run.answers :
                       /\ Script[run.main][i] \in {"import", "optional", "exists"}
                       /\ run.answers[i] # Answer(world, Script[run.main][i])
             all == Texts \cup {None} \cup BOOLEAN \cup Settings
  <2>1. torn \in BOOLEAN
    BY <1>1 DEF Running
  <2>2. run.answers \in Seq(all) /\ answer \in all
    BY <1>1, <1>3 DEF Running
  <2>3. Append(run.answers, answer) \in Seq(all)
    BY <2>2
  <2>4. run' = [run EXCEPT !.answers = Append(run.answers, answer),
                           !.snapshot = snapshot, !.torn = torn]
    BY DEF Call
  <2> HIDE DEF torn, answer, snapshot, all
  <2>5. run \in [at : {"Evaluate"}, publish : BOOLEAN, main : Sources,
                 answers : Seq(all), snapshot : Snapshot, torn : BOOLEAN]
    BY <1>1 DEF Running, all
  <2>6. /\ run' \in [at : {"Evaluate"}, publish : BOOLEAN, main : Sources,
                     answers : Seq(all), snapshot : Snapshot, torn : BOOLEAN]
        /\ run'.main = run.main /\ run'.answers = Append(run.answers, answer)
        /\ run'.snapshot = snapshot
    BY <1>4, <2>1, <2>3, <2>4, <2>5
  <2> QED
    BY <2>6 DEF Running, all
<1>6. /\ Len(run'.answers) = n + 1 /\ DOMAIN run'.answers = 1..(n + 1)
      /\ run'.answers[n + 1] = answer
      /\ \A i \in 1..n : i \in DOMAIN run.answers /\ run'.answers[i] = run.answers[i]
  BY <1>1, <1>3, <1>5 DEF Running
<1>7. ASSUME ~run'.torn, ~run'.snapshot.volatile
      PROVE  Recorded(script, run'.answers, run'.snapshot)
  <2>1. /\ ~run.torn
        /\ \A i \in 1..n : script[i] \in {"import", "optional", "exists"}
                             => run.answers[i] = Answer(world, script[i])
    BY <1>1, <1>6, <1>7 DEF Call, Running
  <2>2. ~run.snapshot.volatile /\ call # "volatile"
    BY <1>1, <1>2, <1>5, <1>7 DEF Observe, Running, Snapshot, Calls
  <2>3. Recorded(script, run.answers, run.snapshot)
    BY <1>1, <2>1, <2>2 DEF RunSound
  <2>4. CASE call \in FileCalls
    <3>1. world.lib # None /\ snapshot = [run.snapshot EXCEPT !.lib = world.lib]
      BY <1>5, <1>7, <1>1, <2>4 DEF Observe, FileCalls, Running, Snapshot
    <3>2. snapshot.lib = world.lib /\ snapshot.existence = run.snapshot.existence
      BY <1>1, <3>1 DEF Running, Snapshot
    <3>3. answer = world.lib
      BY <2>4 DEF Answer, FileCalls
    <3>4. \A i \in 1..n : script[i] \in FileCalls => run.answers[i] = world.lib
      BY <2>1 DEF Answer, FileCalls
    <3> QED
      BY <1>5, <1>6, <2>3, <2>4, <3>1, <3>2, <3>3, <3>4 DEF Recorded, FileCalls
  <2>5. CASE call = "exists"
    <3>1. /\ snapshot.lib = run.snapshot.lib
          /\ snapshot.existence = (world.lib # None)
      BY <1>1, <2>5 DEF Observe, Running, Snapshot
    <3>2. answer = (world.lib # None) /\ snapshot.existence # None
      BY <2>5, <3>1 DEF Answer, ConstantsSound
    <3>3. \A i \in 1..n : script[i] = "exists" => run.answers[i] = (world.lib # None)
      BY <2>1 DEF Answer
    <3> QED
      BY <1>5, <1>6, <2>3, <2>5, <3>1, <3>2, <3>3 DEF Recorded, FileCalls
  <2> QED
    BY <1>2, <2>2, <2>4, <2>5 DEF Calls, FileCalls
<1> QED
  BY <1>1, <1>5, <1>6, <1>7 DEF RunSound

LEMMA CacheStep ==
    ASSUME ConstantsSound, CacheInv, [Next]_vars
    PROVE  CacheInv'
<1>1. CASE \E enabled \in BOOLEAN : Start(enabled)
  <2>1. PICK enabled \in BOOLEAN : Start(enabled)
    BY <1>1
  <2>2. CASE run' = [at |-> "Write", publish |-> FALSE]
    BY <2>1, <2>2 DEF Start, CacheInv, EntryKept
  <2>3. CASE run' = [at |-> "Evaluate", publish |-> enabled, main |-> world.main,
                     answers |-> <<>>, snapshot |-> NoSnapshot, torn |-> FALSE]
    <3>1. NoSnapshot \in Snapshot /\ world.main \in Sources
      BY DEF NoSnapshot, Snapshot, CacheInv, World
    <3>2. run' \in Running
      BY <2>3, <3>1 DEF Running
    <3>3. /\ run'.answers = <<>> /\ run'.main \in Sources
          /\ Len(Script[run'.main]) \in Nat
      BY <2>3, <3>1 DEF ConstantsSound
    <3>4. RunSound(run')
      BY <3>2, <3>3 DEF RunSound, Recorded
    <3> QED
      BY <2>1, <3>4 DEF Start, CacheInv, EntryKept
  <2> QED
    BY <2>1, <2>2, <2>3 DEF Start
<1>2. CASE Call
  BY <1>2, CallRecorded DEF Call, CacheInv, EntryKept
<1>3. CASE Evaluated
  <2>1. RunSound(run) /\ run \in Running /\ world \in World
    BY <1>3 DEF Evaluated, CacheInv, RunSound
  <2> DEFINE entry == [producer |-> world.producer, main |-> run.main,
                       snapshot |-> run.snapshot, torn |-> run.torn,
                       nix |-> Nix(world, run.main, run.answers)]
  <2>2. /\ entry \in Entry
        /\ entry.nix.producer = entry.producer /\ entry.nix.main = entry.main
        /\ entry.nix.answers = run.answers
    BY <2>1 DEF Entry, Running, World, Nix
  <2>3. ~run.snapshot.volatile => EntryKept(entry)
    BY <1>3, <2>1, <2>2 DEF Evaluated, EntryKept, RunSound
  <2> HIDE DEF entry
  <2>4. run' = [at |-> "Write", publish |-> run.publish /\ ~run.snapshot.volatile,
                entry |-> entry]
    BY <1>3 DEF Evaluated, entry
  <2>5. /\ run' \in [at : {"Write", "Put"}, publish : BOOLEAN, entry : Entry]
        /\ run'.at = "Write" /\ run'.entry = entry
        /\ run'.publish => ~run.snapshot.volatile
    BY <2>2, <2>4
  <2> QED
    BY <1>3, <2>1, <2>3, <2>5 DEF Evaluated, CacheInv, EntryKept
<1>4. CASE WriteRendered
  BY <1>4 DEF WriteRendered, CacheInv, EntryKept, RunSound, Running
<1>5. CASE Put
  BY <1>5 DEF Put, CacheInv, EntryKept, RunSound, Running
<1>6. CASE CallFails \/ Abort
  BY <1>6 DEF CallFails, Abort, CacheInv, EntryKept
<1>7. CASE Edit
  <2>1. world' \in World
    BY <1>7 DEF Edit, CacheInv, World
  <2> QED
    BY <1>7, <2>1 DEF Edit, CacheInv
<1>8. CASE UNCHANGED vars
  BY <1>8 DEF vars, CacheInv
<1> QED
  BY <1>1, <1>2, <1>3, <1>4, <1>5, <1>6, <1>7, <1>8 DEF Next

\* What a kept entry renders is what an evaluation in any world would answer in
\* which it is current.
LEMMA CurrentRenders ==
    ASSUME ConstantsSound, world \in World, NEW e, EntryKept(e), ~e.torn, IsCurrent(e, world)
    PROVE  e.nix = Rendering(world)
<1> DEFINE script == Script[world.main]
           answers == e.nix.answers
<1>1. /\ e.main = world.main /\ e.nix.main = world.main
      /\ e.nix.producer = world.producer
      /\ e \in Entry /\ script \in Seq(Calls)
      /\ answers \in Seq(Texts \cup {None} \cup BOOLEAN \cup Settings)
      /\ Len(answers) = Len(script) /\ Recorded(script, answers, e.snapshot)
  BY DEF EntryKept, IsCurrent, Entry, World, ConstantsSound
<1>2. ASSUME NEW i \in DOMAIN script
      PROVE  answers[i] = Answer(world, script[i])
  <2>1. script[i] \in Calls /\ i \in DOMAIN answers
    BY <1>1
  <2> QED
    BY <1>1, <2>1 DEF Recorded, Calls, FileCalls, Answer, IsCurrent
<1>3. answers = [i \in DOMAIN script |-> Answer(world, script[i])]
  BY <1>1, <1>2
<1>4. e.nix = [producer |-> e.nix.producer, main |-> e.nix.main, answers |-> e.nix.answers]
  BY <1>1 DEF Entry
<1> QED
  BY <1>1, <1>3, <1>4 DEF Rendering, Nix

LEMMA CacheInvariant == ASSUME ConstantsSound PROVE Spec => []CacheInv
<1>1. Init => CacheInv
  BY DEF Init, CacheInv
<1>2. CacheInv /\ [Next]_vars => CacheInv'
  BY CacheStep
<1> QED
  BY <1>1, <1>2, PTL DEF Spec

\* An entry that a lookup accepts renders what is there now, whatever changed
\* while it was made (is_current, put); torn evaluations are exempt.
THEOREM EntriesSound == ASSUME ConstantsSound PROVE Spec => []EntrySound
<1>1. CacheInv => EntrySound
  BY CurrentRenders DEF CacheInv, EntrySound
<1> QED
  BY <1>1, CacheInvariant, PTL

\* Entries, contents and runs stay in their types, whoever writes when (put).
THEOREM CacheTyped == ASSUME ConstantsSound PROVE Spec => []TypeOK
<1>1. CacheInv => TypeOK
  BY DEF CacheInv, EntryKept, Entry, RunSound, Running, TypeOK
<1> QED
  BY <1>1, CacheInvariant, PTL
=============================================================================
