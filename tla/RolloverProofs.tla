--------------------------- MODULE RolloverProofs ---------------------------
(***************************************************************************)
(* For any requests, tokens and number of stops: the handover keeps every  *)
(* piece of evidence and accounts for every root.                          *)
(*                                                                         *)
(* The invariant says how far each loop has come.  What the marker calls   *)
(* for is complete when the loop that archives it is done (Archiving), and *)
(* the pins that are left shrink with the work that is left (Entombing,    *)
(* Archiving), so that none is left when the journal is replaced.          *)
(***************************************************************************)
EXTENDS Rollover, TLAPS

ServiceSteps == {"Service", "RetireJournal", "RetireRelease", "RetireSeal"}
TombstoneSteps == {"Tombstones", "TombstoneRelease", "TombstoneSeal"}
RequestSteps == {"Requests", "Release", "Seal"}

\* The service runs without a marker, the handover with one.
Exclusive ==
    /\ run.at \in ServiceSteps => marker = None
    /\ run.at \notin ServiceSteps \cup {"Idle"} => marker # None

\* While the marker stands, the journal is its own or the replacement.
Marked == marker # None =>
    /\ journal \in {marker.train, NewJournal("new")}
    /\ DOMAIN marker.archives \subseteq DOMAIN archives
    /\ pins \subseteq DOMAIN marker.train.records \cup Unreleased(marker.archives)

\* A released archive has no pin, and outside a handover no record.
Freed ==
    \A a \in DOMAIN archives : archives[a].released =>
      a \notin pins /\ (marker = None => a \notin DOMAIN Records)

Retiring ==
    /\ run.at = "RetireJournal" =>
         /\ run.now \in DOMAIN Records \cap DOMAIN archives
         /\ archives[run.now].outcome = Records[run.now]
         /\ archives[run.now].policy = journal.policy
    /\ run.at \in {"RetireRelease", "RetireSeal"} =>
         run.now \in DOMAIN archives \ DOMAIN Records
    /\ run.at = "RetireSeal" => run.now \notin pins

Entombing ==
    /\ run.at \in TombstoneSteps =>
         /\ run.todo \subseteq Unreleased(marker.archives)
         /\ \A a \in pins \cap Unreleased(marker.archives) :
              a \in run.todo \/ (run.at = "TombstoneRelease" /\ a = run.now)
    /\ run.at \in {"TombstoneRelease", "TombstoneSeal"} => run.now \in DOMAIN archives
    /\ run.at = "TombstoneSeal" => run.now \notin pins

Archiving ==
    /\ run.at \in RequestSteps =>
         /\ run.todo \subseteq DOMAIN marker.train.records
         /\ \A a \in pins : a \in run.todo \/ (run.at = "Release" /\ a = run.now)
         /\ \A a \in DOMAIN marker.train.records \ run.todo :
              a \in DOMAIN archives /\ archives[a].outcome = marker.train.records[a]
    /\ run.at \in {"Release", "Seal"} => run.now \in DOMAIN archives
    /\ run.at = "Seal" => run.now \notin pins
    /\ run.at \in {"Receipt", "Unmark"} => journal = NewJournal("new")

IInv ==
    /\ TypeOK /\ Exclusive /\ Marked /\ Freed /\ RootsAccounted
    /\ Retiring /\ Entombing /\ Archiving

-----------------------------------------------------------------------------
(* Partial functions.                                                      *)

\* A partial function is a function on its own domain.
LEMMA PartialIs ==
    ASSUME NEW S, NEW T, NEW f
    PROVE  f \in Partial(S, T) <=> DOMAIN f \subseteq S /\ f \in [DOMAIN f -> T]
  BY DEF Partial

LEMMA WithTyped ==
    ASSUME NEW S, NEW T, NEW f \in Partial(S, T), NEW a \in S, NEW x \in T
    PROVE  With(f, a, x) \in Partial(S, T)
<1>1. DOMAIN f \subseteq S /\ f \in [DOMAIN f -> T]
  BY PartialIs
<1>2. With(f, a, x) \in [DOMAIN f \cup {a} -> T]
  BY <1>1 DEF With
<1> QED
  BY <1>1, <1>2, PartialIs

LEMMA WithoutIs ==
    ASSUME NEW f, NEW a
    PROVE  /\ DOMAIN Without(f, a) = DOMAIN f \ {a}
           /\ \A b \in DOMAIN f \ {a} : Without(f, a)[b] = f[b]
  BY DEF Without, Restrict

LEMMA WithoutTyped ==
    ASSUME NEW S, NEW T, NEW f \in Partial(S, T), NEW a
    PROVE  Without(f, a) \in Partial(S, T)
<1>1. DOMAIN f \subseteq S /\ f \in [DOMAIN f -> T]
  BY PartialIs
<1>2. Without(f, a) \in [DOMAIN f \ {a} -> T]
  BY <1>1 DEF Without, Restrict
<1> QED
  BY <1>1, <1>2, PartialIs

\* What g is when it is f with one archive added, and with one sealed.
Added(f, a, x, g) ==
    /\ g \in Partial(Attempts, Archive)
    /\ DOMAIN g = DOMAIN f \cup {a}
    /\ g[a] = x
    /\ \A b \in DOMAIN f : b # a => g[b] = f[b]

Sealed(f, a, g) ==
    /\ g \in Partial(Attempts, Archive)
    /\ DOMAIN g = DOMAIN f
    /\ g[a].released
    /\ \A b \in DOMAIN f : g[b].outcome = f[b].outcome /\ g[b].policy = f[b].policy
    /\ \A b \in DOMAIN f \ {a} : g[b] = f[b]
    /\ f[a].released => g[a] = f[a]

\* Adding an archive leaves the others.
LEMMA AddedIs ==
    ASSUME NEW f \in Partial(Attempts, Archive), NEW a \in Attempts, NEW x \in Archive
    PROVE  Added(f, a, x, With(f, a, x))
<1>1. With(f, a, x) \in Partial(Attempts, Archive)
  BY WithTyped
<1>2. /\ DOMAIN With(f, a, x) = DOMAIN f \cup {a}
      /\ With(f, a, x)[a] = x
      /\ \A b \in DOMAIN f : b # a => With(f, a, x)[b] = f[b]
  BY ONLY TRUE DEF With
<1> QED
  BY <1>1, <1>2 DEF Added

\* Sealing an archive changes its flag.
LEMMA SealedIs ==
    ASSUME NEW f \in Partial(Attempts, Archive), NEW a \in DOMAIN f
    PROVE  Sealed(f, a, [f EXCEPT ![a].released = TRUE])
<1> DEFINE g == [f EXCEPT ![a].released = TRUE]
<1>1. DOMAIN f \subseteq Attempts /\ f \in [DOMAIN f -> Archive]
  BY PartialIs
<1>2. f[a] \in Archive
  BY <1>1
<1>3. g \in [DOMAIN f -> Archive]
  BY <1>1, <1>2 DEF Archive
<1>4. g \in Partial(Attempts, Archive)
  BY <1>1, <1>3, PartialIs
<1> QED
  BY <1>1, <1>2, <1>4 DEF Archive, Sealed

LEMMA NewJournalIs ==
    ASSUME NEW p \in Policies
    PROVE  NewJournal(p) \in Journal /\ DOMAIN NewJournal(p).records = {}
<1>1. [a \in {} |-> "Ready"] \in Partial(Attempts, Outcomes)
  BY PartialIs
<1> QED
  BY <1>1 DEF NewJournal, Journal

\* What is in a typed journal, archive and marker.
LEMMA Contents ==
    ASSUME TypeOK
    PROVE  /\ Records \in Partial(Attempts, Outcomes)
           /\ DOMAIN Records \subseteq Attempts
           /\ \A a \in DOMAIN Records : Records[a] \in Outcomes
           /\ DOMAIN archives \subseteq Attempts
           /\ \A a \in DOMAIN archives : archives[a] \in Archive
           /\ marker # None =>
                /\ marker.train \in Journal
                /\ DOMAIN marker.train.records \subseteq Attempts
                /\ \A a \in DOMAIN marker.train.records : marker.train.records[a] \in Outcomes
                /\ marker.archives \in Partial(Attempts, Archive)
                /\ DOMAIN marker.archives \subseteq Attempts
<1>1. Records \in Partial(Attempts, Outcomes)
  BY DEF TypeOK, Journal, Records
<1>2. DOMAIN Records \subseteq Attempts /\ Records \in [DOMAIN Records -> Outcomes]
  BY <1>1, PartialIs
<1>3. DOMAIN archives \subseteq Attempts /\ archives \in [DOMAIN archives -> Archive]
  BY PartialIs DEF TypeOK
<1>4. ASSUME marker # None
      PROVE  /\ marker.train \in Journal
             /\ marker.train.records \in Partial(Attempts, Outcomes)
             /\ marker.archives \in Partial(Attempts, Archive)
  BY <1>4 DEF TypeOK, Marker, Journal
<1>5. ASSUME marker # None
      PROVE  /\ DOMAIN marker.train.records \subseteq Attempts
             /\ marker.train.records \in [DOMAIN marker.train.records -> Outcomes]
             /\ DOMAIN marker.archives \subseteq Attempts
  BY <1>4, <1>5, PartialIs
<1> QED
  BY <1>1, <1>2, <1>3, <1>4, <1>5

-----------------------------------------------------------------------------
(* The steps.                                                              *)

LEMMA InitIInv == ConstantsSound /\ Init => IInv
<1>1. [a \in {} |-> NewJournal("old")] \in Partial(Attempts, Archive)
  BY PartialIs
<1>2. NewJournal("old") \in Journal /\ DOMAIN NewJournal("old").records = {}
  BY NewJournalIs DEF Policies
<1> QED
  BY <1>1, <1>2 DEF ConstantsSound, Init, Idle, IInv, TypeOK, Run, Steps, Exclusive, Marked,
     Freed, RootsAccounted, Retiring, Entombing, Archiving, Records,
     ServiceSteps, TombstoneSteps, RequestSteps

\* The invariant without its records: what a step that leaves the files has to show.
LEMMA RunSteps ==
    ASSUME ConstantsSound, IInv, UNCHANGED files,
           \/ ServiceStop \/ RetireFails \/ Stop \/ TombstonesDone
           \/ \E a \in Attempts : RetireAgain(a) \/ NextTombstone(a) \/ Differs(a)
           \/ \E t \in Tokens : Resume(t)
           \/ UNCHANGED vars
    PROVE  IInv'
<1> USE DEF ConstantsSound, IInv, TypeOK, Exclusive, Marked, Freed, RootsAccounted, Retiring,
            Entombing, Archiving, Records, files, Run, Steps, Unreleased,
            ServiceSteps, TombstoneSteps, RequestSteps
<1>2. CASE ServiceStop
  BY <1>2 DEF ServiceStop, Idle
<1>3. CASE RetireFails
  <2>1. run' \in Run /\ run'.at = "Service" /\ marker = None /\ run.at # "Idle"
    BY <1>3 DEF RetireFails
  <2>2. stops' \in 0..MaxStops
    BY <1>3 DEF RetireFails
  <2> QED
    BY <2>1, <2>2
<1>4. CASE Stop
  BY <1>4 DEF Stop, Idle
<1>5. CASE TombstonesDone
  BY <1>5, Contents DEF TombstonesDone
<1>6. ASSUME NEW a \in Attempts, RetireAgain(a) PROVE IInv'
  BY <1>6 DEF RetireAgain
<1>7. ASSUME NEW a \in Attempts, NextTombstone(a) PROVE IInv'
  BY <1>7, Contents DEF NextTombstone
<1>8. ASSUME NEW a \in Attempts, Differs(a) PROVE IInv'
  BY <1>8 DEF Differs, Idle
<1>9. ASSUME NEW t \in Tokens, Resume(t) PROVE IInv'
  <2>1. run' = [at |-> "Tombstones", now |-> None, todo |-> Unreleased(marker.archives)]
    BY <1>9 DEF Resume, TombstonesOf
  <2>2. marker # None /\ Unreleased(marker.archives) \subseteq Attempts
    BY <1>9, Contents DEF Resume
  <2>3. run' \in Run
    BY <2>1, <2>2
  <2>4. UNCHANGED <<stops, files>>
    BY <1>9 DEF Resume
  <2> QED
    BY <2>1, <2>2, <2>3, <2>4
<1>10. CASE UNCHANGED vars
  BY <1>10 DEF vars
<1> QED
  BY <1>2, <1>3, <1>4, <1>5, <1>6, <1>7, <1>8, <1>9, <1>10

\* The service starts: it retains the roots of every record.
LEMMA ServiceStarts == ASSUME ConstantsSound, IInv, ServiceStart PROVE IInv'
<1>1. /\ run = Idle /\ marker = None /\ pins' = pins \cup DOMAIN Records
      /\ run' = [Idle EXCEPT !.at = "Service"]
      /\ UNCHANGED <<journal, archives, marker, receipts, stops>>
  BY DEF ServiceStart, Goto
<1>2. run' \in Run /\ run'.at = "Service"
  BY <1>1 DEF Idle, Run, Steps
<1>3. TypeOK'
  BY <1>1, <1>2, Contents DEF IInv, TypeOK
<1> QED
  BY <1>1, <1>2, <1>3 DEF IInv, Exclusive, Marked, Freed, RootsAccounted, Retiring,
     Entombing, Archiving, Records, ServiceSteps, TombstoneSteps, RequestSteps

\* The service takes a request, whose roots it may fail to retain.
LEMMA ServiceIntake ==
    ASSUME ConstantsSound, IInv, NEW a \in Attempts,
           Intake(a) \/ IntakeStops(a) \/ \E o \in Outcomes : IntakeFails(a, o)
    PROVE  IInv' /\ DOMAIN Records \subseteq DOMAIN Records' /\ pins \subseteq pins'
<1> USE DEF Exclusive, Marked, Freed, RootsAccounted, Retiring, Entombing, Archiving, Records,
            ServiceSteps, TombstoneSteps, RequestSteps
<1>0. IInv
  OBVIOUS
<1>1. PICK o \in {"Pending", "Failed"} :
        journal' = [journal EXCEPT !.records = With(journal.records, a, o)]
  BY DEF Intake, IntakeFails, IntakeStops
<1>2. /\ run.at = "Service" /\ marker = None /\ pins' \in {pins, pins \cup {a}}
      /\ a \notin DOMAIN journal.records /\ a \notin DOMAIN archives
      /\ run' \in {run, Idle} /\ UNCHANGED <<archives, marker, receipts, stops>>
  BY <1>0 DEF Intake, IntakeFails, IntakeStops, CanIntake, IInv
<1>3. journal.records \in Partial(Attempts, Outcomes) /\ o \in Outcomes
  BY <1>0, Contents DEF Outcomes, Ended, IInv
<1>4. /\ With(journal.records, a, o) \in Partial(Attempts, Outcomes)
      /\ DOMAIN With(journal.records, a, o) = DOMAIN journal.records \cup {a}
      /\ With(journal.records, a, o)[a] = o
      /\ \A b \in DOMAIN journal.records :
           b # a => With(journal.records, a, o)[b] = journal.records[b]
  <2>1. journal.records \in Partial(Attempts, Outcomes) /\ o \in Outcomes /\ a \in Attempts
    BY <1>3
  <2>2. With(journal.records, a, o) \in Partial(Attempts, Outcomes)
    BY ONLY <2>1, WithTyped
  <2>3. /\ DOMAIN With(journal.records, a, o) = DOMAIN journal.records \cup {a}
        /\ With(journal.records, a, o)[a] = o
        /\ \A b \in DOMAIN journal.records :
             b # a => With(journal.records, a, o)[b] = journal.records[b]
    BY ONLY TRUE DEF With
  <2> QED
    BY ONLY <2>2, <2>3
<1>5. /\ journal' \in Journal /\ journal'.policy = journal.policy
      /\ DOMAIN journal'.records = DOMAIN journal.records \cup {a}
      /\ journal'.records[a] = o
      /\ \A b \in DOMAIN journal.records : journal'.records[b] = journal.records[b]
  BY <1>0, <1>1, <1>2, <1>4 DEF Journal, IInv, TypeOK
<1>6. Idle \in Run /\ Idle.at = "Idle"
  BY DEF Idle, Run, Steps
<1>7. TypeOK'
  BY <1>0, <1>2, <1>5, <1>6 DEF TypeOK, IInv
<1>8. RootsAccounted'
  <2>1. \A b \in DOMAIN journal'.records :
          journal'.records[b] = "Ready" => b \in pins' \cup DOMAIN archives'
    BY <1>0, <1>2, <1>5 DEF IInv
  <2>2. \A b \in pins' \ DOMAIN journal'.records : b \in pins \ DOMAIN journal.records
    BY <1>2, <1>5
  <2> QED
    BY <1>0, <1>2, <1>5, <2>1, <2>2 DEF IInv
<1>9. Exclusive' /\ Marked' /\ Freed' /\ Retiring' /\ Entombing' /\ Archiving'
  BY <1>0, <1>2, <1>5, <1>6 DEF IInv
<1> QED
  BY <1>2, <1>5, <1>7, <1>8, <1>9 DEF IInv

\* A record changes its outcome; one that is pending again is retained.
LEMMA ServiceRecords ==
    ASSUME ConstantsSound, IInv, NEW a \in Attempts,
           Reopen(a) \/ \E o \in Outcomes : Settle(a, o)
    PROVE  IInv' /\ DOMAIN Records = DOMAIN Records' /\ pins \subseteq pins'
<1> USE DEF Exclusive, Marked, Freed, RootsAccounted, Retiring, Entombing, Archiving, Records,
            ServiceSteps, TombstoneSteps, RequestSteps
<1>0. IInv
  OBVIOUS
<1>1. PICK o \in Outcomes :
        /\ journal' = [journal EXCEPT !.records[a] = o]
        /\ o = "Ready" => a \in pins'
  BY DEF Reopen, Settle, Outcomes
<1>2. /\ run.at = "Service" /\ marker = None /\ pins' \in {pins, pins \cup {a}}
      /\ a \in DOMAIN journal.records
      /\ UNCHANGED <<archives, marker, receipts, run, stops>>
  BY <1>0 DEF IInv, Reopen, Settle
<1>3. /\ journal.records \in [DOMAIN journal.records -> Outcomes]
      /\ DOMAIN journal.records \subseteq Attempts
  BY <1>0, Contents, PartialIs DEF IInv
<1>4. [journal.records EXCEPT ![a] = o] \in Partial(Attempts, Outcomes)
  BY <1>3, PartialIs
<1>5. /\ journal' \in Journal /\ journal'.policy = journal.policy
      /\ DOMAIN journal'.records = DOMAIN journal.records
      /\ journal'.records[a] = o
      /\ \A b \in DOMAIN journal.records : b # a => journal'.records[b] = journal.records[b]
  BY <1>0, <1>1, <1>2, <1>3, <1>4 DEF Journal, TypeOK, IInv
<1>6. TypeOK'
  BY <1>0, <1>2, <1>3, <1>5 DEF TypeOK, IInv
<1>7. RootsAccounted'
  <2>1. \A b \in DOMAIN journal'.records :
          journal'.records[b] = "Ready" => b \in pins' \cup DOMAIN archives'
    BY <1>0, <1>1, <1>2, <1>5 DEF IInv
  <2>2. \A b \in pins' \ DOMAIN journal'.records : b \in pins \ DOMAIN journal.records
    BY <1>2, <1>5
  <2> QED
    BY <1>0, <1>2, <1>5, <2>1, <2>2 DEF IInv
<1>8. Exclusive' /\ Marked' /\ Freed' /\ Retiring' /\ Entombing' /\ Archiving'
  BY <1>0, <1>2, <1>5 DEF IInv
<1> QED
  BY <1>2, <1>5, <1>6, <1>7, <1>8 DEF IInv

LEMMA ServiceFence ==
    ASSUME ConstantsSound, IInv,
           (\E a \in Attempts, t \in Tokens : SetFence(a, t)) \/ ReleaseFence
    PROVE  IInv' /\ UNCHANGED <<Records, pins, archives>>
<1>1. /\ run.at = "Service" /\ marker = None
      /\ UNCHANGED <<archives, pins, marker, receipts, run, stops>>
  BY DEF SetFence, ReleaseFence, IInv, Exclusive, ServiceSteps
<1>2. PICK f \in Fence \cup {None} : journal' = [journal EXCEPT !.fence = f]
  BY DEF SetFence, ReleaseFence, Fence
<1>3. journal' \in Journal /\ UNCHANGED <<journal.records, journal.policy>>
  BY <1>2 DEF IInv, TypeOK, Journal
<1> QED
  BY <1>1, <1>3 DEF IInv, TypeOK, Exclusive, Marked, Freed, RootsAccounted, Retiring,
     Entombing, Archiving, Records, ServiceSteps, TombstoneSteps, RequestSteps

\* Retirement: archive, journal, roots, seal.
LEMMA RetireSteps ==
    ASSUME ConstantsSound, IInv,
           (\E a \in Attempts : RetireArchive(a)) \/ RetireJournal \/ RetireRelease \/ RetireSeal
    PROVE  IInv'
<1> USE DEF ConstantsSound, IInv, Exclusive, Marked, Freed, RootsAccounted, Retiring,
            Entombing, Archiving, Records, ServiceSteps, TombstoneSteps, RequestSteps
<1>0. marker = None /\ UNCHANGED <<marker, receipts, stops>>
  BY DEF RetireArchive, RetireJournal, RetireRelease, RetireSeal
<1>1. ASSUME NEW a \in Attempts, RetireArchive(a) PROVE IInv'
  <2> DEFINE x == ArchiveOf(a, FALSE)
  <2>1. x \in Archive /\ x.outcome = journal.records[a] /\ x.policy = journal.policy /\ ~x.released
    BY <1>1, Contents DEF RetireArchive, ArchiveOf, Archive, TypeOK, Journal
  <2>2. archives' = With(archives, a, x)
    BY <1>1 DEF RetireArchive
  <2> HIDE DEF x
  <2>a. archives \in Partial(Attempts, Archive) /\ x \in Archive
    BY <2>1 DEF TypeOK
  <2>3. Added(archives, a, x, archives')
    BY ONLY <2>2, <2>a, AddedIs, a \in Attempts
  <2>4. /\ run' \in Run /\ run'.at = "RetireJournal" /\ run'.now = a
        /\ a \in DOMAIN journal.records /\ UNCHANGED <<journal, pins>> /\ run.at = "Service"
    BY <1>1 DEF RetireArchive, Run, Steps, TypeOK
  <2>5. TypeOK'
    BY <1>0, <2>3, <2>4 DEF TypeOK, Added
  <2> QED
    BY <1>0, <2>1, <2>3, <2>4, <2>5 DEF Added
<1>2. CASE RetireJournal
  <2>1. /\ run' \in Run /\ run'.at = "RetireRelease" /\ run'.now = run.now
        /\ UNCHANGED <<archives, pins>>
    BY <1>2 DEF RetireJournal, Goto, Run, Steps, TypeOK
  <2>a. journal.records \in Partial(Attempts, Outcomes)
    BY Contents
  <2>2. /\ Without(journal.records, run.now) \in Partial(Attempts, Outcomes)
        /\ DOMAIN Without(journal.records, run.now) = DOMAIN journal.records \ {run.now}
        /\ \A b \in DOMAIN journal.records \ {run.now} :
             Without(journal.records, run.now)[b] = journal.records[b]
    BY ONLY <2>a, WithoutIs, WithoutTyped
  <2>3. /\ journal' \in Journal /\ journal'.policy = journal.policy
        /\ DOMAIN journal'.records = DOMAIN journal.records \ {run.now}
        /\ \A b \in DOMAIN journal'.records : journal'.records[b] = journal.records[b]
    BY <1>2, <2>2 DEF RetireJournal, TypeOK, Journal
  <2>4. TypeOK'
    BY <1>0, <2>1, <2>3 DEF TypeOK
  <2> QED
    BY <1>0, <1>2, <2>1, <2>3, <2>4 DEF RetireJournal
<1>3. CASE RetireRelease
  <2>1. /\ run' \in Run /\ run'.at = "RetireSeal" /\ run'.now = run.now
        /\ pins' = pins \ {run.now} /\ UNCHANGED <<archives, journal>>
    BY <1>3 DEF RetireRelease, Goto, Run, Steps, TypeOK
  <2>2. TypeOK'
    BY <1>0, <2>1 DEF TypeOK
  <2> QED
    BY <1>0, <1>3, <2>1, <2>2 DEF RetireRelease
<1>4. CASE RetireSeal
  <2>1. /\ run' \in Run /\ run'.at = "Service" /\ UNCHANGED <<pins, journal>>
        /\ run.at = "RetireSeal"
        /\ run.now \in DOMAIN archives \ DOMAIN journal.records /\ run.now \notin pins
        /\ archives' = [archives EXCEPT ![run.now].released = TRUE]
    BY <1>4 DEF RetireSeal, Run, Steps, TypeOK
  <2>a. archives \in Partial(Attempts, Archive)
    BY DEF TypeOK
  <2>2. Sealed(archives, run.now, archives')
    BY ONLY <2>1, <2>a, SealedIs
  <2>3. TypeOK'
    BY <1>0, <2>1, <2>2 DEF TypeOK, Sealed
  <2> QED
    BY <1>0, <2>1, <2>2, <2>3 DEF Sealed
<1> QED
  BY <1>1, <1>2, <1>3, <1>4

\* The handover begins with the files as they are.
LEMMA BeginStep ==
    ASSUME ConstantsSound, IInv, NEW t \in Tokens, Begin(t)
    PROVE  IInv'
<1>t. TypeOK /\ RootsAccounted /\ Freed /\ run = Idle /\ marker = None
  BY DEF IInv, Begin
<1>1. /\ marker' = [token |-> t, train |-> journal, archives |-> archives]
      /\ UNCHANGED <<journal, archives, pins, receipts, stops>>
  BY DEF Begin
<1>2. marker' \in Marker /\ marker' # None
  BY <1>t, <1>1 DEF TypeOK, Marker, ConstantsSound
<1>3. run' = [at |-> "Tombstones", now |-> None, todo |-> Unreleased(archives)]
  BY <1>1 DEF Begin, TombstonesOf
<1>4. Unreleased(archives) \subseteq DOMAIN archives /\ DOMAIN archives \subseteq Attempts
  BY <1>t, Contents DEF Unreleased
<1>5. run' \in Run /\ run'.at = "Tombstones" /\ run'.todo = Unreleased(archives)
  BY <1>3, <1>4 DEF Run, Steps
<1>6. TypeOK'
  BY <1>t, <1>1, <1>2, <1>5 DEF TypeOK
<1>7. marker'.train = journal /\ marker'.archives = archives
  BY <1>1
<1>8. Marked'
  BY <1>t, <1>1, <1>2, <1>7 DEF Marked, RootsAccounted, Unreleased, Records
<1>9. Freed' /\ RootsAccounted'
  BY <1>t, <1>1, <1>2 DEF Freed, RootsAccounted, Records
<1>10. Entombing'
  BY <1>1, <1>5, <1>7 DEF Entombing, TombstoneSteps, Unreleased
<1>11. Exclusive' /\ Retiring' /\ Archiving'
  BY <1>2, <1>5 DEF Exclusive, Retiring, Archiving, ServiceSteps, RequestSteps
<1> QED
  BY <1>6, <1>8, <1>9, <1>10, <1>11 DEF IInv

\* Releasing one request's roots, in either loop.
LEMMA ReleaseSteps ==
    ASSUME ConstantsSound, IInv, TombstoneRelease \/ Release
    PROVE  IInv'
<1> USE DEF IInv, Exclusive, Marked, Freed, RootsAccounted, Retiring, Entombing, Archiving,
            Records, Unreleased, ServiceSteps, TombstoneSteps, RequestSteps
<1>1. /\ UNCHANGED <<journal, archives, marker, receipts, stops>>
      /\ pins' = pins \ {run.now} /\ run.now \in DOMAIN archives
      /\ run' \in Run /\ run'.now = run.now /\ run'.todo = run.todo
  BY DEF TombstoneRelease, Release, Goto, TypeOK, Run, Steps
<1>2. TypeOK'
  BY <1>1 DEF TypeOK
<1>3. CASE TombstoneRelease
  <2>1. run.at = "TombstoneRelease" /\ run'.at = "TombstoneSeal"
    BY <1>3 DEF TombstoneRelease, Goto, TypeOK, Run
  <2> QED
    BY <1>1, <1>2, <2>1
<1>4. CASE Release
  <2>1. run.at = "Release" /\ run'.at = "Seal"
    BY <1>4 DEF Release, Goto, TypeOK, Run
  <2> QED
    BY <1>1, <1>2, <2>1
<1> QED
  BY <1>3, <1>4

\* Recording the release, in either loop.
LEMMA SealSteps ==
    ASSUME ConstantsSound, IInv, TombstoneSeal \/ Seal
    PROVE  IInv'
<1> USE DEF IInv, Exclusive, Marked, Freed, RootsAccounted, Retiring, Entombing, Archiving,
            Records, Unreleased, ServiceSteps, TombstoneSteps, RequestSteps
<1>1. /\ UNCHANGED <<journal, pins, marker, receipts, stops>>
      /\ archives' = [archives EXCEPT ![run.now].released = TRUE]
      /\ run.now \in DOMAIN archives /\ run.now \notin pins
      /\ run' \in Run /\ run'.now = run.now /\ run'.todo = run.todo
      /\ marker # None
  BY DEF TombstoneSeal, Seal, Goto, TypeOK, Run, Steps
<1>2. archives \in Partial(Attempts, Archive)
  BY DEF TypeOK
<1>3. Sealed(archives, run.now, archives')
  BY ONLY <1>1, <1>2, SealedIs
<1>4. TypeOK'
  BY <1>1, <1>3 DEF TypeOK, Sealed
<1>5. CASE TombstoneSeal
  <2>1. run.at = "TombstoneSeal" /\ run'.at = "Tombstones"
    BY <1>5 DEF TombstoneSeal, Goto, TypeOK, Run
  <2> QED
    BY <1>1, <1>3, <1>4, <2>1 DEF Sealed
<1>6. CASE Seal
  <2>1. run.at = "Seal" /\ run'.at = "Requests"
    BY <1>6 DEF Seal, Goto, TypeOK, Run
  <2> QED
    BY <1>1, <1>3, <1>4, <2>1 DEF Sealed
<1> QED
  BY <1>5, <1>6

\* Archiving a request: a released archive that agrees has no pin to free.
LEMMA RequestStep ==
    ASSUME ConstantsSound, IInv, NEW a \in Attempts, ArchiveRequest(a)
    PROVE  /\ IInv'
           /\ UNCHANGED <<journal, pins>>
           /\ Added(archives, a, Evidence(a), archives')
<1> USE DEF IInv, Exclusive, Marked, Freed, RootsAccounted, Retiring, Entombing, Archiving,
            Records, ServiceSteps, TombstoneSteps, RequestSteps
<1> DEFINE x == Evidence(a)
<1>1. /\ UNCHANGED <<journal, pins, marker, receipts, stops>>
      /\ archives' = With(archives, a, x)
      /\ run.at = "Requests" /\ a \in run.todo /\ marker # None
      /\ a \in DOMAIN marker.train.records
      /\ a \in DOMAIN archives => archives[a] = x
  BY DEF ArchiveRequest, Agrees
<1>2. /\ x \in Archive /\ x.outcome = marker.train.records[a]
      /\ x.released => a \in DOMAIN archives /\ archives[a].released
  BY <1>1, Contents DEF Evidence, Archive, Policies
<1>3. /\ run'.at = IF x.released THEN "Requests" ELSE "Release"
      /\ run'.now = a /\ run'.todo = run.todo \ {a} /\ run' \in Run
  BY DEF ArchiveRequest, TypeOK, Run, Steps
<1> HIDE DEF x
<1>4. archives \in Partial(Attempts, Archive)
  BY DEF TypeOK
<1>5. Added(archives, a, x, archives')
  BY ONLY <1>1, <1>2, <1>4, AddedIs, a \in Attempts
<1>6. \A b \in DOMAIN archives : archives'[b] = archives[b]
  BY <1>1, <1>5 DEF Added
<1>7. DOMAIN archives' = DOMAIN archives \cup {a} /\ archives'[a] = x
  BY <1>5 DEF Added
<1>8. TypeOK'
  BY <1>1, <1>3, <1>5 DEF TypeOK, Added
<1>9. Exclusive' /\ Marked'
  BY <1>1, <1>3, <1>7
<1>10. Freed'
  BY <1>1, <1>2, <1>6, <1>7
<1>11. RootsAccounted'
  BY <1>1, <1>6, <1>7
<1>12. Retiring' /\ Entombing'
  BY <1>1, <1>3, <1>7
<1>13. Archiving'
  BY <1>1, <1>2, <1>3, <1>6, <1>7
<1> QED
  BY <1>1, <1>5, <1>8, <1>9, <1>10, <1>11, <1>12, <1>13 DEF x

\* The journal is replaced when no pin is left and every request is archived.
LEMMA PublishStep ==
    ASSUME ConstantsSound, IInv, Publish
    PROVE  /\ IInv'
           /\ UNCHANGED <<archives, pins>>
           /\ \A a \in DOMAIN Records : a \in DOMAIN archives /\ archives[a].outcome = Records[a]
<1> USE DEF IInv, Exclusive, Marked, Freed, RootsAccounted, Retiring, Entombing, Archiving,
            Records, ServiceSteps, TombstoneSteps, RequestSteps
<1>1. /\ UNCHANGED <<archives, pins, marker, receipts, stops>>
      /\ run.at = "Requests" /\ run.todo = {} /\ marker # None /\ pins = {}
      /\ journal' = NewJournal("new")
  BY DEF Publish
<1>2. NewJournal("new") \in Journal /\ DOMAIN NewJournal("new").records = {}
  BY NewJournalIs DEF Policies
<1>3. run' \in Run /\ run'.at = "Receipt"
  BY DEF Publish, Goto, TypeOK, Run, Steps
<1>4. TypeOK'
  BY <1>1, <1>2, <1>3 DEF TypeOK
<1>5. \A a \in DOMAIN Records : a \in DOMAIN archives /\ archives[a].outcome = Records[a]
  BY <1>1, <1>2
<1> QED
  BY <1>1, <1>2, <1>3, <1>4, <1>5

LEMMA ReceiptSteps ==
    ASSUME ConstantsSound, IInv, Receipt \/ Unmark
    PROVE  IInv'
<1> USE DEF IInv, Exclusive, Marked, Freed, RootsAccounted, Retiring, Entombing, Archiving,
            Records, ServiceSteps, TombstoneSteps, RequestSteps
<1>1. /\ UNCHANGED <<journal, archives, pins, stops>>
      /\ marker # None /\ journal = NewJournal("new") /\ DOMAIN journal.records = {}
  BY NewJournalIs DEF Receipt, Unmark, Policies
<1>2. CASE Receipt
  <2>1. run' \in Run /\ run'.at = "Unmark" /\ marker' = marker
    BY <1>2 DEF Receipt, Goto, TypeOK, Run, Steps
  <2>2. receipts' \subseteq Tokens
    BY <1>1, <1>2 DEF Receipt, TypeOK, Marker
  <2>3. TypeOK'
    BY <1>1, <2>1, <2>2 DEF TypeOK
  <2> QED
    BY <1>1, <2>1, <2>3
<1>3. CASE Unmark
  <2>1. DOMAIN journal.records = {}
    BY <1>1, NewJournalIs DEF Policies
  <2>2. run' \in Run /\ run'.at = "Idle" /\ marker' = None /\ receipts' = receipts
    BY <1>3 DEF Unmark, Idle, Run, Steps
  <2>3. TypeOK'
    BY <1>1, <2>2 DEF TypeOK
  <2> QED
    BY <1>1, <2>1, <2>2, <2>3
<1> QED
  BY <1>2, <1>3

LEMMA NextIInv == ConstantsSound /\ IInv /\ [Next]_vars => IInv'
<1> SUFFICES ASSUME ConstantsSound, IInv, [Next]_vars PROVE IInv'
  OBVIOUS
<1>0. CASE ServiceStart
  BY <1>0, ServiceStarts
<1>1. CASE \/ ServiceStop \/ RetireFails \/ Stop \/ TombstonesDone
           \/ \E a \in Attempts : RetireAgain(a) \/ NextTombstone(a) \/ Differs(a)
           \/ \E t \in Tokens : Resume(t)
           \/ UNCHANGED vars
  <2>1. UNCHANGED files
    BY <1>1 DEF ServiceStop, RetireFails, Stop, TombstonesDone, RetireAgain,
       NextTombstone, Differs, Resume, files, vars
  <2> QED
    BY <1>1, <2>1, RunSteps
<1>2. ASSUME NEW a \in Attempts,
             Intake(a) \/ IntakeStops(a) \/ \E o \in Outcomes : IntakeFails(a, o)
      PROVE  IInv'
  BY <1>2, ServiceIntake
<1>11. ASSUME NEW a \in Attempts, Reopen(a) \/ \E o \in Outcomes : Settle(a, o) PROVE IInv'
  BY <1>11, ServiceRecords
<1>3. CASE (\E a \in Attempts, t \in Tokens : SetFence(a, t)) \/ ReleaseFence
  BY <1>3, ServiceFence
<1>4. CASE (\E a \in Attempts : RetireArchive(a)) \/ RetireJournal \/ RetireRelease \/ RetireSeal
  BY <1>4, RetireSteps
<1>5. ASSUME NEW t \in Tokens, Begin(t) PROVE IInv'
  BY <1>5, BeginStep
<1>6. CASE TombstoneRelease \/ Release
  BY <1>6, ReleaseSteps
<1>7. CASE TombstoneSeal \/ Seal
  BY <1>7, SealSteps
<1>8. ASSUME NEW a \in Attempts, ArchiveRequest(a) PROVE IInv'
  BY <1>8, RequestStep
<1>9. CASE Publish
  BY <1>9, PublishStep
<1>10. CASE Receipt \/ Unmark
  BY <1>10, ReceiptSteps
<1> QED
  BY <1>0, <1>1, <1>2, <1>3, <1>4, <1>5, <1>6, <1>7, <1>8, <1>9, <1>10, <1>11 DEF Next, Advance

\* A step that leaves the archives and takes no record or pin keeps the evidence.
LEMMA Untouched ==
    ASSUME DOMAIN Records \subseteq DOMAIN Records', pins \subseteq pins', UNCHANGED archives
    PROVE  KeepsEvidence
  BY DEF KeepsEvidence

\* What is released has its archive.
LEMMA ReleaseKeeps ==
    ASSUME ConstantsSound, IInv, RetireRelease \/ TombstoneRelease \/ Release
    PROVE  KeepsEvidence
<1>1. run.now \in DOMAIN archives
  BY DEF IInv, Retiring, Entombing, Archiving, RetireRelease, TombstoneRelease, Release
<1>2. pins' = pins \ {run.now} /\ UNCHANGED <<journal, archives>>
  BY DEF RetireRelease, TombstoneRelease, Release
<1> QED
  BY <1>1, <1>2 DEF KeepsEvidence, Records

\* Sealing only ever changes an archive that is not released.
LEMMA SealKeeps ==
    ASSUME ConstantsSound, IInv, RetireSeal \/ TombstoneSeal \/ Seal
    PROVE  KeepsEvidence
<1>1. /\ archives \in Partial(Attempts, Archive) /\ run.now \in DOMAIN archives
      /\ UNCHANGED <<journal, pins>>
      /\ archives' = [archives EXCEPT ![run.now].released = TRUE]
  BY DEF IInv, TypeOK, Retiring, Entombing, Archiving, RetireSeal, TombstoneSeal, Seal
<1>2. Sealed(archives, run.now, archives')
  BY ONLY <1>1, SealedIs
<1> QED
  BY <1>1, <1>2 DEF Sealed, KeepsEvidence, Records

LEMMA NextKeeps == ConstantsSound /\ IInv /\ [Next]_vars => [KeepsEvidence]_vars
<1> SUFFICES ASSUME ConstantsSound, IInv, Next PROVE KeepsEvidence
  OBVIOUS
<1>1. CASE UNCHANGED <<journal, archives, pins>>
  BY <1>1, Untouched DEF Records
<1>2. CASE RetireRelease \/ TombstoneRelease \/ Release
  BY <1>2, ReleaseKeeps
<1>3. ASSUME NEW a \in Attempts,
             \/ Intake(a) \/ IntakeStops(a) \/ Reopen(a)
             \/ \E o \in Outcomes : IntakeFails(a, o) \/ Settle(a, o)
      PROVE  KeepsEvidence
  <2>1. UNCHANGED archives
    BY <1>3 DEF Intake, IntakeFails, IntakeStops, Reopen, Settle
  <2> QED
    BY <1>3, <2>1, ServiceIntake, ServiceRecords, Untouched
<1>4. CASE (\E a \in Attempts, t \in Tokens : SetFence(a, t)) \/ ReleaseFence
  BY <1>4, ServiceFence, Untouched
<1>11. CASE ServiceStart
  BY <1>11, Untouched DEF ServiceStart, Records
<1>5. ASSUME NEW a \in Attempts, RetireArchive(a) PROVE KeepsEvidence
  <2> DEFINE x == ArchiveOf(a, FALSE)
  <2>1. /\ archives' = With(archives, a, x) /\ UNCHANGED <<journal, pins>>
        /\ a \in DOMAIN Records /\ marker = None
    BY <1>5 DEF RetireArchive, IInv, Exclusive, ServiceSteps
  <2>2. x \in Archive /\ archives \in Partial(Attempts, Archive)
    BY <2>1, Contents DEF IInv, TypeOK, Journal, ArchiveOf, Archive
  <2> HIDE DEF x
  <2>3. Added(archives, a, x, archives')
    BY ONLY <2>1, <2>2, AddedIs, a \in Attempts
  <2>4. a \in DOMAIN archives => ~archives[a].released
    BY <2>1 DEF IInv, Freed
  <2> QED
    BY <2>1, <2>3, <2>4 DEF Added, KeepsEvidence, Records
<1>6. CASE RetireJournal
  <2>1. /\ run.now \in DOMAIN archives /\ archives[run.now].outcome = Records[run.now]
        /\ UNCHANGED <<archives, pins>>
    BY <1>6 DEF RetireJournal, IInv, Retiring
  <2>2. journal'.records = Without(journal.records, run.now)
    BY <1>6 DEF RetireJournal, IInv, TypeOK, Journal, Records
  <2>3. DOMAIN Records' = DOMAIN Records \ {run.now}
    BY <2>2 DEF Records, Without, Restrict
  <2> QED
    BY <2>1, <2>3 DEF KeepsEvidence
<1>7. CASE RetireSeal \/ TombstoneSeal \/ Seal
  BY <1>7, SealKeeps
<1>8. ASSUME NEW a \in Attempts, ArchiveRequest(a) PROVE KeepsEvidence
  <2>1. UNCHANGED <<journal, pins>> /\ Added(archives, a, Evidence(a), archives')
    BY <1>8, RequestStep
  <2>2. a \in DOMAIN archives => archives[a] = Evidence(a)
    BY <1>8 DEF ArchiveRequest, Agrees
  <2> QED
    BY <2>1, <2>2 DEF Added, KeepsEvidence, Records
<1>9. CASE Publish
  BY <1>9, PublishStep DEF KeepsEvidence
<1>10. CASE UNCHANGED files
  BY <1>10, <1>1 DEF files
<1> QED
  BY <1>1, <1>2, <1>3, <1>4, <1>5, <1>6, <1>7, <1>8, <1>9, <1>10, <1>11
     DEF Next, Advance, ServiceStop, RetireAgain, RetireFails, Begin, Resume,
         TombstonesDone, Receipt, Unmark, NextTombstone, Differs, Stop

-----------------------------------------------------------------------------

LEMMA Invariance == Spec => []IInv
<1>1. Init => IInv
  BY InitIInv, RolloverAssumption
<1>2. IInv /\ [Next]_vars => IInv'
  BY NextIInv, RolloverAssumption
<1> QED
  BY <1>1, <1>2, PTL DEF Spec

\* Every reachable state of the files and of the run has its type.
THEOREM HandoverTyped == Spec => []TypeOK
<1>1. IInv => TypeOK
  BY DEF IInv
<1> QED
  BY <1>1, Invariance, PTL

\* Whatever crashes or fails between its writes, the store holds the roots of
\* every ready request until it is archived, and none that nobody will release.
THEOREM NoRootIsLost == Spec => []RootsAccounted
<1>1. IInv => RootsAccounted
  BY DEF IInv
<1> QED
  BY <1>1, Invariance, PTL

\* A request leaves the journal only with its outcome archived, a released
\* archive is final, and no roots are released of a request without one.
THEOREM NoEvidenceIsLost == Spec => EvidenceKept
<1>1. IInv /\ [Next]_vars => [KeepsEvidence]_vars
  BY NextKeeps, RolloverAssumption
<1> QED
  BY <1>1, Invariance, PTL DEF Spec, EvidenceKept
=============================================================================
