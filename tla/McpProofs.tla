------------------------------ MODULE McpProofs ------------------------------
(***************************************************************************)
(* Theorems about the reconciler, for any names, keys, values, places and  *)
(* manifests.                                                              *)
(***************************************************************************)
EXTENDS McpReconcile, TLAPS

-----------------------------------------------------------------------------
(* The inductive invariant.                                                *)

\* Some target wants an entry for k at p.
Serves(m, p, k) == \E n \in Names : Wants(m, n, p, k)

Runs == [at : {"Check", "Write"} \cup ClientFiles, manifest : Manifests,
         before : [Places -> Document], after : [Places -> Document],
         pending : Ledger, todo : SUBSET ClientFiles]

Typed == TypeOK /\ (run = Idle \/ run \in Runs)

\* What the ledger L accepts is in C.
Claimed(L, C) ==
    \A l \in Labels, k \in Keys :
      L[l] # None => \A v \in L[l].entries[k] : <<L[l].place, k, v>> \in C

\* Until the journal is saved, the plan is one for the ledger as it is.
Planned ==
    LET m == run.manifest
        s == Stripped(ledger, m, run.before)
    IN  /\ ~Edited(ledger, m, run.before)
        /\ ~Foreign(ledger, m, s)
        /\ run.after = After(m, s)
        /\ run.pending = Pending(ledger, m, s)
        /\ run.todo = {f \in ClientFiles : \E p \in At(f) : run.before[p] # run.after[p]}

\* A run leaves the wanted entries, and of the others some that it found.
Leaves(m, before, after) ==
    \A p \in Places, k \in Keys :
      IF Serves(m, p, k)
      THEN \E n \in Names : Wants(m, n, p, k) /\ after[p][k] = m[n].servers[k]
      ELSE after[p][k] \in {None, before[p][k]}

\* The ledger L accepts what manifest m wants.
Journals(L, C, m) ==
    \A n \in Names, p \in Places, k \in Keys :
      Wants(m, n, p, k) =>
        /\ L[<<n, None>>] # None
        /\ L[<<n, None>>].place = p
        /\ m[n].servers[k] \in L[<<n, None>>].entries[k]
        /\ <<p, k, m[n].servers[k]>> \in C

\* What a run replaces is in C, or the manifest retires it.
Permitted(C, m, before, after) ==
    \A p \in Places, k \in Keys :
      before[p][k] \notin {None, after[p][k]} =>
        \/ <<p, k, before[p][k]>> \in C
        \/ \E n \in Names : /\ m[n] # None
                            /\ m[n].place = p
                            /\ before[p][k] \in m[n].retire[k]

RunInv ==
    /\ Claimed(ledger, claims)
    /\ run.at = "Check" => Planned
    /\ run.at # "Idle" => Leaves(run.manifest, run.before, run.after)
    /\ run.at \notin {"Idle", "Check"} =>
         /\ Journals(ledger, claims, run.manifest)
         /\ Permitted(claims, run.manifest, run.before, run.after)

\* An entry it wrote is there as read or as written, and goes if it has an
\* owner and no target wants it.
MineAt(p, k) ==
    /\ docs[p][k] # None
    /\ run.at # "Idle" =>
         /\ docs[p][k] = IF run.at = "Check" \/ FileOf[p] \in run.todo \cup {run.at}
                         THEN run.before[p][k] ELSE run.after[p][k]
         /\ Answered(p, k) /\ ~Serves(run.manifest, p, k) => run.after[p][k] = None

MineInv ==
    /\ \A p \in Places, k \in Keys : <<p, k>> \in mine => MineAt(p, k)
    /\ run.at \in ClientFiles => run.at \notin run.todo

-----------------------------------------------------------------------------
(* Planning.                                                               *)

LEMMA LabelsSplit ==
    ASSUME ConstantsSound, NEW l \in Labels
    PROVE  /\ l[1] \in Names /\ l = <<l[1], l[2]>>
           /\ Current(l) => l = <<l[1], None>>
           /\ ~Current(l) => l[2] \in Places
BY DEF Labels, Current

LEMMA NamesLabel ==
    ASSUME ConstantsSound, NEW n \in Names
    PROVE  /\ <<n, None>> \in Labels /\ Current(<<n, None>>)
           /\ <<n, None>>[1] = n
           /\ \A p \in Places : <<n, p>> \in Labels /\ ~Current(<<n, p>>)
                                /\ <<n, p>>[1] = n /\ <<n, p>>[2] = p
BY DEF Labels, Current, ConstantsSound

LEMMA ManifestsTyped ==
    ASSUME ConstantsSound, NEW m \in Manifests, NEW n \in Names, m[n] # None
    PROVE  /\ m[n] \in Target /\ m[n].place \in Places
           /\ m[n].servers \in Document
           /\ Written(m, n) \in [Keys -> SUBSET Values]
<1>1. m[n] \in Target
  BY DEF ConstantsSound, Manifest
<1>2. m[n].place \in Places /\ m[n].servers \in Document
  BY <1>1 DEF Target
<1>3. \A k \in Keys : {m[n].servers[k]} \ {None} \in SUBSET Values
  BY <1>2 DEF Document
<1> QED
  BY <1>1, <1>2, <1>3 DEF Written

LEMMA StrippedTyped ==
    ASSUME NEW L, NEW m, NEW d \in [Places -> Document]
    PROVE  /\ Stripped(L, m, d) \in [Places -> Document]
           /\ \A p \in Places, k \in Keys : Stripped(L, m, d)[p][k] \in {None, d[p][k]}
BY DEF Stripped, Document

\* A run leaves what the manifest wants, and takes away the rest that is owned.
LEMMA AfterLeaves ==
    ASSUME ConstantsSound, NEW m \in Manifests, NEW s \in [Places -> Document]
    PROVE  /\ After(m, s) \in [Places -> Document]
           /\ Leaves(m, s, After(m, s))
<1> SUFFICES ASSUME NEW p \in Places, NEW k \in Keys
             PROVE  /\ After(m, s)[p][k] \in Values \cup {None}
                    /\ IF Serves(m, p, k)
                       THEN \E n \in Names :
                              Wants(m, n, p, k) /\ After(m, s)[p][k] = m[n].servers[k]
                       ELSE After(m, s)[p][k] \in {None, s[p][k]}
  <2>1. After(m, s) \in [Places -> Document]
    <3>1. \A p \in Places : DOMAIN After(m, s)[p] = Keys
                            /\ After(m, s)[p] = [k \in Keys |-> After(m, s)[p][k]]
      BY DEF After
    <3> QED
      BY <3>1 DEF After, Document
  <2> QED
    BY <2>1 DEF Leaves
<1> DEFINE here == {i \in Names : m[i] # None /\ m[i].place = p}
           wants(i) == m[i].servers[k] # None
<1>1. After(m, s)[p][k] = IF \E i \in here : wants(i)
                          THEN m[CHOOSE i \in here : wants(i)].servers[k]
                          ELSE IF \E i \in here : s[p][k] \in m[i].retire[k] THEN None
                          ELSE s[p][k]
  BY DEF After
<1>2. Serves(m, p, k) <=> \E i \in here : wants(i)
  BY DEF Serves, Wants
<1>3. s[p][k] \in Values \cup {None}
  BY DEF Document
<1>4. CASE \E i \in here : wants(i)
  <2>1. PICK n \in here : n = CHOOSE i \in here : wants(i) /\ wants(n)
    BY <1>4
  <2> QED
    BY <1>1, <1>2, <1>4, <2>1, ManifestsTyped DEF Document, Wants
<1>5. CASE ~ \E i \in here : wants(i)
  BY <1>1, <1>2, <1>3, <1>5
<1> QED
  BY <1>4, <1>5

\* A record goes on accepting what it did, and what the manifest writes there.
LEMMA AcceptingMore ==
    ASSUME ConstantsSound, NEW m \in Manifests, NEW o \in Owned \cup {None}
    PROVE  /\ Accepting(m, o) \in Owned \cup {None}
           /\ Accepting(m, o) = None <=> o = None
           /\ o # None =>
                /\ Accepting(m, o).place = o.place
                /\ \A k \in Keys :
                     /\ o.entries[k] \subseteq Accepting(m, o).entries[k]
                     /\ \A v \in Accepting(m, o).entries[k] \ o.entries[k] :
                          \E n \in Names : m[n] # None /\ m[n].place = o.place
                                            /\ v \in Written(m, n)[k]
<1>1. CASE o = None
  BY <1>1 DEF Accepting
<1>2. CASE o # None
  <2> DEFINE there == {i \in Names : m[i] # None /\ m[i].place = o.place}
             more(k) == UNION {Written(m, n)[k] : n \in there}
             entries == [k \in Keys |-> IF o.entries[k] = {} THEN {}
                                        ELSE o.entries[k] \cup more(k)]
  <2>1. o \in Owned /\ o.place \in Places /\ o.entries \in [Keys -> SUBSET Values]
    BY <1>2 DEF Owned
  <2>2. \A k \in Keys : more(k) \in SUBSET Values
    BY ManifestsTyped
  <2>3. entries \in [Keys -> SUBSET Values]
    BY <2>1, <2>2
  <2>4. Accepting(m, o) = [o EXCEPT !.entries = entries]
    BY <1>2 DEF Accepting
  <2>5. \A k \in Keys : /\ o.entries[k] \subseteq entries[k]
                        /\ entries[k] \ o.entries[k] \subseteq more(k)
    OBVIOUS
  <2> HIDE DEF entries
  <2>6. /\ Accepting(m, o) \in Owned /\ Accepting(m, o).place = o.place
        /\ Accepting(m, o).entries = entries
    BY <2>1, <2>3, <2>4 DEF Owned
  <2>7. Accepting(m, o) # None
    BY <2>6 DEF ConstantsSound
  <2> QED
    BY <1>2, <2>5, <2>6, <2>7
<1> QED
  BY <1>1, <1>2

\* What the record of a wanted target accepts until the end of the run.
LEMMA JournalledTyped ==
    ASSUME ConstantsSound, NEW L \in Ledger, NEW m \in Manifests,
           NEW s \in [Places -> Document], NEW n \in Names, m[n] # None
    PROVE  /\ Journalled(L, m, s, n) \in Owned
           /\ Journalled(L, m, s, n).place = m[n].place
           /\ \A k \in Keys : Journalled(L, m, s, n).entries[k] =
                (Written(m, n)[k]
                   \cup (IF m[n].servers[k] = None THEN {} ELSE {s[m[n].place][k]})
                   \cup (IF Owns(L, <<n, None>>, m[n].place, k)
                         THEN L[<<n, None>>].entries[k] ELSE {})) \ {None}
<1> DEFINE accepts(k) ==
      (Written(m, n)[k]
         \cup (IF m[n].servers[k] = None THEN {} ELSE {s[m[n].place][k]})
         \cup (IF Owns(L, <<n, None>>, m[n].place, k)
               THEN L[<<n, None>>].entries[k] ELSE {})) \ {None}
<1>1. m[n].place \in Places /\ Written(m, n) \in [Keys -> SUBSET Values]
  BY ManifestsTyped
<1>2. \A k \in Keys : s[m[n].place][k] \in Values \cup {None}
  BY <1>1 DEF Document
<1>3. \A k \in Keys : Owns(L, <<n, None>>, m[n].place, k)
                        => L[<<n, None>>].entries[k] \in SUBSET Values
  BY NamesLabel DEF Owns, Ledger, Owned
<1>4. \A k \in Keys : accepts(k) \in SUBSET Values
  BY <1>1, <1>2, <1>3
<1>5. Journalled(L, m, s, n) = [place |-> m[n].place, entries |-> [k \in Keys |-> accepts(k)]]
  BY DEF Journalled
<1> HIDE DEF accepts
<1>6. /\ Journalled(L, m, s, n) \in Owned
      /\ Journalled(L, m, s, n).place = m[n].place
      /\ \A k \in Keys : Journalled(L, m, s, n).entries[k] = accepts(k)
  BY <1>1, <1>4, <1>5 DEF Owned
<1> QED
  BY <1>6 DEF accepts

\* What a record of the journal is made from.
Source(L, m, s, l) ==
    IF Current(l) /\ m[l[1]] # None THEN Journalled(L, m, s, l[1])
    ELSE IF Moved(L, m, l) THEN L[<<l[1], None>>] ELSE L[l]

LEMMA SourceTyped ==
    ASSUME ConstantsSound, NEW L \in Ledger, NEW m \in Manifests,
           NEW s \in [Places -> Document], NEW l \in Labels
    PROVE  Source(L, m, s, l) \in Owned \cup {None}
<1>1. l[1] \in Names /\ <<l[1], None>> \in Labels
  BY LabelsSplit, NamesLabel
<1>2. L[l] \in Owned \cup {None} /\ L[<<l[1], None>>] \in Owned \cup {None}
  BY <1>1 DEF Ledger
<1> QED
  BY <1>1, <1>2, JournalledTyped DEF Source

LEMMA PendingTyped ==
    ASSUME ConstantsSound, NEW L \in Ledger, NEW m \in Manifests,
           NEW s \in [Places -> Document]
    PROVE  /\ Pending(L, m, s) \in Ledger
           /\ \A l \in Labels : Pending(L, m, s)[l] = Accepting(m, Source(L, m, s, l))
<1>1. Pending(L, m, s) = [l \in Labels |-> Accepting(m, Source(L, m, s, l))]
  BY DEF Pending, Source
<1>2. \A l \in Labels : Accepting(m, Source(L, m, s, l)) \in Owned \cup {None}
  BY SourceTyped, AcceptingMore
<1> QED
  BY <1>1, <1>2 DEF Ledger

LEMMA FinalTyped ==
    ASSUME ConstantsSound, NEW m \in Manifests
    PROVE  /\ Final(m) \in Ledger
           /\ \A l \in Labels : Final(m)[l] # None =>
                /\ Current(l) /\ m[l[1]] # None
                /\ Final(m)[l].place = m[l[1]].place
                /\ Final(m)[l].entries = Written(m, l[1])
           /\ \A n \in Names : m[n] # None => Final(m)[<<n, None>>] # None
<1> DEFINE record(n) == [place |-> m[n].place, entries |-> Written(m, n)]
<1>1. \A n \in Names : m[n] # None =>
        /\ record(n) \in Owned /\ record(n) # None
        /\ record(n).place = m[n].place /\ record(n).entries = Written(m, n)
  BY ManifestsTyped DEF Owned, ConstantsSound
<1>2. Final(m) = [l \in Labels |-> IF Current(l) /\ m[l[1]] # None
                                  THEN record(l[1]) ELSE None]
  BY DEF Final
<1>3. \A l \in Labels : l[1] \in Names
  BY LabelsSplit
<1> HIDE DEF record
<1>4. Final(m) \in Ledger
  BY <1>1, <1>2, <1>3 DEF Ledger
<1>5. \A l \in Labels : Final(m)[l] # None =>
        Current(l) /\ m[l[1]] # None /\ Final(m)[l] = record(l[1])
  BY <1>2
<1>6. ASSUME NEW n \in Names, m[n] # None
      PROVE  Final(m)[<<n, None>>] # None
  <2>1. <<n, None>> \in Labels /\ Current(<<n, None>>) /\ <<n, None>>[1] = n
    BY NamesLabel
  <2>2. Final(m)[<<n, None>>] = record(n)
    BY <1>2, <1>6, <2>1
  <2> QED
    BY <1>1, <1>6, <2>2
<1> QED
  BY <1>1, <1>3, <1>4, <1>5, <1>6

-----------------------------------------------------------------------------
(* What users registered.                                                  *)

\* An owned entry that no edit is seen in holds a value that was claimed.
LEMMA UneditedClaimed ==
    ASSUME NEW L, NEW C, Claimed(L, C), NEW m, NEW d, ~Edited(L, m, d),
           NEW l \in Labels, NEW p \in Places, NEW k \in Keys, Owns(L, l, p, k),
           d[p][k] # None, ~(WantedBy(m, l, p, k) /\ m[l[1]].servers[k] = d[p][k])
    PROVE  <<p, k, d[p][k]>> \in C
<1>1. d[p][k] \in L[l].entries[k]
  BY DEF Edited
<1> QED
  BY <1>1 DEF Claimed, Owns

\* D: the claims C, with what the manifest writes and adopts.
ClaimsToo(C, D, m, d) ==
    /\ C \subseteq D
    /\ \A n \in Names, p \in Places, k \in Keys :
         Wants(m, n, p, k) =>
           /\ <<p, k, m[n].servers[k]>> \in D
           /\ k \in m[n].adopt /\ d[p][k] # None => <<p, k, d[p][k]>> \in D

\* What is found where an entry is wanted is wanted too, or claimed.
LEMMA FoundClaimed ==
    ASSUME ConstantsSound, NEW L \in Ledger, NEW C, Claimed(L, C), NEW m \in Manifests,
           NEW d \in [Places -> Document], NEW D, ClaimsToo(C, D, m, d),
           ~Edited(L, m, d), ~Foreign(L, m, Stripped(L, m, d)),
           NEW n \in Names, NEW p \in Places, NEW k \in Keys, Wants(m, n, p, k),
           d[p][k] # None
    PROVE  <<p, k, d[p][k]>> \in D
<1> DEFINE s == Stripped(L, m, d)
<1>1. CASE s[p][k] = None
  <2>1. PICK l \in Labels : Owns(L, l, p, k) /\ ~WantedBy(m, l, p, k)
    BY <1>1 DEF Stripped
  <2> QED
    BY <2>1, UneditedClaimed DEF ClaimsToo
<1>2. CASE s[p][k] # None
  <2>1. s[p][k] = d[p][k]
    BY <1>2, StrippedTyped
  <2>2. CASE d[p][k] = m[n].servers[k]
    BY <2>2 DEF ClaimsToo
  <2>3. CASE d[p][k] # m[n].servers[k] /\ k \in m[n].adopt
    BY <2>3 DEF ClaimsToo
  <2>4. CASE d[p][k] # m[n].servers[k] /\ k \notin m[n].adopt
    <3>1. Owns(L, <<n, None>>, p, k)
      BY <1>2, <2>1, <2>4 DEF Foreign
    <3>2. /\ <<n, None>> \in Labels /\ <<n, None>>[1] = n
      BY NamesLabel
    <3> QED
      BY <2>4, <3>1, <3>2, UneditedClaimed DEF ClaimsToo
  <2> QED
    BY <2>2, <2>3, <2>4
<1> QED
  BY <1>1, <1>2

\* A plan replaces nothing but what is claimed or retired.
LEMMA PlanPermitted ==
    ASSUME ConstantsSound, NEW L \in Ledger, NEW C, Claimed(L, C), NEW m \in Manifests,
           NEW d \in [Places -> Document], NEW D, ClaimsToo(C, D, m, d),
           ~Edited(L, m, d), ~Foreign(L, m, Stripped(L, m, d))
    PROVE  Permitted(D, m, d, After(m, Stripped(L, m, d)))
<1> DEFINE s == Stripped(L, m, d)
           after == After(m, s)
<1> SUFFICES ASSUME NEW p \in Places, NEW k \in Keys, d[p][k] \notin {None, after[p][k]},
                    <<p, k, d[p][k]>> \notin D
             PROVE  \E n \in Names : /\ m[n] # None
                                     /\ m[n].place = p
                                     /\ d[p][k] \in m[n].retire[k]
  BY DEF Permitted
<1>1. ~Serves(m, p, k)
  BY FoundClaimed DEF Serves
<1>2. s[p][k] = d[p][k]
  <2>1. ASSUME NEW l \in Labels, Owns(L, l, p, k)
        PROVE  WantedBy(m, l, p, k)
    BY <2>1, UneditedClaimed DEF ClaimsToo
  <2> QED
    BY <2>1 DEF Stripped
<1>3. after[p][k] = IF \E i \in {n \in Names : m[n] # None /\ m[n].place = p} :
                         s[p][k] \in m[i].retire[k]
                    THEN None ELSE s[p][k]
  BY <1>1 DEF After, Serves, Wants
<1> QED
  BY <1>2, <1>3

LEMMA PendingClaimed ==
    ASSUME ConstantsSound, NEW L \in Ledger, NEW C, Claimed(L, C), NEW m \in Manifests,
           NEW d \in [Places -> Document], NEW D, ClaimsToo(C, D, m, d),
           ~Edited(L, m, d), ~Foreign(L, m, Stripped(L, m, d))
    PROVE  /\ Claimed(Pending(L, m, Stripped(L, m, d)), D)
           /\ Journals(Pending(L, m, Stripped(L, m, d)), D, m)
<1> DEFINE s == Stripped(L, m, d)
           P == Pending(L, m, s)
           written(n, p, k, v) == m[n] # None /\ m[n].place = p /\ v \in Written(m, n)[k]
<1>1. s \in [Places -> Document]
  BY StrippedTyped
<1>2. ASSUME NEW n \in Names, NEW p \in Places, NEW k \in Keys, NEW v, written(n, p, k, v)
      PROVE  <<p, k, v>> \in D
  <2>1. v = m[n].servers[k] /\ v # None
    BY <1>2 DEF Written
  <2> QED
    BY <1>2, <2>1 DEF ClaimsToo, Wants
<1>3. ASSUME NEW l \in Labels, Source(L, m, s, l) # None,
             NEW k \in Keys, NEW v \in Source(L, m, s, l).entries[k]
      PROVE  <<Source(L, m, s, l).place, k, v>> \in D
  <2> DEFINE n == l[1]
  <2>1. n \in Names /\ <<n, None>> \in Labels
    BY LabelsSplit, NamesLabel
  <2>2. CASE Current(l) /\ m[n] # None
    <3> DEFINE p == m[n].place
    <3>1. Source(L, m, s, l) = Journalled(L, m, s, n)
      BY <2>2 DEF Source
    <3>2. p \in Places /\ Source(L, m, s, l).place = p /\ v # None
          /\ v \in (Written(m, n)[k]
                     \cup (IF m[n].servers[k] = None THEN {} ELSE {s[p][k]})
                     \cup (IF Owns(L, <<n, None>>, p, k)
                           THEN L[<<n, None>>].entries[k] ELSE {}))
      BY <1>1, <1>3, <2>1, <2>2, <3>1, JournalledTyped, ManifestsTyped
    <3>3. CASE v \in Written(m, n)[k]
      BY <1>2, <2>1, <2>2, <3>2, <3>3
    <3>4. CASE m[n].servers[k] # None /\ v = s[p][k]
      <4>1. v = d[p][k] /\ Wants(m, n, p, k)
        BY <2>2, <3>2, <3>4, StrippedTyped DEF Wants
      <4> QED
        BY <2>1, <3>2, <4>1, FoundClaimed
    <3>5. CASE Owns(L, <<n, None>>, p, k) /\ v \in L[<<n, None>>].entries[k]
      BY <2>1, <3>2, <3>5 DEF Claimed, Owns, ClaimsToo
    <3> QED
      BY <3>2, <3>3, <3>4, <3>5
  <2>3. CASE ~(Current(l) /\ m[n] # None)
    BY <1>3, <2>1, <2>3 DEF Source, Claimed, ClaimsToo
  <2> QED
    BY <2>2, <2>3
<1>4. ASSUME NEW l \in Labels, P[l] # None, NEW k \in Keys, NEW v \in P[l].entries[k]
      PROVE  <<P[l].place, k, v>> \in D
  <2> DEFINE o == Source(L, m, s, l)
  <2>1. P[l] = Accepting(m, o) /\ o \in Owned \cup {None}
    BY <1>1, PendingTyped, SourceTyped
  <2> HIDE DEF o
  <2>2. o # None /\ o \in Owned /\ P[l].place = o.place /\ o.place \in Places
        /\ (v \in o.entries[k] \/ \E n \in Names : written(n, o.place, k, v))
    BY <1>4, <2>1, AcceptingMore DEF Owned
  <2>3. CASE v \in o.entries[k]
    BY <1>3, <2>2, <2>3 DEF o
  <2>4. CASE \E n \in Names : written(n, o.place, k, v)
    BY <1>2, <2>2, <2>4
  <2> QED
    BY <2>2, <2>3, <2>4
<1>5. ASSUME NEW n \in Names, NEW p \in Places, NEW k \in Keys, Wants(m, n, p, k)
      PROVE  /\ P[<<n, None>>] # None /\ P[<<n, None>>].place = p
             /\ m[n].servers[k] \in P[<<n, None>>].entries[k]
             /\ <<p, k, m[n].servers[k]>> \in D
  <2> DEFINE l == <<n, None>>
  <2>1. l \in Labels /\ Current(l) /\ l[1] = n
    BY NamesLabel
  <2>2. m[n] # None /\ m[n].place = p /\ m[n].servers[k] # None
    BY <1>5 DEF Wants
  <2>3. Source(L, m, s, l) = Journalled(L, m, s, n)
    BY <2>1, <2>2 DEF Source
  <2>4. P[l] = Accepting(m, Journalled(L, m, s, n))
    BY <1>1, <2>1, <2>3, PendingTyped
  <2>5. /\ Journalled(L, m, s, n) \in Owned /\ Journalled(L, m, s, n) # None
        /\ Journalled(L, m, s, n).place = p
        /\ m[n].servers[k] \in Journalled(L, m, s, n).entries[k]
    <3>1. m[n].servers[k] \in Written(m, n)[k]
      BY <2>2 DEF Written
    <3> HIDE DEF s
    <3>2. /\ Journalled(L, m, s, n) \in Owned
          /\ Journalled(L, m, s, n).place = p
          /\ Journalled(L, m, s, n).entries[k] =
               (Written(m, n)[k]
                  \cup (IF m[n].servers[k] = None THEN {} ELSE {s[m[n].place][k]})
                  \cup (IF Owns(L, <<n, None>>, m[n].place, k)
                        THEN L[<<n, None>>].entries[k] ELSE {})) \ {None}
      BY <1>1, <2>2, JournalledTyped
    <3> QED
      BY <2>2, <3>1, <3>2 DEF ConstantsSound
  <2>6. P[l] # None /\ P[l].place = p /\ m[n].servers[k] \in P[l].entries[k]
    BY <2>4, <2>5, AcceptingMore
  <2> QED
    BY <1>5, <2>6 DEF ClaimsToo
<1> QED
  BY <1>4, <1>5 DEF Claimed, Journals

-----------------------------------------------------------------------------
(* What the reconciler wrote.                                              *)

\* The journal accepts whatever the ledger did, unless a record that accepts it
\* is overwritten.
LEMMA PendingKeeps ==
    ASSUME ConstantsSound, NEW L \in Ledger, NEW m \in Manifests,
           NEW s \in [Places -> Document],
           NEW l \in Labels, NEW p \in Places, NEW k \in Keys, Owns(L, l, p, k),
           ~Moved(L, m, l),
           NEW v \in L[l].entries[k], v # None
    PROVE  \E o \in Labels : /\ Owns(Pending(L, m, s), o, p, k)
                             /\ v \in Pending(L, m, s)[o].entries[k]
<1> DEFINE P == Pending(L, m, s)
           n == l[1]
<1>1. n \in Names /\ L[l] # None /\ L[l].place = p
  BY LabelsSplit DEF Owns
<1>2. ASSUME NEW o \in Labels, Source(L, m, s, o) # None,
             Source(L, m, s, o).place = p, v \in Source(L, m, s, o).entries[k]
      PROVE  Owns(P, o, p, k) /\ v \in P[o].entries[k]
  <2> DEFINE r == Source(L, m, s, o)
  <2>1. r \in Owned \cup {None} /\ P[o] = Accepting(m, r)
    BY PendingTyped, SourceTyped
  <2> HIDE DEF r, P
  <2>2. r # None /\ r.place = p /\ v \in r.entries[k]
    BY <1>2 DEF r
  <2> QED
    BY <2>1, <2>2, AcceptingMore DEF Owns
<1>3. CASE Current(l) /\ m[n] # None /\ m[n].place = p
  <2>1. Source(L, m, s, l) = Journalled(L, m, s, n) /\ l = <<n, None>>
    BY <1>3, LabelsSplit DEF Source
  <2>2. /\ Journalled(L, m, s, n) \in Owned /\ Journalled(L, m, s, n).place = p
        /\ Journalled(L, m, s, n).entries[k] =
             (Written(m, n)[k]
                \cup (IF m[n].servers[k] = None THEN {} ELSE {s[m[n].place][k]})
                \cup (IF Owns(L, <<n, None>>, m[n].place, k)
                      THEN L[<<n, None>>].entries[k] ELSE {})) \ {None}
    BY <1>1, <1>3, JournalledTyped
  <2>3. v \in Journalled(L, m, s, n).entries[k]
    BY <1>3, <2>1, <2>2
  <2> QED
    BY <1>2, <2>1, <2>2, <2>3 DEF ConstantsSound
<1>4. CASE Current(l) /\ m[n] # None /\ m[n].place # p
  <2>1. <<n, p>> \in Labels /\ ~Current(<<n, p>>) /\ l = <<n, None>>
    BY <1>1, <1>4, NamesLabel, LabelsSplit
  <2>2. Moved(L, m, <<n, p>>)
    BY <1>1, <1>4, <2>1, NamesLabel DEF Moved
  <2>3. Source(L, m, s, <<n, p>>) = L[l]
    BY <1>1, <2>1, <2>2, NamesLabel DEF Source
  <2> QED
    BY <1>1, <1>2, <2>1, <2>3
<1>5. CASE ~(Current(l) /\ m[n] # None)
  <2>1. Source(L, m, s, l) = L[l]
    BY <1>5 DEF Source
  <2> QED
    BY <1>1, <1>2, <2>1
<1> QED
  BY <1>3, <1>4, <1>5

\* What the journal accepts where no target wants the entry, the ledger did.
LEMMA PendingAdds ==
    ASSUME ConstantsSound, NEW L \in Ledger, NEW m \in Manifests,
           NEW s \in [Places -> Document],
           NEW l \in Labels, NEW p \in Places, NEW k \in Keys,
           Owns(Pending(L, m, s), l, p, k), NEW v \in Pending(L, m, s)[l].entries[k],
           ~Serves(m, p, k)
    PROVE  \E o \in Labels : Owns(L, o, p, k) /\ v \in L[o].entries[k]
<1> DEFINE P == Pending(L, m, s)
           r == Source(L, m, s, l)
           n == l[1]
<1>1. n \in Names /\ <<n, None>> \in Labels
  BY LabelsSplit, NamesLabel
<1>2. r \in Owned \cup {None} /\ P[l] = Accepting(m, r)
  BY PendingTyped, SourceTyped
<1>3. ASSUME NEW i \in Names, m[i] # None, m[i].place = p
      PROVE  Written(m, i)[k] = {} /\ m[i].servers[k] = None
  BY <1>3 DEF Serves, Wants, Written
<1>4. r # None /\ r.place = p /\ v \in r.entries[k]
  <2> HIDE DEF r, P
  <2>1. P[l] # None /\ P[l].place = p /\ v \in P[l].entries[k]
    BY DEF Owns, P
  <2>2. r # None /\ r \in Owned /\ r.place = p
    BY <1>2, <2>1, AcceptingMore
  <2> QED
    BY <1>2, <1>3, <2>1, <2>2, AcceptingMore
<1>5. CASE Current(l) /\ m[n] # None
  <2>1. r = Journalled(L, m, s, n) /\ l = <<n, None>>
    BY <1>5, LabelsSplit DEF Source
  <2>2. /\ r.place = m[n].place
        /\ r.entries[k] =
             (Written(m, n)[k]
                \cup (IF m[n].servers[k] = None THEN {} ELSE {s[m[n].place][k]})
                \cup (IF Owns(L, <<n, None>>, m[n].place, k)
                      THEN L[<<n, None>>].entries[k] ELSE {})) \ {None}
    BY <1>1, <1>5, <2>1, JournalledTyped
  <2> HIDE DEF r
  <2>3. Owns(L, <<n, None>>, p, k) /\ v \in L[<<n, None>>].entries[k]
    BY <1>1, <1>3, <1>4, <1>5, <2>2
  <2> QED
    BY <1>1, <2>3
<1>6. CASE ~(Current(l) /\ m[n] # None)
  <2>1. \E o \in Labels : r = L[o]
    BY <1>1, <1>6 DEF Source
  <2> HIDE DEF r
  <2> QED
    BY <1>4, <2>1 DEF Owns
<1> QED
  BY <1>5, <1>6

\* A run takes away what it owns and no target wants.
LEMMA UnservedGoes ==
    ASSUME ConstantsSound, NEW L, NEW m \in Manifests, NEW d \in [Places -> Document],
           NEW l \in Labels, NEW p \in Places, NEW k \in Keys, Owns(L, l, p, k),
           ~Serves(m, p, k)
    PROVE  After(m, Stripped(L, m, d))[p][k] = None
<1>1. ~WantedBy(m, l, p, k)
  BY LabelsSplit DEF WantedBy, Serves
<1>2. Stripped(L, m, d)[p][k] = None
  BY <1>1 DEF Stripped
<1>3. Leaves(m, Stripped(L, m, d), After(m, Stripped(L, m, d)))
  BY StrippedTyped, AfterLeaves
<1> QED
  BY <1>2, <1>3 DEF Leaves

-----------------------------------------------------------------------------
(* The steps.                                                              *)

LEMMA FilesApart ==
    ASSUME ConstantsSound
    PROVE  /\ ClientFiles \cap {"Idle", "Check", "Write"} = {}
           /\ \A p \in Places : FileOf[p] \in ClientFiles /\ p \in At(FileOf[p])
BY DEF ConstantsSound, ClientFiles, At

LEMMA RunTyped ==
    ASSUME ConstantsSound, Typed, run.at # "Idle"
    PROVE  /\ run \in Runs
           /\ run.manifest \in Manifests /\ run.pending \in Ledger
           /\ run.before \in [Places -> Document] /\ run.after \in [Places -> Document]
BY DEF Typed, Idle, Runs

LEMMA PlanTyped ==
    ASSUME ConstantsSound, Typed, NEW m \in Manifests, Plan(m)
    PROVE  run' \in Runs /\ run'.at = "Check" /\ run'.before = docs /\ run'.manifest = m
           /\ run'.after = After(m, Stripped(ledger, m, docs))
           /\ Planned'
<1> DEFINE s == Stripped(ledger, m, docs)
           after == After(m, s)
           pending == Pending(ledger, m, s)
           todo == {f \in ClientFiles : \E p \in At(f) : docs[p] # after[p]}
<1>1. docs \in [Places -> Document] /\ ledger \in Ledger
  BY DEF Typed, TypeOK
<1>2. s \in [Places -> Document]
  BY <1>1, StrippedTyped
<1>3. after \in [Places -> Document] /\ pending \in Ledger
  BY <1>1, <1>2, AfterLeaves, PendingTyped
<1>4. todo \in SUBSET ClientFiles
  OBVIOUS
<1>5. run' = [at |-> "Check", manifest |-> m, before |-> docs, after |-> after,
              pending |-> pending, todo |-> todo]
      /\ ledger' = ledger
      /\ ~Edited(ledger, m, docs) /\ ~Foreign(ledger, m, s)
  BY DEF Plan
<1>6. run' \in Runs
  <2> HIDE DEF s, after, pending, todo
  <2> QED
    BY <1>1, <1>3, <1>4, <1>5 DEF Runs
<1>7. /\ run'.at = "Check" /\ run'.manifest = m /\ run'.before = docs
      /\ run'.after = after /\ run'.pending = pending /\ run'.todo = todo
  <2> HIDE DEF s, after, pending, todo
  <2> QED
    BY <1>5
<1> QED
  BY <1>5, <1>6, <1>7 DEF Planned

LEMMA TypedStep ==
    ASSUME ConstantsSound, Typed, [Next]_vars
    PROVE  Typed'
<1> USE FilesApart
<1>1. CASE \E m \in Manifests : Plan(m)
  BY <1>1, PlanTyped DEF Plan, Typed, TypeOK
<1>2. CASE SavePending
  <2>1. run \in Runs /\ run.pending \in Ledger
    BY <1>2, RunTyped DEF SavePending
  <2>2. run' \in Runs /\ run'.at = "Write"
    BY <1>2, <2>1 DEF SavePending, Runs
  <2> QED
    BY <1>2, <2>1, <2>2 DEF SavePending, Typed, TypeOK
<1>3. CASE \E f \in ClientFiles : CheckFile(f)
  <2>1. run \in Runs
    BY <1>3, RunTyped DEF CheckFile
  <2>2. run' \in Runs /\ run'.at \in ClientFiles
    BY <1>3, <2>1 DEF CheckFile, Runs
  <2> QED
    BY <1>3, <2>2 DEF CheckFile, Typed, TypeOK
<1>4. CASE Refuse \/ Stop
  BY <1>4 DEF Refuse, Stop, Idle, Typed, TypeOK
<1>5. CASE Replace
  <2>1. run \in Runs /\ run.after \in [Places -> Document]
    BY <1>5, RunTyped DEF Replace
  <2>2. run' \in Runs /\ run'.at = "Write"
    BY <1>5, <2>1 DEF Replace, Runs
  <2>3. docs' \in [Places -> Document]
    BY <1>5, <2>1 DEF Replace, Typed, TypeOK
  <2> QED
    BY <1>5, <2>2, <2>3 DEF Replace, Typed, TypeOK
<1>6. CASE SaveFinal
  <2>1. Final(run.manifest) \in Ledger
    BY <1>6, RunTyped, FinalTyped DEF SaveFinal
  <2> QED
    BY <1>6, <2>1 DEF SaveFinal, Idle, Typed, TypeOK, ConstantsSound
<1>7. CASE \E p \in Places, k \in Keys, v \in Values \cup {None} : ForeignEdit(p, k, v)
  BY <1>7 DEF ForeignEdit, Typed, TypeOK, Document
<1>8. CASE UNCHANGED vars
  BY <1>8 DEF vars, Typed, TypeOK
<1> QED
  BY <1>1, <1>2, <1>3, <1>4, <1>5, <1>6, <1>7, <1>8 DEF Next

\* A run in progress claims what its manifest writes and adopts.
LEMMA SavesClaims ==
    ASSUME ConstantsSound, Typed, SavePending
    PROVE  ClaimsToo(claims, claims', run.manifest, run.before)
<1>1. run.manifest \in Manifests /\ run.before \in [Places -> Document]
  BY RunTyped DEF SavePending
<1>2. ASSUME NEW n \in Names, NEW p \in Places, NEW k \in Keys, Wants(run.manifest, n, p, k),
             NEW v \in Values, Claims(p, k, v)
      PROVE  <<p, k, v>> \in claims'
  BY <1>2 DEF SavePending
<1>3. ASSUME NEW n \in Names, NEW p \in Places, NEW k \in Keys, Wants(run.manifest, n, p, k)
      PROVE  /\ <<p, k, run.manifest[n].servers[k]>> \in claims'
             /\ k \in run.manifest[n].adopt /\ run.before[p][k] # None
                  => <<p, k, run.before[p][k]>> \in claims'
  <2>1. run.manifest[n].servers[k] \in Values
    BY <1>1, <1>3, ManifestsTyped DEF Wants, Document
  <2>2. run.before[p][k] # None => run.before[p][k] \in Values
    BY <1>1 DEF Document
  <2> QED
    BY <1>2, <1>3, <2>1, <2>2 DEF Claims
<1> QED
  BY <1>3 DEF ClaimsToo, SavePending

LEMMA RunStep ==
    ASSUME ConstantsSound, Typed, RunInv, [Next]_vars
    PROVE  RunInv'
<1> USE FilesApart
<1>1. CASE \E m \in Manifests : Plan(m)
  <2>1. PICK m \in Manifests : Plan(m)
    BY <1>1
  <2> DEFINE s == Stripped(ledger, m, docs)
  <2>2. /\ run'.at = "Check" /\ run'.before = docs /\ run'.manifest = m
        /\ run'.after = After(m, s) /\ Planned'
    BY <2>1, PlanTyped
  <2>3. docs \in [Places -> Document]
    BY DEF Typed, TypeOK
  <2>4. Leaves(m, docs, After(m, s))
    <3>1. /\ s \in [Places -> Document]
          /\ \A p \in Places, k \in Keys : s[p][k] \in {None, docs[p][k]}
      BY <2>3, StrippedTyped
    <3> HIDE DEF s
    <3>2. Leaves(m, s, After(m, s))
      BY <3>1, AfterLeaves
    <3> QED
      BY <3>1, <3>2 DEF Leaves
  <2> QED
    BY <2>1, <2>2, <2>4 DEF Plan, RunInv
<1>2. CASE SavePending
  <2> DEFINE m == run.manifest
             s == Stripped(ledger, m, run.before)
  <2>1. /\ run \in Runs /\ m \in Manifests /\ run.before \in [Places -> Document]
        /\ ledger \in Ledger
    BY <1>2, RunTyped DEF SavePending, Typed, TypeOK
  <2>2. /\ ~Edited(ledger, m, run.before) /\ ~Foreign(ledger, m, s)
        /\ run.after = After(m, s) /\ run.pending = Pending(ledger, m, s)
    BY <1>2 DEF SavePending, RunInv, Planned
  <2>3. ClaimsToo(claims, claims', m, run.before) /\ Claimed(ledger, claims)
    BY <1>2, SavesClaims DEF RunInv
  <2>4. /\ Claimed(Pending(ledger, m, s), claims') /\ Journals(Pending(ledger, m, s), claims', m)
        /\ Permitted(claims', m, run.before, After(m, s))
    BY <2>1, <2>2, <2>3, PendingClaimed, PlanPermitted
  <2>5. /\ run'.at = "Write" /\ run'.manifest = m /\ run'.before = run.before
        /\ run'.after = run.after /\ ledger' = run.pending
    BY <1>2, <2>1 DEF SavePending, Runs
  <2> QED
    BY <1>2, <2>2, <2>4, <2>5 DEF RunInv, SavePending
<1>3. CASE Replace \/ \E f \in ClientFiles : CheckFile(f)
  <2>1. run \in Runs
    BY <1>3, RunTyped DEF CheckFile, Replace
  <2>2. /\ run'.at \notin {"Idle", "Check"} /\ run'.manifest = run.manifest
        /\ run'.before = run.before /\ run'.after = run.after
        /\ UNCHANGED <<ledger, claims>> /\ run.at \notin {"Idle", "Check"}
    BY <1>3, <2>1 DEF CheckFile, Replace, Runs
  <2> QED
    BY <2>2 DEF RunInv
<1>4. CASE Refuse \/ Stop
  BY <1>4 DEF Refuse, Stop, Idle, RunInv
<1>5. CASE SaveFinal
  <2>1. run.manifest \in Manifests /\ Journals(ledger, claims, run.manifest)
    BY <1>5, RunTyped DEF SaveFinal, RunInv
  <2>2. Claimed(Final(run.manifest), claims)
    <3> SUFFICES ASSUME NEW l \in Labels, NEW k \in Keys, Final(run.manifest)[l] # None,
                        NEW v \in Final(run.manifest)[l].entries[k]
                 PROVE  <<Final(run.manifest)[l].place, k, v>> \in claims
      BY DEF Claimed
    <3>1. /\ l[1] \in Names /\ run.manifest[l[1]] # None
          /\ Final(run.manifest)[l].place = run.manifest[l[1]].place
          /\ v \in Written(run.manifest, l[1])[k]
      BY <2>1, FinalTyped, LabelsSplit
    <3>2. run.manifest[l[1]].place \in Places
      BY <2>1, <3>1, ManifestsTyped
    <3>3. /\ v = run.manifest[l[1]].servers[k]
          /\ Wants(run.manifest, l[1], run.manifest[l[1]].place, k)
      BY <3>1 DEF Wants, Written
    <3> QED
      BY <2>1, <3>1, <3>2, <3>3 DEF Journals
  <2> QED
    BY <1>5, <2>2 DEF SaveFinal, Idle, RunInv
<1>6. CASE \E p \in Places, k \in Keys, v \in Values \cup {None} : ForeignEdit(p, k, v)
  BY <1>6 DEF ForeignEdit, RunInv, Planned
<1>7. CASE UNCHANGED vars
  BY <1>7 DEF vars, RunInv, Planned
<1> QED
  BY <1>1, <1>2, <1>3, <1>4, <1>5, <1>6, <1>7 DEF Next

\* What it wrote is known to every later step.
LEMMA MineStep ==
    ASSUME ConstantsSound, Typed, RunInv, MineInv, [Next]_vars
    PROVE  MineInv'
<1> USE FilesApart
<1>1. CASE \E m \in Manifests : Plan(m)
  <2>1. PICK m \in Manifests : Plan(m)
    BY <1>1
  <2>2. /\ run'.at = "Check" /\ run'.before = docs /\ run'.manifest = m
        /\ run'.after = After(m, Stripped(ledger, m, docs))
    BY <2>1, PlanTyped
  <2>3. docs \in [Places -> Document] /\ UNCHANGED <<docs, ledger, mine>>
    BY <2>1 DEF Plan, Typed, TypeOK
  <2>4. ASSUME NEW p \in Places, NEW k \in Keys, <<p, k>> \in mine
        PROVE  MineAt(p, k)'
    <3>1. docs[p][k] # None
      BY <2>4 DEF MineInv, MineAt
    <3>2. ASSUME Answered(p, k), ~Serves(m, p, k)
          PROVE  After(m, Stripped(ledger, m, docs))[p][k] = None
      <4>1. PICK l \in Labels : Owns(ledger, l, p, k)
        BY <3>2 DEF Answered
      <4> QED
        BY ONLY ConstantsSound, m \in Manifests, <2>3, <3>2, <4>1, UnservedGoes
    <3>3. Answered(p, k)' <=> Answered(p, k)
      BY <2>3 DEF Answered
    <3> QED
      BY <2>2, <2>3, <3>1, <3>2, <3>3 DEF MineAt
  <2> QED
    BY <2>2, <2>3, <2>4 DEF MineInv
<1>2. CASE SavePending
  <2> DEFINE m == run.manifest
             s == Stripped(ledger, m, run.before)
  <2>1. /\ run \in Runs /\ m \in Manifests /\ run.before \in [Places -> Document]
        /\ s \in [Places -> Document] /\ ledger \in Ledger
    BY <1>2, RunTyped, StrippedTyped DEF SavePending, Typed, TypeOK
  <2>2. /\ run'.at = "Write" /\ run'.manifest = m /\ run'.before = run.before
        /\ run'.after = run.after /\ run'.todo = run.todo /\ ledger' = run.pending
        /\ UNCHANGED <<docs, mine>> /\ run.at = "Check"
    BY <1>2, <2>1 DEF SavePending, Runs
  <2>3. /\ run.pending = Pending(ledger, m, s)
        /\ run.todo = {f \in ClientFiles : \E p \in At(f) : run.before[p] # run.after[p]}
    BY <1>2, <2>2 DEF RunInv, Planned
  <2>4. ASSUME NEW p \in Places, NEW k \in Keys, <<p, k>> \in mine
        PROVE  MineAt(p, k)'
    <3>1. /\ docs[p][k] # None /\ docs[p][k] = run.before[p][k]
          /\ Answered(p, k) /\ ~Serves(m, p, k) => run.after[p][k] = None
      BY <2>2, <2>4 DEF MineInv, MineAt
    <3>2. ASSUME Answered(p, k)', ~Serves(m, p, k)
          PROVE  Answered(p, k)
      <4> HIDE DEF s, m
      <4>1. PICK l \in Labels : /\ Owns(Pending(ledger, m, s), l, p, k)
                                /\ docs[p][k] \in Pending(ledger, m, s)[l].entries[k]
        BY <2>2, <2>3, <3>2 DEF Answered
      <4> QED
        BY <2>1, <3>2, <4>1, PendingAdds DEF Answered
    <3>3. FileOf[p] \notin run.todo => run.before[p] = run.after[p]
      BY <2>3
    <3> HIDE DEF s
    <3> QED
      BY <2>2, <2>3, <3>1, <3>2, <3>3 DEF MineAt
  <2> QED
    BY <2>2, <2>4 DEF MineInv
<1>3. CASE \E f \in ClientFiles : CheckFile(f)
  <2>1. PICK f \in ClientFiles : CheckFile(f)
    BY <1>3
  <2>2. run \in Runs
    BY <2>1, RunTyped DEF CheckFile
  <2>3. /\ run.at = "Write" /\ f \in run.todo /\ run'.at = f /\ run'.todo = run.todo \ {f}
        /\ run'.manifest = run.manifest /\ run'.before = run.before /\ run'.after = run.after
        /\ UNCHANGED <<docs, ledger, mine>>
    BY <2>1, <2>2 DEF CheckFile, Runs
  <2>4. ASSUME NEW p \in Places, NEW k \in Keys, MineAt(p, k)
        PROVE  MineAt(p, k)'
    BY <2>3, <2>4 DEF MineAt, Answered
  <2> QED
    BY <2>3, <2>4 DEF MineInv
<1>4. CASE Replace
  <2>1. /\ run \in Runs /\ run.at \in ClientFiles
        /\ Leaves(run.manifest, run.before, run.after)
    BY <1>4, RunTyped DEF Replace, RunInv
  <2>2. /\ run'.at = "Write" /\ run'.todo = run.todo /\ run.at \notin run.todo
        /\ run'.manifest = run.manifest /\ run'.before = run.before /\ run'.after = run.after
        /\ UNCHANGED ledger
    BY <1>4, <2>1 DEF Replace, Runs, MineInv
  <2>3. ASSUME NEW p \in Places, NEW k \in Keys, <<p, k>> \in mine'
        PROVE  MineAt(p, k)'
    <3>1. StaysMine(p, k)
      BY <1>4, <2>3 DEF Replace
    <3>2. docs'[p] = IF p \in At(run.at) THEN run.after[p] ELSE docs[p]
      BY <1>4 DEF Replace
    <3>3. CASE p \in At(run.at) /\ run.after[p][k] # run.before[p][k]
      <4>1. run.after[p][k] # None
        BY <3>1, <3>2, <3>3 DEF StaysMine
      <4>2. Serves(run.manifest, p, k)
        BY <2>1, <3>3, <4>1 DEF Leaves
      <4> QED
        BY <2>2, <3>2, <3>3, <4>1, <4>2 DEF MineAt, At
    <3>4. CASE <<p, k>> \in mine /\ docs'[p][k] = docs[p][k]
      <4>1. MineAt(p, k)
        BY <3>4 DEF MineInv
      <4>2. FileOf[p] \in run.todo \cup {run.at} <=> FileOf[p] \in run.todo \/ p \in At(run.at)
        BY DEF At
      <4>3. docs'[p][k] = IF FileOf[p] \in run.todo THEN run.before[p][k] ELSE run.after[p][k]
        BY <2>1, <2>2, <3>2, <3>4, <4>1, <4>2 DEF MineAt, At
      <4>4. Answered(p, k)' => Answered(p, k)
        BY <2>2, <3>4 DEF Answered, Owns
      <4> QED
        BY <2>1, <2>2, <3>4, <4>1, <4>3, <4>4 DEF MineAt
    <3> QED
      BY <3>1, <3>3, <3>4 DEF StaysMine
  <2> QED
    BY <2>2, <2>3, <1>4 DEF MineInv, Replace, Typed, TypeOK
<1>5. CASE SaveFinal \/ Refuse \/ Stop
  BY <1>5 DEF SaveFinal, Refuse, Stop, Idle, MineInv, MineAt
<1>6. CASE \E p \in Places, k \in Keys, v \in Values \cup {None} : ForeignEdit(p, k, v)
  <2>1. PICK p \in Places, k \in Keys, v \in Values \cup {None} : ForeignEdit(p, k, v)
    BY <1>6
  <2>2. ASSUME NEW q \in Places, NEW j \in Keys, <<q, j>> \in mine'
        PROVE  MineAt(q, j)'
    <3>1. <<q, j>> \in mine /\ ~(q = p /\ j = k)
      BY <2>1, <2>2 DEF ForeignEdit
    <3>2. docs'[q][j] = docs[q][j]
      BY <2>1, <3>1 DEF ForeignEdit, Typed, TypeOK, Document
    <3> QED
      BY <2>1, <3>1, <3>2 DEF ForeignEdit, MineInv, MineAt, Answered
  <2> QED
    BY <2>1, <2>2 DEF ForeignEdit, MineInv
<1>7. CASE UNCHANGED vars
  BY <1>7 DEF vars, MineInv, MineAt, Answered
<1> QED
  BY <1>1, <1>2, <1>3, <1>4, <1>5, <1>6, <1>7 DEF Next

\* What it wrote keeps its owner in each step but an overwriting journal.
LEMMA OwnerStep ==
    ASSUME ConstantsSound, Typed, RunInv, MineInv, [Next]_vars
    PROVE  KeepsOwner
<1> USE FilesApart
<1> SUFFICES ASSUME NEW p \in Places, NEW k \in Keys, <<p, k>> \in mine', ~Answered(p, k)'
             PROVE  <<p, k>> \in mine /\ (Answered(p, k) => Overwrites(p, k))
  BY DEF KeepsOwner
<1>1. CASE SavePending
  <2> DEFINE m == run.manifest
             s == Stripped(ledger, m, run.before)
  <2>1. /\ m \in Manifests /\ s \in [Places -> Document] /\ ledger \in Ledger
        /\ ledger' = Pending(ledger, m, s) /\ UNCHANGED <<docs, mine>> /\ run.at = "Check"
    BY <1>1, RunTyped, StrippedTyped DEF SavePending, Typed, TypeOK, RunInv, Planned
  <2>2. docs[p][k] # None
    BY <2>1 DEF MineInv, MineAt
  <2>3. ASSUME NEW l \in Labels, Owns(ledger, l, p, k), docs[p][k] \in ledger[l].entries[k],
               ~Moved(ledger, m, l)
        PROVE  FALSE
    <3> HIDE DEF s, m
    <3>1. \E o \in Labels : /\ Owns(Pending(ledger, m, s), o, p, k)
                             /\ docs[p][k] \in Pending(ledger, m, s)[o].entries[k]
      BY <2>1, <2>2, <2>3, PendingKeeps
    <3> QED
      BY <2>1, <3>1 DEF Answered
  <2> QED
    BY <2>1, <2>3 DEF Answered, Overwrites
<1>2. CASE Replace
  <2>1. StaysMine(p, k) /\ UNCHANGED ledger
    BY <1>2 DEF Replace
  <2>2. docs'[p] = IF p \in At(run.at) THEN run.after[p] ELSE docs[p]
    BY <1>2 DEF Replace
  <2>3. CASE p \in At(run.at) /\ run.after[p][k] # run.before[p][k]
    <3>1. /\ Journals(ledger, claims, run.manifest)
          /\ Leaves(run.manifest, run.before, run.after)
      BY <1>2 DEF Replace, RunInv
    <3>2. run.after[p][k] # None /\ docs'[p][k] = run.after[p][k]
      BY <2>1, <2>2, <2>3 DEF StaysMine
    <3>3. PICK n \in Names : /\ Wants(run.manifest, n, p, k)
                            /\ run.after[p][k] = run.manifest[n].servers[k]
      BY <2>3, <3>1, <3>2 DEF Leaves
    <3>4. /\ <<n, None>> \in Labels /\ ledger[<<n, None>>] # None
          /\ ledger[<<n, None>>].place = p
          /\ run.after[p][k] \in ledger[<<n, None>>].entries[k]
      BY <3>1, <3>3, NamesLabel DEF Journals
    <3> QED
      BY <2>1, <3>2, <3>4 DEF Answered, Owns
  <2>4. CASE <<p, k>> \in mine /\ docs'[p][k] = docs[p][k]
    BY <2>1, <2>4 DEF Answered, Owns
  <2> QED
    BY <2>1, <2>3, <2>4 DEF StaysMine
<1>3. CASE SaveFinal
  <2>1. /\ run \in Runs /\ run.manifest \in Manifests /\ run.at = "Write" /\ run.todo = {}
        /\ Leaves(run.manifest, run.before, run.after)
        /\ ledger' = Final(run.manifest) /\ UNCHANGED <<docs, mine>>
    BY <1>3, RunTyped DEF SaveFinal, RunInv
  <2>2. /\ docs[p][k] # None /\ docs[p][k] = run.after[p][k]
        /\ Answered(p, k) /\ ~Serves(run.manifest, p, k) => run.after[p][k] = None
    BY <2>1 DEF MineInv, MineAt
  <2>3. ASSUME Serves(run.manifest, p, k)
        PROVE  FALSE
    <3>1. PICK n \in Names : /\ Wants(run.manifest, n, p, k)
                            /\ run.after[p][k] = run.manifest[n].servers[k]
      BY <2>1, <2>3 DEF Leaves
    <3>2. run.manifest[n] # None /\ run.manifest[n].place = p
          /\ docs[p][k] \in Written(run.manifest, n)[k]
      BY <2>2, <3>1 DEF Wants, Written
    <3>3. /\ <<n, None>> \in Labels /\ <<n, None>>[1] = n
          /\ Final(run.manifest)[<<n, None>>] # None
          /\ Final(run.manifest)[<<n, None>>].place = run.manifest[n].place
          /\ Final(run.manifest)[<<n, None>>].entries = Written(run.manifest, n)
      BY <2>1, <3>2, FinalTyped, NamesLabel
    <3> QED
      BY <2>1, <3>2, <3>3 DEF Answered, Owns
  <2> QED
    BY <2>1, <2>2, <2>3
<1>4. CASE \E q \in Places, j \in Keys, v \in Values \cup {None} : ForeignEdit(q, j, v)
  <2>1. PICK q \in Places, j \in Keys, v \in Values \cup {None} : ForeignEdit(q, j, v)
    BY <1>4
  <2>2. <<p, k>> \in mine /\ ~(p = q /\ k = j) /\ UNCHANGED ledger
    BY <2>1 DEF ForeignEdit
  <2>3. docs'[p][k] = docs[p][k]
    BY <2>1, <2>2 DEF ForeignEdit, Typed, TypeOK, Document
  <2> QED
    BY <2>2, <2>3 DEF Answered
<1>5. CASE UNCHANGED <<docs, ledger, mine>>
  BY <1>5 DEF Answered
<1> QED
  BY <1>1, <1>2, <1>3, <1>4, <1>5 DEF Next, vars, Plan, CheckFile, Refuse, Stop

-----------------------------------------------------------------------------
(* The theorems.                                                           *)

\* Documents, ledger and claims stay in their types, and a run in progress has
\* a plan for a manifest.
THEOREM ReconcilerTyped == ASSUME ConstantsSound PROVE Spec => []Typed
<1>1. ASSUME Init PROVE Typed
  <2>1. ledger \in Ledger
    BY <1>1 DEF Init, Ledger
  <2> QED
    BY <1>1, <2>1 DEF Init, Typed, TypeOK, Idle, ConstantsSound
<1>2. Typed /\ [Next]_vars => Typed'
  BY TypedStep
<1> QED
  BY <1>1, <1>2, PTL DEF Spec

LEMMA RunInvariant == ASSUME ConstantsSound PROVE Spec => [](Typed /\ RunInv)
<1>1. Init => RunInv
  BY DEF Init, RunInv, Claimed, Idle
<1>2. Typed /\ RunInv /\ [Next]_vars => RunInv'
  BY RunStep
<1> QED
  BY <1>1, <1>2, ReconcilerTyped, PTL DEF Spec

\* What users registered themselves is replaced only when the manifest adopts or
\* retires it: over any number of stops, renames and moves (reconcile).
THEOREM UsersKept == ASSUME ConstantsSound PROVE Spec => ForeignKept
<1>1. Typed /\ RunInv => KeepsForeign
  BY FilesApart DEF RunInv, Permitted, KeepsForeign, At
<1> QED
  BY <1>1, RunInvariant, PTL DEF ForeignKept

\* Over any number of stopped runs, renames and moves, what the reconciler wrote
\* and nobody edited keeps a record that accepts it, except where the journal of
\* a move overwrites a retired record (reconcile, mcp.rs:325-335).
THEOREM OwnersStay == ASSUME ConstantsSound PROVE Spec => OwnersKept
<1>1. Init => MineInv
  BY FilesApart DEF Init, MineInv, Idle
<1>2. Typed /\ RunInv /\ MineInv /\ [Next]_vars => MineInv'
  BY MineStep
<1>3. Typed /\ RunInv /\ MineInv /\ [Next]_vars => KeepsOwner
  BY OwnerStep
<1> QED
  BY <1>1, <1>2, <1>3, RunInvariant, PTL DEF Spec, OwnersKept
=============================================================================
