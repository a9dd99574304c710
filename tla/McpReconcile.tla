---------------------------- MODULE McpReconcile ----------------------------
(***************************************************************************)
(* The reconciler of MCP registrations (src/src/mcp.rs, mcp/document.rs):  *)
(* it owns some entries of files that users and their clients edit too.    *)
(* What it owns is in a ledger, which is written before the files with     *)
(* every value that may be found if it stops, and after them with the      *)
(* values that are there.                                                  *)
(*                                                                         *)
(* A document is a function from keys to values; an absent file is one     *)
(* without entries, and both formats are one, as are a value and its hash. *)
(* A manifest gives some names a target; names whose client is not         *)
(* installed have none.  The manifests are those the first loop accepts.   *)
(***************************************************************************)

CONSTANTS
    Names, Keys, Values,
    Places,     \* destinations: a file and the table in it
    FileOf,     \* [Places -> files]
    Manifests,  \* the manifests that may be applied
    None

\* The ledger names a target <<n, None>>, and <<n, p>> ("n@retired:p") the
\* same target's entries at a place it has left.
Labels == Names \X (Places \cup {None})
Current(l) == l[2] = None

Document == [Keys -> Values \cup {None}]
Target == [place : Places, servers : Document, adopt : SUBSET Keys,
           retire : [Keys -> SUBSET Values]]
Manifest == [Names -> Target \cup {None}]
Owned == [place : Places, entries : [Keys -> SUBSET Values]]
Ledger == [Labels -> Owned \cup {None}]

\* One writer per file; a retired key is not a server as well.
ConstantsSound ==
    /\ None \notin Values \cup Places /\ None \notin Owned
    /\ \A p \in Places : FileOf[p] \notin {"Idle", "Check", "Write"}
    /\ Manifests \subseteq Manifest
    /\ \A m \in Manifests, n, o \in Names :
         m[n] # None =>
           /\ \A k \in Keys : m[n].retire[k] = {} \/ m[n].servers[k] = None
           /\ m[o] # None /\ n # o => FileOf[m[n].place] # FileOf[m[o].place]

VARIABLES
    docs,       \* the documents on disk, by place
    ledger,     \* the state file
    run,        \* the reconciler that holds the lock
    mine,       \* (history) the entries whose present value it wrote
    claims      \* (history) <<place, key, value>> it wrote or was given

vars == <<docs, ledger, run, mine, claims>>

Idle == [at |-> "Idle"]
ClientFiles == {FileOf[p] : p \in Places}
At(f) == {p \in Places : FileOf[p] = f}

Init ==
    /\ docs \in [Places -> Document]
    /\ ledger = [l \in Labels |-> None]
    /\ run = Idle
    /\ mine = {}
    /\ claims = {}

-----------------------------------------------------------------------------
(* Planning, over a ledger L, a manifest m and the documents d.            *)

Owns(L, l, p, k) == L[l] # None /\ L[l].place = p /\ L[l].entries[k] # {}
Wants(m, n, p, k) == m[n] # None /\ m[n].place = p /\ m[n].servers[k] # None

WantedBy(m, l, p, k) == Current(l) /\ Wants(m, l[1], p, k)

\* An owned entry holds neither an accepted value nor the wanted one.
Edited(L, m, d) ==
    \E l \in Labels, p \in Places, k \in Keys :
      /\ Owns(L, l, p, k)
      /\ d[p][k] \notin L[l].entries[k] \cup {None}
      /\ ~(WantedBy(m, l, p, k) /\ m[l[1]].servers[k] = d[p][k])

\* The documents without the owned entries that their name no longer wants.
Stripped(L, m, d) ==
    [p \in Places |-> [k \in Keys |->
       IF \E l \in Labels : Owns(L, l, p, k) /\ ~WantedBy(m, l, p, k)
       THEN None ELSE d[p][k]]]

\* (mutant) A value somebody else wrote is replaced without adoption.
ForeignNever(L, m, s) == FALSE

\* A wanted entry is there, is not owned, differs and is not adopted.
Foreign(L, m, s) ==
    \E n \in Names, p \in Places, k \in Keys :
      /\ Wants(m, n, p, k)
      /\ s[p][k] \notin {None, m[n].servers[k]}
      /\ ~Owns(L, <<n, None>>, p, k)
      /\ k \notin m[n].adopt

After(m, s) ==
    [p \in Places |->
       LET n == {i \in Names : m[i] # None /\ m[i].place = p}
       IN  [k \in Keys |->
              IF \E i \in n : m[i].servers[k] # None
              THEN m[CHOOSE i \in n : m[i].servers[k] # None].servers[k]
              ELSE IF \E i \in n : s[p][k] \in m[i].retire[k] THEN None
              ELSE s[p][k]]]

Written(m, n) == [k \in Keys |-> {m[n].servers[k]} \ {None}]

\* The ledger once every file is written.
Final(m) ==
    [l \in Labels |->
       IF Current(l) /\ m[l[1]] # None
       THEN [place |-> m[l[1]].place, entries |-> Written(m, l[1])]
       ELSE None]

Moved(L, m, l) ==
    LET old == L[<<l[1], None>>]
    IN  /\ old # None
        /\ old.place = l[2]
        /\ m[l[1]] # None
        /\ m[l[1]].place # l[2]

\* What a wanted name accepts until then: the new value, the one found and
\* those accepted before.
Journalled(L, m, s, n) ==
    LET p == m[n].place
    IN  [place |-> p, entries |-> [k \in Keys |->
           (Written(m, n)[k]
              \cup (IF m[n].servers[k] = None THEN {} ELSE {s[p][k]})
              \cup (IF Owns(L, <<n, None>>, p, k) THEN L[<<n, None>>].entries[k] ELSE {}))
           \ {None}]]

\* Every other record of a place accepts what is written there.
Accepting(m, o) ==
    IF o = None THEN None
    ELSE [o EXCEPT !.entries = [k \in Keys |->
            IF o.entries[k] = {} THEN {}
            ELSE o.entries[k] \cup UNION {Written(m, n)[k] :
                   n \in {i \in Names : m[i] # None /\ m[i].place = o.place}}]]

\* (mutant) The journal is the final ledger.
PendingFinal(L, m, s) == Final(m)

\* The ledger while the files are written.
Pending(L, m, s) ==
    [l \in Labels |->
       Accepting(m,
         IF Current(l) /\ m[l[1]] # None THEN Journalled(L, m, s, l[1])
         ELSE IF Moved(L, m, l) THEN L[<<l[1], None>>] ELSE L[l])]

-----------------------------------------------------------------------------
(* The steps of `reconcile`.                                               *)

Plan(m) ==
    LET s == Stripped(ledger, m, docs)
        after == After(m, s)
    IN  /\ run = Idle
        /\ ~Edited(ledger, m, docs)
        /\ ~Foreign(ledger, m, s)
        /\ run' = [at |-> "Check", manifest |-> m, before |-> docs, after |-> after,
                   pending |-> Pending(ledger, m, s),
                   todo |-> {f \in ClientFiles : \E p \in At(f) : docs[p] # after[p]}]
        /\ UNCHANGED <<docs, ledger, mine, claims>>

Unchanged(f) == \A p \in At(f) : docs[p] = run.before[p]

\* (history) The run writes the value v, or was told to take it.
Claims(p, k, v) ==
    \E n \in Names :
      /\ Wants(run.manifest, n, p, k)
      /\ \/ v = run.manifest[n].servers[k]
         \/ v = run.before[p][k] /\ k \in run.manifest[n].adopt

\* Every file to be written is as it was, then the journal is saved.
SavePending ==
    /\ run.at = "Check"
    /\ \A f \in run.todo : Unchanged(f)
    /\ ledger' = run.pending
    /\ run' = [run EXCEPT !.at = "Write"]
    /\ claims' = claims \cup {c \in Places \X Keys \X Values : Claims(c[1], c[2], c[3])}
    /\ UNCHANGED <<docs, mine>>

CheckFile(f) ==
    /\ run.at = "Write"
    /\ f \in run.todo
    /\ Unchanged(f)
    /\ run' = [run EXCEPT !.at = f, !.todo = run.todo \ {f}]
    /\ UNCHANGED <<docs, ledger, mine, claims>>

\* Another program changed a file since it was read.
Refuse ==
    /\ run.at \in {"Check", "Write"}
    /\ \E f \in run.todo : ~Unchanged(f)
    /\ run' = Idle
    /\ UNCHANGED <<docs, ledger, mine, claims>>

\* (history) After a replacement: what it changed, and what it left.
StaysMine(p, k) ==
    /\ docs'[p][k] # None
    /\ \/ p \in At(run.at) /\ run.after[p][k] # run.before[p][k]
       \/ <<p, k>> \in mine /\ docs'[p][k] = docs[p][k]

\* The whole file is replaced, with what was edited since it was checked.
Replace ==
    /\ run.at \in ClientFiles
    /\ docs' = [p \in Places |-> IF p \in At(run.at) THEN run.after[p] ELSE docs[p]]
    /\ mine' = {e \in Places \X Keys : StaysMine(e[1], e[2])}
    /\ run' = [run EXCEPT !.at = "Write"]
    /\ UNCHANGED <<ledger, claims>>

SaveFinal ==
    /\ run.at = "Write"
    /\ run.todo = {}
    /\ ledger' = Final(run.manifest)
    /\ run' = Idle
    /\ UNCHANGED <<docs, mine, claims>>

\* The reconciler is killed, or a write fails.
Stop ==
    /\ run # Idle
    /\ run' = Idle
    /\ UNCHANGED <<docs, ledger, mine, claims>>

\* A user or a client edits an entry at any time.
ForeignEdit(p, k, v) ==
    /\ docs[p][k] # v
    /\ docs' = [docs EXCEPT ![p][k] = v]
    /\ mine' = mine \ {<<p, k>>}
    /\ UNCHANGED <<ledger, run, claims>>

Next ==
    \/ \E m \in Manifests : Plan(m)
    \/ SavePending \/ Refuse \/ Replace \/ SaveFinal \/ Stop
    \/ \E f \in ClientFiles : CheckFile(f)
    \/ \E p \in Places, k \in Keys, v \in Values \cup {None} : ForeignEdit(p, k, v)

Spec == Init /\ [][Next]_vars

-----------------------------------------------------------------------------
(* What the ledger promises.                                               *)

TypeOK ==
    /\ docs \in [Places -> Document]
    /\ ledger \in Ledger
    /\ run.at \in {"Idle", "Check", "Write"} \cup ClientFiles
    /\ mine \subseteq Places \X Keys
    /\ claims \subseteq Places \X Keys \X Values

\* A record accepts the present value of the entry.
Answered(p, k) ==
    \E l \in Labels : Owns(ledger, l, p, k) /\ docs[p][k] \in ledger[l].entries[k]

\* The journal to be saved has the current record of a target that leaves p in
\* the place of an older record of p, which a stopped run kept.
Overwrites(p, k) ==
    /\ run.at = "Check"
    /\ \E l \in Labels : Moved(ledger, run.manifest, l) /\ Owns(ledger, l, p, k)

\* An entry that the reconciler wrote and nobody edited is owned by a record
\* that accepts its value, and no stopped run and no later manifest, renaming
\* or moving targets in between, takes the owner away, but for one step: the
\* journal of a move that overwrites a retired record of the place.
KeepsOwner ==
    \A p \in Places, k \in Keys :
      <<p, k>> \in mine' /\ ~Answered(p, k)' =>
        <<p, k>> \in mine /\ (Answered(p, k) => Overwrites(p, k))

OwnersKept == [][KeepsOwner]_vars

\* "Keep a moved destination in the journal until its old entries are removed"
\* (reconcile): between the runs, every entry that the reconciler wrote and
\* nobody edited has a record that accepts it, so that a later run removes it
\* once no target wants it.
Accounted ==
    run = Idle => \A p \in Places, k \in Keys : <<p, k>> \in mine => Answered(p, k)

\* "A journal accepts pre/post-write values after interruption" (MCP.md): no
\* record takes what the reconciler itself wrote for somebody's edit, on
\* which every later run would refuse.
JournalAccepts ==
    \A p \in Places, k \in Keys, l \in Labels :
      <<p, k>> \in mine /\ Owns(ledger, l, p, k) => docs[p][k] \in ledger[l].entries[k]

\* A run replaces or removes an entry that it found only when the value is
\* one that it wrote, or was told to adopt, keep or retire: what users
\* registered themselves stays, over crashes, renames and moves.
KeepsForeign ==
    \A f \in ClientFiles, k \in Keys : run.at = f /\ docs' # docs =>
      \A p \in At(f) :
        run.before[p][k] \notin {None, run.after[p][k]} =>
          \/ <<p, k, run.before[p][k]>> \in claims
          \/ \E n \in Names :
               /\ run.manifest[n] # None
               /\ run.manifest[n].place = p
               /\ run.before[p][k] \in run.manifest[n].retire[k]

ForeignKept == [][KeepsForeign]_vars
=============================================================================
