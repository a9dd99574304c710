---------------------------- MODULE SidecarCache ----------------------------
(***************************************************************************)
(* Rendering a Pkl source to a Nix sidecar through the evaluation cache    *)
(* (src/crates/fleetix-sidecar/src/lib.rs, cache.rs), while the sources,   *)
(* the environment and the program itself change at any time.              *)
(*                                                                         *)
(* The source `main` says what its evaluation asks of the outside: the     *)
(* calls of Script.  Each call is one step, so the world may change        *)
(* between two of them; a lookup is one step, as what it reads one after   *)
(* the other is judged by the invariant at every world it might see.       *)
(* Canonical paths and globs are recorded and compared as existence is;    *)
(* the evaluator (pklr) is external.                                       *)
(***************************************************************************)
EXTENDS Naturals, Sequences, Functions

CONSTANTS
    Sources,    \* what main may contain
    Script,     \* [Sources -> Seq(Calls)]
    Texts,      \* what the imported file may contain
    Settings,   \* values of an environment variable, or of a remote text
    Producers,  \* builds of the program
    None

Calls == {"import", "optional", "exists", "volatile"}

ConstantsSound ==
    /\ Script \in [Sources -> Seq(Calls)]
    /\ None \notin Texts /\ None \notin BOOLEAN

VARIABLES
    world,      \* sources, environment and the running program
    cache,      \* the entry of main's key, or None
    run         \* the call of write_with_cache in progress

vars == <<world, cache, run>>

World == [main : Sources, lib : Texts \cup {None}, setting : Settings,
          producer : Producers]

Init ==
    /\ world \in World
    /\ cache = None
    /\ run = [at |-> "Idle"]

-----------------------------------------------------------------------------
\* What a call answers.
Answer(w, call) ==
    CASE call = "import" -> w.lib
      [] call = "optional" -> w.lib
      [] call = "exists" -> w.lib # None
      [] call = "volatile" -> w.setting

Fails(w, call) == call = "import" /\ w.lib = None

Nix(w, main, answers) == [producer |-> w.producer, main |-> main, answers |-> answers]

\* (reference) The rendering of a world that stands still.
Rendering(w) ==
    Nix(w, w.main, [i \in DOMAIN Script[w.main] |-> Answer(w, Script[w.main][i])])

\* The record of the calls that were made: a later reading of a file
\* replaces the hash of an earlier one, and a reading that failed, as well as
\* one of anything but files, makes the evaluation volatile.
NoSnapshot == [lib |-> None, existence |-> None, volatile |-> FALSE]

\* (mutant) An absent file leaves no trace.
ObserveAbsentSilently(s, w, call) ==
    CASE call \in {"import", "optional"} -> [s EXCEPT !.lib = w.lib]
      [] call = "exists" -> [s EXCEPT !.existence = w.lib # None]
      [] call = "volatile" -> [s EXCEPT !.volatile = TRUE]

Observe(s, w, call) ==
    CASE call \in {"import", "optional"} ->
           IF w.lib = None THEN [s EXCEPT !.volatile = TRUE]
           ELSE [s EXCEPT !.lib = w.lib]
      [] call = "exists" -> [s EXCEPT !.existence = w.lib # None]
      [] call = "volatile" -> [s EXCEPT !.volatile = TRUE]

\* Format, producer and every recorded observation still hold.
IsCurrent(entry, w) ==
    /\ entry.producer = w.producer
    /\ entry.main = w.main
    /\ entry.snapshot.lib \in {None, w.lib}
    /\ entry.snapshot.existence \in {None, w.lib # None}

-----------------------------------------------------------------------------
\* `enabled` is false for --no-cache, an HTTP agent or rewrites.
Start(enabled) ==
    /\ run.at = "Idle"
    /\ IF enabled /\ cache # None /\ IsCurrent(cache, world)
       THEN run' = [at |-> "Write", publish |-> FALSE]
       ELSE run' = [at |-> "Evaluate", publish |-> enabled, main |-> world.main,
                    answers |-> <<>>, snapshot |-> NoSnapshot, torn |-> FALSE]
    /\ UNCHANGED <<world, cache>>

\* One call of the evaluator; `torn` notes that a file it had read before
\* reads differently now.
Call ==
    LET call == Script[run.main][Len(run.answers) + 1]
    IN  /\ run.at = "Evaluate"
        /\ Len(run.answers) < Len(Script[run.main])
        /\ ~Fails(world, call)
        /\ run' = [run EXCEPT
             !.answers = Append(run.answers, Answer(world, call)),
             !.snapshot = Observe(run.snapshot, world, call),
             !.torn = run.torn \/ \E i \in DOMAIN run.answers :
                        /\ Script[run.main][i] \in {"import", "optional", "exists"}
                        /\ run.answers[i] # Answer(world, Script[run.main][i])]
        /\ UNCHANGED <<world, cache>>

\* A missing import ends the evaluation.
CallFails ==
    /\ run.at = "Evaluate"
    /\ Len(run.answers) < Len(Script[run.main])
    /\ Fails(world, Script[run.main][Len(run.answers) + 1])
    /\ run' = [at |-> "Idle"]
    /\ UNCHANGED <<world, cache>>

Evaluated ==
    /\ run.at = "Evaluate"
    /\ Len(run.answers) = Len(Script[run.main])
    /\ run' = [at |-> "Write",
               publish |-> run.publish /\ ~run.snapshot.volatile,
               entry |-> [producer |-> world.producer, main |-> run.main,
                          snapshot |-> run.snapshot, torn |-> run.torn,
                          nix |-> Nix(world, run.main, run.answers)]]
    /\ UNCHANGED <<world, cache>>

\* write_rendered replaces the sidecar, which nothing here reads again.
WriteRendered ==
    /\ run.at = "Write"
    /\ run' = IF run.publish THEN [run EXCEPT !.at = "Put"] ELSE [at |-> "Idle"]
    /\ UNCHANGED <<world, cache>>

Put ==
    /\ run.at = "Put"
    /\ cache' = run.entry
    /\ run' = [at |-> "Idle"]
    /\ UNCHANGED world

\* A write fails, or the program is killed; a failed put is not an error.
Abort ==
    /\ run.at # "Idle"
    /\ run' = [at |-> "Idle"]
    /\ UNCHANGED <<world, cache>>

\* Somebody edits; the program is only replaced between two of its runs.
Edit ==
    /\ world' \in {[world EXCEPT !.main = m] : m \in Sources}
             \cup {[world EXCEPT !.lib = t] : t \in Texts \cup {None}}
             \cup {[world EXCEPT !.setting = s] : s \in Settings}
             \cup {[world EXCEPT !.producer = p] : p \in Producers}
    /\ world'.producer # world.producer => run.at = "Idle"
    /\ world' # world
    /\ UNCHANGED <<cache, run>>

Next ==
    \/ \E enabled \in BOOLEAN : Start(enabled)
    \/ Call \/ CallFails \/ Evaluated \/ WriteRendered \/ Put \/ Abort
    \/ Edit

Spec == Init /\ [][Next]_vars

-----------------------------------------------------------------------------
TypeOK ==
    /\ world \in World
    /\ cache # None => cache.producer \in Producers /\ cache.main \in Sources
    /\ run.at \in {"Idle", "Evaluate", "Write", "Put"}

\* Whatever changed while the entry was made and since, an entry that a
\* lookup would accept renders the sources as they are, unless a file was
\* read twice and had changed in between.
EntrySound ==
    cache # None /\ ~cache.torn /\ IsCurrent(cache, world)
      => cache.nix = Rendering(world)
=============================================================================
