------------------------------ MODULE MCTools -------------------------------
(***************************************************************************)
(* The components that run apart from the train and the coordinator, each  *)
(* on a small instance.  They share no state, so a behaviour picks one     *)
(* tool and runs it; the others stay as they begin.  Rollover comes with   *)
(* EXTENDS, so its properties are checked under the names its theorems     *)
(* have; the other components are instances.                               *)
(***************************************************************************)
EXTENDS Rollover, Sequences, TLC

CONSTANTS
    Malformed, Null,
    Callers, Artifacts,                                     \* Preparation
    Observers, Hosts, HostKeys, Plain, HostKey, Lines,      \* TrustObserver
    Names, Keys, Values, Places, FileOf, Manifests,         \* McpReconcile
    Sources, Script, Texts, Settings, Producers,            \* SidecarCache
    Files, Lower,                                           \* Topology
    Documents, MaxDocuments, Pools, Caches, Budgets,        \* Supply
    Orchestrator, Updates

VARIABLES
    tool,
    docs, ledger, reconcile, mine, claims,
    world, cache, evaluation,
    holder, receipt, valid, caller, passed, trusted,
    known, pkl, sidecar, decisions, proc, missed,
    documents, graph,
    file, verdict

ro == <<files, run, stops>>
mc == <<docs, ledger, reconcile, mine, claims>>
sc == <<world, cache, evaluation>>
pr == <<holder, receipt, valid, caller, passed, trusted>>
tr == <<known, pkl, sidecar, decisions, proc, missed>>
su == <<documents, graph>>
to == <<file, verdict>>

MC == INSTANCE McpReconcile WITH run <- reconcile
SC == INSTANCE SidecarCache WITH run <- evaluation
PR == INSTANCE Preparation
TR == INSTANCE TrustObserver WITH
        Procs <- Observers, Names <- Hosts, Keys <- HostKeys, Entries <- Lines
TO == INSTANCE Topology
SU == INSTANCE Supply WITH docs <- documents

\* The assumptions of the modules.
ASSUME ToolsAssumption ==
    /\ MC!ConstantsSound /\ SC!ConstantsSound /\ PR!ConstantsSound
    /\ TR!ConstantsSound /\ TO!ConstantsSound /\ SU!ConstantsSound

-----------------------------------------------------------------------------
(* The instances that the run checks.                                      *)

\* One MCP target, at one of two places: declared, changed with adoption,
\* moved, moved with a retirement, emptied, and dropped.
OneFileEach == [p \in Places |-> p]
Target(place, v, adopt, retire) ==
    [place |-> place, servers |-> [k \in Keys |-> v], adopt |-> adopt,
     retire |-> [k \in Keys |-> retire]]
OneTarget ==
    {[n \in Names |-> target] : target \in
        {Target("here", "v", {}, {}), Target("here", "w", Keys, {}),
         Target("there", "w", {}, {}), Target("there", None, {}, {"v"}),
         Target("here", None, {}, {}), None}}

\* Each way a program reads its surroundings, and two of them together.
Programs == "import" :> <<"import", "import">> @@ "optional" :> <<"optional">>
         @@ "env" :> <<"volatile">> @@ "both" :> <<"exists", "optional">>

\* "web" is a host of the fleet, written with a port as "[web]".
Unbracketed == "web" :> "web" @@ "[web]" :> "web" @@ "git" :> "git"
FleetKey == "web" :> "k" @@ "[web]" :> None @@ "git" :> None
TwoLines == {[names |-> {"[web]", "git"}, key |-> key] : key \in HostKeys}
Symmetry == Permutations(Observers) \cup Permutations(Callers)

SI == INSTANCE SupplyInstance
SevenDocuments == SI!SupplyDocuments
OnePool == SI!SupplyPools
OneBudget == SI!SupplyBudgets

TI == INSTANCE TopologyInstance
Topologies == TI!TopologyFiles
LowerLabels == TI!TopologyLower

-----------------------------------------------------------------------------
Tools == {"rollover", "mcp", "sidecar", "preparation", "trust", "supply", "topology"}

ToolsInit ==
    /\ tool \in Tools
    /\ Init /\ PR!Init /\ TR!Init /\ SU!Init
    /\ MC!Init /\ (tool # "mcp" => \A p \in DOMAIN docs : docs[p] = [k \in Keys |-> None])
    /\ SC!Init /\ (tool # "sidecar" => world = CHOOSE w \in SC!World : TRUE)
    /\ TO!Init /\ (tool # "topology" => file = CHOOSE f \in Files : TRUE)

ToolsNext ==
    \/ /\ tool = "rollover" /\ Next
       /\ UNCHANGED <<tool, mc, sc, pr, tr, su, to>>
    \/ /\ tool = "mcp" /\ MC!Next
       /\ UNCHANGED <<tool, ro, sc, pr, tr, su, to>>
    \/ /\ tool = "sidecar" /\ SC!Next
       /\ UNCHANGED <<tool, ro, mc, pr, tr, su, to>>
    \/ /\ tool = "preparation" /\ PR!Next
       /\ UNCHANGED <<tool, ro, mc, sc, tr, su, to>>
    \/ /\ tool = "trust" /\ TR!Next
       /\ UNCHANGED <<tool, ro, mc, sc, pr, su, to>>
    \/ /\ tool = "supply" /\ SU!Next
       /\ UNCHANGED <<tool, ro, mc, sc, pr, tr, to>>
    \/ /\ tool = "topology" /\ TO!Next
       /\ UNCHANGED <<tool, ro, mc, sc, pr, tr, su>>

toolsVars == <<tool, ro, mc, sc, pr, tr, su, to>>
ToolsSpec == ToolsInit /\ [][ToolsNext]_toolsVars

-----------------------------------------------------------------------------
(* The properties of the components, under their names.                    *)

\* Every component's variables stay in their types.
ToolsTypeOK ==
    /\ TypeOK /\ MC!TypeOK /\ SC!TypeOK /\ PR!TypeOK
    /\ TR!TypeOK /\ SU!TypeOK /\ TO!TypeOK

\* The ledger answers for what is written until a journal overwrites a record,
\* and other programs' entries stay (mcp.rs).
OwnersKept == [][MC!KeepsOwner]_mc
ForeignKept == [][MC!KeepsForeign]_mc

\* A current cache entry renders the sources as they are (cache.rs).
EntrySound == SC!EntrySound

\* A receipt passes for proof only of artifacts that exist (preparation.rs).
PassedIsProved == PR!PassedIsProved

\* A host's key is never contradicted, and a process takes away only what it
\* could not know of (trust).
HostKeysStand == TR!HostKeysStand
OnlyMissedLost == [][TR!LosesOnlyMissed]_tr

\* The order of the documents does not matter, and a walk is exact
\* (supply.rs).
OrderFree == SU!OrderFree
WalkExact == SU!WalkExact

\* What validation lets pass can be derived from safely (validate.rs,
\* accessors.rs).
Dialable == TO!Dialable
OneWriter == TO!OneWriter
StartOrder == TO!StartOrder
=============================================================================
