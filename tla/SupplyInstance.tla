--------------------------- MODULE SupplyInstance ---------------------------
(***************************************************************************)
(* The supply documents of the runs: one repository with one usage of a    *)
(* tool, a workflow on a runner, a cache, and an orchestrator, stated by   *)
(* producers that agree, disagree, or say null.                            *)
(***************************************************************************)
EXTENDS Naturals, TLC

CONSTANTS None, Null

Repo == <<"repo", "r">>
Use == <<"usage", "r", "rustc">>
Flow == <<"workflow", "r", "ci">>
Big == <<"runner", "h", "big">>
Lost == <<"runner", "h", "lost">>
Cache == <<"cache", "c">>
Train == <<"orchestrator", "train">>

Nothing == [k \in {} |-> Null]
Node(id, attrs) ==
    [id |-> id, kind |-> id[1], attrs |-> attrs, expects |-> {}, blockers |-> {}]
Edge(from, kind, to, attrs) == [from |-> from, to |-> to, kind |-> kind, attrs |-> attrs]
Row(matches, lands, orchestrator, blocker) ==
    [usageKind |-> "toolchain", matches |-> matches, lands |-> lands,
     orchestrator |-> orchestrator, blocker |-> blocker]
Doc(producer, nodes, edges, rows) ==
    [producer |-> producer, nodes |-> nodes, edges |-> edges, capabilities |-> rows]
Observed(runs, minutes) ==
    "observed" :> [days |-> 30, runs |-> runs, minutes |-> minutes]

SupplyDocuments == {
    Doc("scan",
        <<Node(Repo, "lang" :> "rust"),
          [Node(Use, "usageKind" :> "toolchain" @@ "version" :> Null) EXCEPT
              !.expects = {[attr |-> "version", blocker |-> "no-version"]}],
          Node(Big, Nothing)>>,
        <<Edge(Repo, "has", Use, Nothing), Edge(Use, "usesRunner", Big, Nothing)>>, {}),
    Doc("lock",
        <<Node(Use, "version" :> "1" @@ "state" :> "absent"), Node(Lost, Nothing)>>,
        <<Edge(Use, "usesRunner", Lost, Nothing)>>, {}),
    Doc("train",
        <<Node(Repo, "lang" :> "go"), Node(Train, "runsPerUpdate" :> 2)>>,
        <<Edge(Repo, "enrolledIn", Train, "enabled" :> "true")>>,
        {Row("lang" :> "rust", TRUE, "train", None), Row(Nothing, FALSE, None, "held")}),
    Doc("other",
        <<Node(Train, "runsPerUpdate" :> 3)>>,
        <<Edge(Repo, "enrolledIn", Train, "enabled" :> "false")>>,
        {Row("lang" :> "rust", TRUE, None, None), Row("lang" :> "rust", FALSE, None, None)}),
    Doc("ci",
        <<Node(Flow, Observed(10, 100))>>,
        <<Edge(Flow, "runsOn", Big, Nothing), Edge(Repo, "has", Flow, Nothing),
          Edge(Flow, "writes", Cache, Nothing)>>, {}),
    Doc("ci2",
        <<Node(Flow, Observed(20, 100)), [Node(Cache, Nothing) EXCEPT !.blockers = {"cold"}]>>,
        <<Edge(Cache, "feeds", Use, Nothing), Edge(Cache, "servedBy", Lost, Nothing),
          Edge(Use, "usesRunner", Lost, Nothing)>>, {}),
    Doc("odd",
        <<[Node(Flow, Observed(0, 100)) EXCEPT !.kind = "job"]>>,
        <<Edge(Flow, "runsOn", Lost, Nothing)>>, {})}

SupplyPools == "fast" :> [host |-> "h", labels |-> {"big"}, metered |-> TRUE]
            @@ "slow" :> [host |-> "g", labels |-> {"big"}, metered |-> FALSE]
SupplyBudgets == "month" :> {"fast", "slow"}
=============================================================================
