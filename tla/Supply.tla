------------------------------- MODULE Supply -------------------------------
(***************************************************************************)
(* Supply facts (src/src/supply.rs): documents of several producers are    *)
(* merged into one graph (R1), and three reports read it: the gaps of R2   *)
(* to R7, the walk from a node, and the forecast of a budget.              *)
(*                                                                         *)
(* `build` merges the documents in the order of the command line; the      *)
(* state is that loop.  An identifier is the tuple of its parts:           *)
(* <<"usage", repository, tool>>, <<"runner", host, label>> and so on.     *)
(* Attribute values are compared only with values of the same attribute.   *)
(* Left out: the wording of reasons, the counts that summarise the gaps,   *)
(* the reduction candidates of a budget, and fractions of a minute.        *)
(***************************************************************************)
EXTENDS Integers, Sequences, FiniteSets, SequencesExt

CONSTANTS
    Documents,
    MaxDocuments,   \* bound on the documents of one call
    Null,           \* the JSON null
    None,
    Pools,          \* the runner pools of the topology, by name
    Caches,         \* the names of its caches
    Budgets,        \* its budgets: the pools each one covers
    Orchestrator,   \* --orchestrator
    Updates         \* --updates-per-month

VARIABLES
    docs,           \* the documents merged so far
    graph

vars == <<docs, graph>>

ConstantsSound ==
    /\ MaxDocuments \in Nat
    /\ \A d \in Documents :
         d.nodes \in Seq(ToSet(d.nodes)) /\ d.edges \in Seq(ToSet(d.edges))

\* repository_of, with the identifier of the repository for its coordinate.
RepositoryOf(id) ==
    IF id[1] \in {"repo", "usage", "workflow"} THEN <<"repo", id[2]>> ELSE None

-----------------------------------------------------------------------------
(* R1: merging.  The first kind and the first value that is not null stay. *)

NoAttrs == [k \in {} |-> Null]
\* (mutant) A null overrides.
NullKept(attrs) == attrs
NonNull(attrs) == [k \in {x \in DOMAIN attrs : attrs[x] # Null} |-> attrs[k]]
Clashes(into, from) ==
    {k \in DOMAIN into \cap DOMAIN NonNull(from) : into[k] # from[k]}

MergeAttrs(into, from) ==
    [k \in DOMAIN into \cup DOMAIN NonNull(from) |->
        IF k \in DOMAIN into THEN into[k] ELSE from[k]]

EmptyGraph ==
    [nodes |-> [i \in {} |-> Null], edges |-> <<>>, capabilities |-> {}, conflicts |-> {}]

Conflicts(node, subject, keys) ==
    {[node |-> node, subject |-> subject, key |-> k] : k \in keys}

MergeNode(g, producer, n) ==
    LET old == IF n.id \in DOMAIN g.nodes THEN g.nodes[n.id]
               ELSE [kind |-> n.kind, attrs |-> NoAttrs, expects |-> {}, blockers |-> {}]
        kind == IF old.kind # n.kind THEN {"(kind)"} ELSE {}
        new == [old EXCEPT
                  !.attrs = MergeAttrs(@, n.attrs),
                  !.expects = @ \cup {[producer |-> producer, value |-> e] :
                       e \in {x \in n.expects : \A known \in old.expects : known.value # x}},
                  !.blockers = @ \cup {[producer |-> producer, value |-> b] : b \in n.blockers}]
    IN [g EXCEPT !.nodes = [id \in DOMAIN @ \cup {n.id} |-> IF id = n.id THEN new ELSE @[id]],
                 !.conflicts = @ \cup
                     Conflicts(n.id, n.id, Clashes(old.attrs, n.attrs) \cup kind)]

\* The first producer of an edge owns what the edge withholds.
MergeEdge(g, producer, e) ==
    LET same(i) == /\ g.edges[i].from = e.from
                   /\ g.edges[i].to = e.to
                   /\ g.edges[i].kind = e.kind
        known == {i \in DOMAIN g.edges : same(i)}
        i == CHOOSE x \in known : TRUE
    IN IF known = {}
       THEN [g EXCEPT !.edges = Append(@, [from |-> e.from, to |-> e.to, kind |-> e.kind,
                                           attrs |-> NonNull(e.attrs), owner |-> producer])]
       ELSE [g EXCEPT !.edges[i].attrs = MergeAttrs(@, e.attrs),
                      !.conflicts = @ \cup
                          Conflicts(e.from, <<e.from, e.to, e.kind>>,
                                    Clashes(g.edges[i].attrs, e.attrs))]

\* The graph after each number of the document's nodes, then of its edges.
Noded(g, doc) ==
    LET after[i \in 0..Len(doc.nodes)] ==
          IF i = 0 THEN g ELSE MergeNode(after[i - 1], doc.producer, doc.nodes[i])
    IN after

Edged(g, doc) ==
    LET after[i \in 0..Len(doc.edges)] ==
          IF i = 0 THEN g ELSE MergeEdge(after[i - 1], doc.producer, doc.edges[i])
    IN after

Merge(g, doc) ==
    LET noded == Noded(g, doc)[Len(doc.nodes)]
        edged == Edged(noded, doc)[Len(doc.edges)]
    IN [edged EXCEPT !.capabilities = @ \cup
            {[producer |-> doc.producer, row |-> r] : r \in doc.capabilities}]

\* The graph after each number of documents.
Built(sequence) ==
    LET after[i \in 0..Len(sequence)] ==
          IF i = 0 THEN EmptyGraph ELSE Merge(after[i - 1], sequence[i])
    IN after

Build(sequence) == Built(sequence)[Len(sequence)]

Init == docs = <<>> /\ graph = EmptyGraph

Read(doc) ==
    /\ Len(docs) < MaxDocuments
    /\ docs' = Append(docs, doc)
    /\ graph' = Merge(graph, doc)

Next == \E doc \in Documents : Read(doc)
Spec == Init /\ [][Next]_vars

-----------------------------------------------------------------------------
(* R2 to R7: gaps.                                                         *)

Attr(g, id, k) ==
    IF id \in DOMAIN g.nodes /\ k \in DOMAIN g.nodes[id].attrs
    THEN g.nodes[id].attrs[k] ELSE None

\* Edges are known by their index; they are kept in the order they came.
EdgesFrom(g, id) == {i \in DOMAIN g.edges : g.edges[i].from = id}
EdgesTo(g, id) == {i \in DOMAIN g.edges : g.edges[i].to = id}

IsUsage(g, id) == id \in DOMAIN g.nodes /\ g.nodes[id].kind = "usage"
Absent(g, id) == IsUsage(g, id) /\ Attr(g, id, "state") = "absent"

\* R2: per producer, the applicable rows with the most `match` keys.
BestRows(g, kind, repo, producer) ==
    LET rows == {c.row : c \in {x \in g.capabilities :
                    /\ x.producer = producer
                    /\ x.row.usageKind = kind
                    /\ \A k \in DOMAIN x.row.matches :
                          Attr(g, repo, k) = x.row.matches[k]}}
        keys(r) == Cardinality(DOMAIN r.matches)
    IN {r \in rows : \A s \in rows : keys(s) <= keys(r)}

Enrollments(g, repo, orchestrator) ==
    {i \in EdgesFrom(g, repo) : /\ g.edges[i].kind = "enrolledIn"
                                /\ g.edges[i].to[1] = "orchestrator"
                                /\ g.edges[i].to[2] = orchestrator}

Enabled(e) == "enabled" \in DOMAIN e.attrs /\ e.attrs["enabled"] = "true"

Draft(blocker, owner, source) == [blocker |-> blocker, owner |-> owner, source |-> source]

\* R3, then R4: why a row does not cover the usage, if it does not.
Shortfall(g, row, producer, repo) ==
    LET enrolled == Enrollments(g, repo, row.orchestrator)
    IN CASE ~row.lands ->
              {Draft(IF row.blocker = None THEN "no-capability" ELSE row.blocker,
                     producer, "capability")}
         [] row.lands /\ row.orchestrator = None -> {}
         [] row.lands /\ row.orchestrator # None /\ enrolled = {} ->
              {Draft("not-enrolled", None, "enrollment")}
         [] OTHER ->
              IF \E i \in enrolled : Enabled(g.edges[i]) THEN {}
              ELSE {Draft("operator-disabled", g.edges[Min(enrolled)].owner, "enrollment")}

\* The failures of an uncovered usage, one per producer; none if it is
\* covered.  A tie of rows is a failure of its producer.
CoverageGaps(g, id) ==
    LET repo == RepositoryOf(id)
        kind == Attr(g, id, "usageKind")
        best == [p \in {c.producer : c \in g.capabilities} |-> BestRows(g, kind, repo, p)]
        producers == {p \in DOMAIN best : best[p] # {}}
        failures(p) ==
            IF Cardinality(best[p]) > 1 THEN {Draft("contract-conflict", p, "capability")}
            ELSE UNION {Shortfall(g, r, p, repo) : r \in best[p]}
    IN IF kind = None \/ producers = {} THEN {Draft("no-capability", None, "capability")}
       ELSE IF \E p \in producers : failures(p) = {} THEN {}
       ELSE UNION {failures(p) : p \in producers}

\* R6: a runner needs a pool that offers it, a cache its declaration.
Offers(pool, runner) ==
    runner[1] = "runner" /\ pool.host = runner[2] /\ runner[3] \in pool.labels

TopologyGap(g, id) ==
    LET kind == g.nodes[id].kind
    IN CASE kind = "runner" /\ ~(\E p \in DOMAIN Pools : Offers(Pools[p], id)) ->
              {Draft("unknown-runner", None, "topology")}
         [] kind = "cache" /\ ~(id[1] = "cache" /\ id[2] \in Caches) ->
              {Draft("unknown-cache", None, "topology")}
         [] OTHER -> {}

Bind(drafts, id, repo) ==
    {[node |-> id, repository |-> repo, blocker |-> d.blocker,
      owner |-> d.owner, source |-> d.source] : d \in drafts}

\* One gap per repository that depends on the unjoined node; none if only
\* absent usages do.
DependentGaps(g, id) ==
    LET all == EdgesTo(g, id)
        live == {i \in all : ~Absent(g, g.edges[i].from)}
        repos == {RepositoryOf(g.edges[i].from) : i \in live} \ {None}
    IN IF repos = {} /\ live # all THEN {}
       ELSE UNION {Bind(TopologyGap(g, id), id, r) :
                      r \in IF repos = {} THEN {RepositoryOf(id)} ELSE repos}

NodeGaps(g, id) ==
    LET n == g.nodes[id]
        missing == {x \in n.expects : x.value.attr \notin DOMAIN n.attrs}
        stated == {Draft(b.value, b.producer, "producer") : b \in n.blockers}
                  \cup {Draft(x.value.blocker, x.producer, "expectation") : x \in missing}
    IN IF Absent(g, id) THEN {}
       ELSE Bind(stated, id, RepositoryOf(id))
            \cup DependentGaps(g, id)
            \cup (IF IsUsage(g, id) THEN Bind(CoverageGaps(g, id), id, RepositoryOf(id)) ELSE {})

Gaps(g) ==
    {[node |-> c.node, repository |-> RepositoryOf(c.node), blocker |-> "contract-conflict",
      owner |-> None, source |-> "merge"] : c \in g.conflicts}
    \cup UNION {NodeGaps(g, id) : id \in DOMAIN g.nodes}

-----------------------------------------------------------------------------
(* The walk: breadth first, up to `depth` hops.                            *)

Ids(g) == DOMAIN g.nodes \cup UNION {{g.edges[i].from, g.edges[i].to} : i \in DOMAIN g.edges}
Source(e, reverse) == IF reverse THEN e.to ELSE e.from
Sink(e, reverse) == IF reverse THEN e.from ELSE e.to

\* The edges a turn takes: those of the node, short of the depth.
Taken(g, here, reverse, depth) ==
    {i \in DOMAIN g.edges : here.hops # depth /\ Source(g.edges[i], reverse) = here.id}

\* A neighbour not seen before is appended to the queue.
\* (mutant) It is put in front: depth first.
FollowDepthFirst(w, here, next) ==
    IF next \in w.seen THEN w
    ELSE [w EXCEPT !.seen = @ \cup {next},
                   !.queue = <<[id |-> next, hops |-> here.hops + 1]>> \o @]

Follow(w, here, next) ==
    IF next \in w.seen THEN w
    ELSE [w EXCEPT !.seen = @ \cup {next},
                   !.queue = Append(@, [id |-> next, hops |-> here.hops + 1])]

\* One turn: the node at the front of the queue is listed, and its edges are
\* followed in the order of their indices.
Pushed(g, w, reverse, depth) ==
    LET here == Head(w.queue)
        out == Taken(g, here, reverse, depth)
        after[i \in 0..Len(g.edges)] ==
          IF i = 0
          THEN [w EXCEPT !.queue = Tail(@), !.nodes = Append(@, here), !.edges = @ \cup out]
          ELSE IF i \in out
               THEN Follow(after[i - 1], here, Sink(g.edges[i], reverse))
               ELSE after[i - 1]
    IN after

Visit(g, w, reverse, depth) ==
    IF w.queue = <<>> THEN w ELSE Pushed(g, w, reverse, depth)[Len(g.edges)]

\* The loop after each number of turns; it needs no more than nodes.
Walked(g, root, reverse, depth) ==
    LET after[k \in 0..Cardinality(Ids(g))] ==
          IF k = 0
          THEN [queue |-> <<[id |-> root, hops |-> 0]>>, seen |-> {root},
                nodes |-> <<>>, edges |-> {}]
          ELSE Visit(g, after[k - 1], reverse, depth)
    IN after

Walk(g, root, reverse, depth) == Walked(g, root, reverse, depth)[Cardinality(Ids(g))]

-----------------------------------------------------------------------------
(* The forecast.                                                           *)

\* The nodes of kind workflow that run on one of the pools and were observed.
Workflows(g, pools) ==
    {id \in DOMAIN g.nodes :
        /\ g.nodes[id].kind = "workflow"
        /\ "observed" \in DOMAIN g.nodes[id].attrs
        /\ \E i \in DOMAIN g.edges :
              /\ g.edges[i].from = id /\ g.edges[i].kind = "runsOn"
              /\ \E p \in pools : Offers(Pools[p], g.edges[i].to)}

\* The orchestrators that the node's repository is enabled in.
EnabledEnrollments(g, id) ==
    {g.edges[i].to : i \in {x \in Enrollments(g, RepositoryOf(id), Orchestrator) :
                               Enabled(g.edges[x])}}

\* Facts that disagree about what is forecast: the workflow, its repository
\* with the enrollments, or an orchestrator it is enrolled in.
\* (mutant) Only the workflow itself is looked at.
DisputedItself(g, id) == id \in {c.node : c \in g.conflicts}
Disputed(g, id) ==
    {c.node : c \in g.conflicts} \cap
        ({id, RepositoryOf(id)} \cup EnabledEnrollments(g, id)) # {}

RunsPerUpdate(g, orchestrator) ==
    LET runs == Attr(g, orchestrator, "runsPerUpdate") IN IF runs = None THEN 2 ELSE runs

Misobserved(g, id) ==
    LET o == g.nodes[id].attrs["observed"]
    IN o.days <= 0 \/ o.runs < 0 \/ o.minutes < 0

\* Looked at for workflows on a metered pool only.
NegativeRuns(g, id) == \E to \in EnabledEnrollments(g, id) : RunsPerUpdate(g, to) < 0

ObservedMinutes(g, id) ==
    LET o == g.nodes[id].attrs["observed"] IN (o.minutes * 30) \div o.days

Total(minutes) == FoldSet(LAMBDA id, n : n + minutes[id], 0, DOMAIN minutes)

\* Enrollments of one repository differ in their orchestrator (merging).
UpdaterMinutes(g, id) ==
    LET o == g.nodes[id].attrs["observed"]
        runs == Total([to \in EnabledEnrollments(g, id) |-> RunsPerUpdate(g, to)])
    IN IF o.runs = 0 THEN 0 ELSE (runs * o.minutes * Updates) \div o.runs

Metered(pools) == {p \in pools : Pools[p].metered}

\* {} when the forecast fails, else the one report.
Forecast(g) ==
    LET counted(b) == Workflows(g, Budgets[b])
        metered(b) == Workflows(g, Metered(Budgets[b]))
        fails(b) ==
            \/ \E id \in counted(b) : Disputed(g, id) \/ Misobserved(g, id)
            \/ \E id \in metered(b) : NegativeRuns(g, id)
    IN IF \E b \in DOMAIN Budgets : fails(b)
       THEN {}
       ELSE {[b \in DOMAIN Budgets |->
                Total([id \in counted(b) |-> ObservedMinutes(g, id)])
                + Total([id \in metered(b) |-> UpdaterMinutes(g, id)])]}

-----------------------------------------------------------------------------
(* What the reports promise.                                               *)

TypeOK ==
    /\ docs \in Seq(Documents)
    /\ \A id \in DOMAIN graph.nodes : \A k \in DOMAIN graph.nodes[id].attrs :
          graph.nodes[id].attrs[k] # Null

Project(gaps) ==
    {[node |-> x.node, repository |-> x.repository, blocker |-> x.blocker] : x \in gaps}

KindsAgree ==
    \A i, j \in DOMAIN docs :
      \A m \in DOMAIN docs[i].nodes, n \in DOMAIN docs[j].nodes :
        docs[i].nodes[m].id = docs[j].nodes[n].id => docs[i].nodes[m].kind = docs[j].nodes[n].kind

\* The order of the documents decides whose value is kept, and nothing
\* else: the same facts are in conflict, without conflicts the same gaps are
\* reported (whoever owns them), and a forecast that is made is the same
\* forecast.  A kind in dispute is exempt there: the first kind decides
\* whether a node is a workflow at all.
OrderFree ==
    LET other == Build(Reverse(docs))
    IN /\ other.conflicts = graph.conflicts
       /\ graph.conflicts = {} => Project(Gaps(other)) = Project(Gaps(graph))
       /\ KindsAgree => Forecast(other) = Forecast(graph)

\* Distance by definition: the nodes within n hops of the root.
Within(g, root, reverse, n) ==
    LET reach[k \in 0..n] ==
          IF k = 0 THEN {root}
          ELSE reach[k - 1] \cup {Sink(g.edges[i], reverse) : i \in
                  {x \in DOMAIN g.edges : Source(g.edges[x], reverse) \in reach[k - 1]}}
    IN reach

\* A walk lists exactly the nodes within its depth, each once and at its
\* distance, and exactly the edges that leave a node short of the depth.
WalkExact ==
    \A root \in Ids(graph), reverse \in BOOLEAN, depth \in 0..3 :
      LET w == Walk(graph, root, reverse, depth)
          reach == Within(graph, root, reverse, depth)
          listed == {w.nodes[i].id : i \in DOMAIN w.nodes}
      IN /\ listed = reach[depth]
         /\ Len(w.nodes) = Cardinality(listed)
         /\ \A i \in DOMAIN w.nodes : \A k \in 0..depth :
              w.nodes[i].id \in reach[k] <=> w.nodes[i].hops <= k
         /\ w.edges = {i \in DOMAIN graph.edges : depth > 0
                         /\ Source(graph.edges[i], reverse) \in reach[depth - 1]}
=============================================================================
