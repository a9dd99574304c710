----------------------------- MODULE Placement -----------------------------
(***************************************************************************)
(* What the validation of a topology (src/src/validate.rs and              *)
(* src/src/validate/management.rs) asks of hosts, links, service intents,  *)
(* local access and supply, and what the accessors derive from them        *)
(* (src/src/accessors.rs, src/src/management.rs).                          *)
(*                                                                         *)
(* A topology is a record; what has a name there is a function from names. *)
(* An address that is no address is Malformed, a subnet is the set of its  *)
(* addresses.  Left out: the checks of a single text (storage paths, GPU   *)
(* inventory, VPN profiles, availability classes), warnings, and which     *)
(* error is reported: a topology is accepted when there is none.           *)
(***************************************************************************)
EXTENDS Naturals, Sequences, FiniteSets, SequencesExt

CONSTANTS None, Malformed

IsAddress(a) == a # Malformed
Distinct(s) == IsInjective(s)

-----------------------------------------------------------------------------
(* Hosts and links.                                                        *)

HostsSound(t) ==
    \A h \in DOMAIN t.hosts :
      LET host == t.hosts[h]
      IN /\ host.peers \subseteq DOMAIN t.hosts
         /\ DOMAIN host.links \subseteq DOMAIN t.links
         /\ host.buildHost \in DOMAIN t.hosts \cup {None}
         /\ \A g \in DOMAIN t.hosts \ {h} : host.aliases \cap t.hosts[g].aliases = {}

Bound(t, l) == {h \in DOMAIN t.hosts : l \in DOMAIN t.hosts[h].links}
Servers(t, l) == {h \in Bound(t, l) : t.hosts[h].links[l].role = "server"}

LinksSound(t) ==
    \A l \in DOMAIN t.links :
      /\ t.links[l].port # 0
      /\ t.links[l].subnet # {}
      /\ Cardinality(Servers(t, l)) <= 1
      /\ \A h \in Bound(t, l) :
           /\ t.hosts[h].links[l].address \in t.links[l].subnet
           /\ h \in Servers(t, l) => t.hosts[h].links[l].key
           /\ \A g \in Bound(t, l) \ {h} :
                t.hosts[g].links[l].address # t.hosts[h].links[l].address

\* None unless exactly one host serves the link.
LinkServerHost(t, l) ==
    IF l \in DOMAIN t.links /\ Cardinality(Servers(t, l)) = 1
    THEN CHOOSE h \in Servers(t, l) : TRUE ELSE None

\* The host to address of the peers the server's side lists.
LinkPeers(t, l) ==
    [h \in {x \in Bound(t, l) \ {LinkServerHost(t, l)} :
              IsAddress(t.hosts[x].links[l].address)} |-> t.hosts[h].links[l].address]

-----------------------------------------------------------------------------
(* Management routes.                                                      *)

ManagementSound(t) ==
    \A h \in DOMAIN t.hosts :
      LET m == t.hosts[h].management
      IN /\ (m.public # None \/ m.link # None) => t.hosts[h].hostKey # None
         /\ IsAddress(m.public)
         /\ m.link # None => m.link \in DOMAIN t.links /\ m.link \in DOMAIN t.hosts[h].links

\* A link both hosts are on, then the public address.
ManagementRoutes(t, from, to) ==
    LET target == t.hosts[to]
        m == target.management
        shared == m.link # None /\ m.link \in DOMAIN t.hosts[from].links
                                /\ m.link \in DOMAIN target.links
    IN IF from = to \/ target.hostKey = None THEN <<>>
       ELSE (IF shared THEN <<[kind |-> m.link, address |-> target.links[m.link].address,
                               key |-> target.hostKey]>> ELSE <<>>)
            \o (IF m.public # None THEN <<[kind |-> "public", address |-> m.public,
                                           key |-> target.hostKey]>> ELSE <<>>)

-----------------------------------------------------------------------------
(* Service intents: Kahn's loop over their positions.                      *)

\* The later of two intents of one name keeps its position.
Position(intents, name) ==
    LET at == {i \in DOMAIN intents : intents[i].name = name}
    IN IF at = {} THEN 0 ELSE CHOOSE i \in at : \A j \in at : j <= i

\* An edge for every dependency that is known and not the intent itself;
\* one that is listed twice counts twice.
DependencyEdges(intents) ==
    {e \in UNION {{<<Position(intents, intents[i].dependsOn[k]), i, k>> :
                      k \in DOMAIN intents[i].dependsOn} : i \in DOMAIN intents} :
        e[1] \notin {0, e[2]}}

\* (mutant) A dependent is told once of a dependency it lists twice.
PopOnce(edges, s) ==
    IF s.ready = {} THEN s
    ELSE LET i == CHOOSE x \in s.ready : TRUE
             told(j) == IF \E e \in edges : e[1] = i /\ e[2] = j THEN 1 ELSE 0
             free == {j \in DOMAIN s.indegree : told(j) > 0 /\ s.indegree[j] = told(j)}
         IN [processed |-> s.processed + 1,
             indegree |-> [j \in DOMAIN s.indegree |-> s.indegree[j] - told(j)],
             ready |-> (s.ready \ {i}) \cup free]

\* Which of the ready intents is next does not matter to their number, so
\* the queue is a set.
Pop(edges, s) ==
    IF s.ready = {} THEN s
    ELSE LET i == CHOOSE x \in s.ready : TRUE
             told(j) == Cardinality({e \in edges : e[1] = i /\ e[2] = j})
             free == {j \in DOMAIN s.indegree : told(j) > 0 /\ s.indegree[j] = told(j)}
         IN [processed |-> s.processed + 1,
             indegree |-> [j \in DOMAIN s.indegree |-> s.indegree[j] - told(j)],
             ready |-> (s.ready \ {i}) \cup free]

FirstReady(edges, n) ==
    LET degree == [j \in 1..n |-> Cardinality({e \in edges : e[2] = j})]
    IN [processed |-> 0, indegree |-> degree, ready |-> {j \in 1..n : degree[j] = 0}]

\* The loop after each number of turns; it needs no more than intents.
Turns(edges, n) ==
    LET turn[k \in 0..n] == IF k = 0 THEN FirstReady(edges, n) ELSE Pop(edges, turn[k - 1])
    IN turn

Processed(intents) ==
    Turns(DependencyEdges(intents), Len(intents))[Len(intents)].processed

IntentsSound(t) ==
    LET names == {t.intents[i].name : i \in DOMAIN t.intents}
    IN /\ Cardinality(names) = Len(t.intents)
       /\ \A i \in DOMAIN t.intents :
            LET intent == t.intents[i]
            IN /\ intent.service \in DOMAIN t.endpoints \cup DOMAIN t.sites \cup {None}
               /\ intent.hosts \subseteq DOMAIN t.hosts
               /\ ToSet(intent.dependsOn) \subseteq names \ {intent.name}
       /\ Processed(t.intents) = Len(t.intents)

-----------------------------------------------------------------------------
(* Local access and supply.                                                *)

\* The literal destination, or the target's address on the fallback link.
Destination(t, policy) ==
    IF policy.destination # None THEN policy.destination
    ELSE IF policy.fallback \in DOMAIN t.hosts[policy.target].links
         THEN t.hosts[policy.target].links[policy.fallback].address ELSE Malformed

Claims(t, policy) ==
    {<<client, Destination(t, policy), port>> :
        client \in ToSet(policy.clients), port \in ToSet(policy.ports)}

LocalAccessSound(t) ==
    \A p \in DOMAIN t.localAccess :
      LET policy == t.localAccess[p]
      IN /\ policy.clients # <<>> /\ Distinct(policy.clients)
         /\ ToSet(policy.clients) \subseteq DOMAIN t.hosts \ {policy.target}
         /\ policy.target \in DOMAIN t.hosts
         /\ {policy.preferred, policy.fallback} \subseteq DOMAIN t.links
         /\ policy.preferred # policy.fallback
         /\ IsAddress(Destination(t, policy))
         /\ policy.ports # <<>> /\ Distinct(policy.ports)
         /\ \A q \in DOMAIN t.localAccess \ {p} :
              t.localAccess[q].target \in DOMAIN t.hosts =>
                Claims(t, policy) \cap Claims(t, t.localAccess[q]) = {}

\* A runner is offered by one pool, a budget covers known pools.
SupplySound(t) ==
    /\ \A p, q \in DOMAIN t.pools :
         p # q /\ t.pools[p].host = t.pools[q].host
           => t.pools[p].labels \cap t.pools[q].labels = {}
    /\ \A b \in DOMAIN t.budgets : t.budgets[b] # {} /\ t.budgets[b] \subseteq DOMAIN t.pools
=============================================================================
