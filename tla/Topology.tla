------------------------------ MODULE Topology ------------------------------
(***************************************************************************)
(* A topology on its way from its file to its consumers: evaluated,        *)
(* validated as a whole, and handed out only without an error              *)
(* (load_topology_with_options, validate).  What consumers derive from it  *)
(* is in Placement, Naming and Routing; the properties say that what was   *)
(* accepted can be derived from safely.                                    *)
(***************************************************************************)
EXTENDS Routing

CONSTANT Files      \* the topologies the file may hold

VARIABLES
    file,           \* the topology the file holds
    verdict         \* None until it is validated, then "loaded" or "refused"

vars == <<file, verdict>>

\* Names are sequences of labels, lists of intents are sequences, and None is
\* no zone, endpoint or destination.
WellFormed(t) ==
    /\ \A s \in DOMAIN t.sites :
         /\ t.sites[s].hostname \in Seq(DOMAIN Lower)
         /\ \A r \in ToSet(t.sites[s].routes) : r.to \in Seq(ToSet(r.to))
    /\ \A d \in DOMAIN t.targets : t.targets[d].hostname \in Seq(DOMAIN Lower)
    /\ ToSet(Zones(t)) \subseteq Seq(DOMAIN Lower)
    /\ t.intents \in Seq(ToSet(t.intents))
    /\ \A i \in DOMAIN t.intents : t.intents[i].dependsOn \in Seq(ToSet(t.intents[i].dependsOn))
    /\ None \notin ToSet(Zones(t)) \cup DOMAIN t.endpoints \cup DOMAIN t.targets

ConstantsSound ==
    /\ Lower \in [DOMAIN Lower -> DOMAIN Lower]
    /\ \A l \in DOMAIN Lower : Lower[Lower[l]] = Lower[l]
    /\ \A t \in Files : WellFormed(t)
    /\ None # "loaded"

Accepted(t) ==
    /\ HostsSound(t) /\ LinksSound(t) /\ ManagementSound(t)
    /\ DomainsSound(t) /\ TargetsSound(t) /\ PublishedSitesSound(t) /\ OneWriterEach(t)
    /\ IngressSound(t) /\ IntentsSound(t) /\ LocalAccessSound(t) /\ SupplySound(t)
    /\ EndpointsSound(t) /\ SitesSound(t) /\ CatalogSound(t)

Init == file \in Files /\ verdict = None

Load ==
    /\ verdict = None
    /\ verdict' = IF Accepted(file) THEN "loaded" ELSE "refused"
    /\ UNCHANGED file

Next == Load
Spec == Init /\ [][Next]_vars

TypeOK == file \in Files /\ verdict \in {None, "loaded", "refused"}

Loaded == verdict = "loaded"

\* From every ingress host of a site, every endpoint a route proxies to
\* leads to one that host can dial over HTTP: it exists, listens beyond the
\* loopback or on that very host, and the one transport the proxy has fits
\* all of them.  Endpoints, sites and ingress groups are checked apart, and
\* the fallback a loopback endpoint names stands in host by host.
Dialable ==
    Loaded =>
      \A s \in DOMAIN file.sites : \A r \in ToSet(file.sites[s].routes) :
        \A h \in Ingress(file, file.sites[s]) :
          /\ \A i \in DOMAIN r.to :
               LET dialed == EndpointForIngress(file, r.to[i], h)
               IN /\ dialed # None
                  /\ IsHttp(file.endpoints[dialed].transport)
                  /\ file.endpoints[dialed].bind = "loopback" => file.endpoints[dialed].host = h
          /\ Cardinality({Effective(file, file.sites[s], r.to[i], h) : i \in DOMAIN r.to}) <= 1

\* A statically published name has one writer: it is owned by addresses or
\* by one CNAME that points elsewhere, and neither dynamic DNS, nor Pages,
\* nor a record of its zone writes it too.  Sites are told apart by the
\* exact spelling of their names, so the property is about topologies whose
\* sites differ in more than case.
SitesApart ==
    \A r, s \in DOMAIN file.sites :
      r # s => ~SameName(file.sites[r].hostname, file.sites[s].hostname)

OneWriter ==
    Loaded /\ SitesApart =>
      \A name \in Static(file) :
        LET addresses == {n \in AddressIntents(file) : SameName(n, name)}
            cnames == {c \in ServiceCnames(file) : SameName(c.name, name)}
        IN /\ (addresses # {}) # (cnames # {})
           /\ Cardinality(cnames) <= 1
           /\ \A c \in cnames : ~SameName(c.to, c.name)
           /\ \A n \in DynamicNames(file) \cup PagesNames(file) : ~SameName(n, name)
           /\ ~CompetingRecord(file, name)

\* The dependencies of service intents pass for acyclic exactly when the
\* intents can be started one after the other, each after what it depends
\* on, and an accepted topology can.
StartOrder ==
    LET n == Len(file.intents)
        edges == DependencyEdges(file.intents)
        orders == {f \in [1..n -> 1..n] : IsInjective(f)}
        ordered == \E at \in orders : \A e \in edges : at[e[1]] < at[e[2]]
    IN /\ (Processed(file.intents) = n) <=> ordered
       /\ Loaded => ordered
=============================================================================
