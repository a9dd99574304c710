-------------------------- MODULE TopologyInstance --------------------------
(***************************************************************************)
(* The topologies of the runs: two hosts on two links, an ingress group,   *)
(* a site or two.  Each family varies one part, sound and unsound, and     *)
(* leaves the others as they are in Base.                                  *)
(***************************************************************************)
EXTENDS Naturals, Sequences, TLC

CONSTANTS None, Malformed

Org == <<"org">>
Name(label) == Append(Org, label)
Labels == {"org", "home", "edge", "Edge", "blog"}
TopologyLower == [l \in Labels |-> IF l = "Edge" THEN "edge" ELSE l]

On(address, role) == [address |-> address, role |-> role, key |-> role = "server"]
Host(links) ==
    [links |-> links, peers |-> {}, aliases |-> {}, buildHost |-> None, hostKey |-> "key",
     management |-> [public |-> None, link |-> None]]
Endpoint(host, transport, bind, via) ==
    [host |-> host, port |-> 80, transport |-> transport, bind |-> bind, via |-> via,
     sni |-> None, tcpProbe |-> FALSE]
Route(to) == [paths |-> {}, queries |-> {}, to |-> to]
Site(name, access, dns, target) ==
    [hostname |-> name, ingress |-> "in", access |-> access, dns |-> dns, target |-> target,
     routes |-> <<Route(<<"web">>)>>]

None0 == [x \in {} |-> None]

Base ==
    [hosts |-> "gate" :> Host("wg" :> On("a1", "server") @@ "lan" :> On("b1", "peer"))
            @@ "box" :> Host("wg" :> On("a2", "peer") @@ "lan" :> On("b2", "peer")),
     links |-> "wg" :> [port |-> 1, subnet |-> {"a1", "a2"}]
            @@ "lan" :> [port |-> None, subnet |-> {"b1", "b2"}],
     intents |-> <<>>,
     endpoints |-> "web" :> Endpoint("gate", "http", "loopback", None),
     ingress |-> "in" :> [scope |-> "public", hosts |-> {"gate"}],
     sites |-> "s1" :> Site(Name("edge"), "direct", "managed", None),
     catalog |-> None0,
     targets |-> None0,
     zones |-> <<Org>>, managedZones |-> <<>>,
     dynamicHosts |-> {}, records |-> {}, pages |-> {},
     localAccess |-> None0, pools |-> None0, budgets |-> None0]

\* The second host's side of the first link, and the way to it.
Linked ==
    {[Base EXCEPT !.hosts["box"].links["wg"] = [address |-> a, role |-> r, key |-> k],
                  !.links["wg"].port = p] :
        a \in {"a1", "a2", Malformed}, r \in {"peer", "server"}, k \in BOOLEAN, p \in {0, 1}}
    \cup
    {[Base EXCEPT !.hosts["box"].management = [public |-> p, link |-> l],
                  !.hosts["box"].hostKey = k, !.hosts["box"].buildHost = b] :
        p \in {None, "c1"}, l \in {None, "wg", "vpn"}, k \in {None, "key"}, b \in {None, "hub"}}

\* Three intents, the dependencies of each taken from a few lists.
Intent(name, deps) == [name |-> name, service |-> None, hosts |-> {"box"}, dependsOn |-> deps]
Ordered ==
    {[Base EXCEPT !.intents = <<Intent("x", dx), Intent("y", dy), Intent(z, dz)>>] :
        dx \in {<<>>, <<"y">>, <<"x">>, <<"w">>, <<"y", "z">>, <<"z", "z">>},
        dy \in {<<>>, <<"z">>, <<"x", "x">>, <<"x", "z">>},
        dz \in {<<>>, <<"x">>, <<"y", "y">>, <<"x", "y">>},
        z \in {"z", "y"}}

\* A site's one route, with a relay for what listens on the loopback.
Routed ==
    {[Base EXCEPT
        !.endpoints = "web" :> Endpoint("gate", wt, wb, wv)
                   @@ "alt" :> Endpoint("box", "http", ab, av)
                   @@ "relay" :> Endpoint("box", rt, rb, None),
        !.ingress["in"].hosts = hosts,
        !.sites["s1"].routes = <<Route(to)>>] :
        wt \in {"http", "https"}, wb \in {"loopback", "lan"}, wv \in {None, "relay", "alt"},
        ab \in {"loopback", "lan"}, av \in {None, "relay"},
        rt \in {"http", "tcp"}, rb \in {"loopback", "lan"},
        hosts \in {{"gate"}, {"gate", "box"}},
        to \in {<<"web">>, <<"web", "alt">>, <<"alt", "alt">>}}

\* Two sites and a destination, and the other writers of names.
Named ==
    {[Base EXCEPT
        !.targets = "d" :> [hostname |-> Name("home"), host |-> h],
        !.sites = "s1" :> Site(n1, a1, "managed", t1)
               @@ "s2" :> Site(n2, "direct", d2, t2),
        !.dynamicHosts = dynamic, !.records = records, !.pages = pages] :
        h \in {"gate", "box"},
        n1 \in {Org, Name("home"), Name("edge"), Name("Edge")}, a1 \in {"direct", "vpn"},
        n2 \in {Name("edge"), Name("blog")}, d2 \in {"managed", "external"},
        t1 \in {None, "d"}, t2 \in {None, "d"},
        dynamic \in {{}, {Name("edge")}},
        records \in {{}, {[zone |-> Org, owner |-> Name("edge"), type |-> "A"]}},
        pages \in {{}, {"blog"}, {"Edge"}}}
    \cup {[Base EXCEPT !.managedZones = <<Org>>]}

\* Checks of a service.
Check(visibility, probe) ==
    [visibility |-> visibility, timeout |-> 1, interval |-> 2, probe |-> probe]
Probe(kind, site, endpoint, host) ==
    [kind |-> kind, site |-> site, endpoint |-> endpoint, host |-> host]
Probed ==
    {[Base EXCEPT
        !.sites["s1"].access = access, !.sites["s1"].dns = "external",
        !.ingress["in"].scope = scope,
        !.catalog = "svc" :> [visibility |-> v, lifecycle |-> "active", excluded |-> FALSE,
                              sites |-> {"s1"}, endpoints |-> {"web"},
                              checks |-> {Check(c, p)}]] :
        access \in {"direct", "vpn"}, scope \in {"public", "vpn"},
        v \in {"public", "internal"}, c \in {None, "public", "internal"},
        p \in {Probe("http", "s1", None, None), Probe("http", None, "web", None),
               Probe("http", "s1", "web", None), Probe("tcp", None, "web", None),
               Probe("unit", None, None, "box"), Probe("unit", None, None, "hub")}}

\* Two policies of local access, and two pools.
Policy(target, clients, destination) ==
    [clients |-> clients, target |-> target, preferred |-> "lan", fallback |-> "wg",
     destination |-> destination, ports |-> <<<<"tcp", 80>>>>]
Shared ==
    {[Base EXCEPT
        !.localAccess = "p" :> Policy("gate", <<"box">>, None) @@ "q" :> Policy(target, clients, d),
        !.pools = "fast" :> [host |-> "gate", labels |-> {"big"}, metered |-> TRUE]
               @@ "slow" :> [host |-> host, labels |-> {"big"}, metered |-> FALSE],
        !.budgets = "month" :> pools] :
        target \in {"gate", "hub"}, clients \in {<<"box">>, <<"box", "box">>, <<"gate">>},
        d \in {None, "a1", "a2", Malformed}, host \in {"gate", "box"},
        pools \in {{}, {"fast"}, {"quick"}}}

TopologyFiles == {Base} \cup Linked \cup Ordered \cup Routed \cup Named \cup Probed \cup Shared
=============================================================================
