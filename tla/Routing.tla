------------------------------ MODULE Routing ------------------------------
(***************************************************************************)
(* Endpoints, HTTP sites with their routes, and the service catalog: what  *)
(* validation asks of them (src/src/validate.rs,                           *)
(* src/src/validate/service_profiles.rs), and which endpoint an ingress    *)
(* host dials (src/src/accessors.rs).                                      *)
(*                                                                         *)
(* Left out: checks of a single text (absolute paths, header names, status *)
(* ranges, labels, unit names) and the actions of a route other than to    *)
(* proxy, which concern no other part.                                     *)
(***************************************************************************)
EXTENDS Naming

-----------------------------------------------------------------------------
(* Endpoints.                                                              *)

IsHttp(transport) == transport \in {"http", "https", "h2c"}

\* (mutant) Anything may stand in for an endpoint.
EndpointsLoose(t) ==
    \A e \in DOMAIN t.endpoints :
      LET point == t.endpoints[e]
      IN /\ point.host \in DOMAIN t.hosts
         /\ point.via \in DOMAIN t.endpoints \cup {None}

EndpointsSound(t) ==
    \A e \in DOMAIN t.endpoints :
      LET point == t.endpoints[e]
      IN /\ point.host \in DOMAIN t.hosts
         /\ point.port # 0
         /\ point.sni # None => point.transport = "https"
         /\ point.via # None =>
              /\ point.via \in DOMAIN t.endpoints \ {e}
              /\ t.endpoints[point.via].bind = "lan"
              /\ IsHttp(t.endpoints[point.via].transport)

\* The name of the endpoint an ingress host dials, or None.
EndpointForIngress(t, e, host) ==
    IF e \notin DOMAIN t.endpoints THEN None
    ELSE IF t.endpoints[e].bind = "loopback" /\ t.endpoints[e].host # host
         THEN IF t.endpoints[e].via \in DOMAIN t.endpoints THEN t.endpoints[e].via ELSE None
         ELSE e

-----------------------------------------------------------------------------
(* Sites and routes.                                                       *)

Ingress(t, site) == IF site.ingress \in DOMAIN t.ingress THEN t.ingress[site.ingress].hosts ELSE {}

IngressSound(t) ==
    \A g \in DOMAIN t.ingress : t.ingress[g].hosts # {} /\ t.ingress[g].hosts \subseteq DOMAIN t.hosts

ProxySound(t, site, e) ==
    /\ e \in DOMAIN t.endpoints
    /\ IsHttp(t.endpoints[e].transport)
    /\ t.endpoints[e].bind = "loopback" /\ t.endpoints[e].via = None =>
         Ingress(t, site) \subseteq {t.endpoints[e].host}

\* What the one transport of a proxy needs: protocol and TLS server name,
\* nothing where no endpoint can be dialed.
Effective(t, site, e, host) ==
    LET dialed == EndpointForIngress(t, e, host)
        point == t.endpoints[dialed]
        sni == IF point.transport # "https" THEN None
               ELSE IF point.sni # None THEN point.sni ELSE site.hostname
    IN IF dialed = None THEN <<>> ELSE <<point.transport, sni>>

\* A route proxies to `to`, a sequence of endpoints tried in turn; one with
\* another action has none.
RouteSound(t, site, route) ==
    /\ Distinct(route.to)
    /\ \A i \in DOMAIN route.to : ProxySound(t, site, route.to[i])
    /\ \A i \in DOMAIN route.to, h \in Ingress(t, site) :
         LET first == Effective(t, site, route.to[1], h)
             here == Effective(t, site, route.to[i], h)
         IN first # <<>> /\ here # <<>> => first = here

\* Matchers are sets of paths and absent query parameters; the one that
\* matches everything stands last and once.
RoutesSound(t, site) ==
    LET fallbacks == {i \in DOMAIN site.routes :
                        site.routes[i].paths = {} /\ site.routes[i].queries = {}}
    IN /\ fallbacks = {Len(site.routes)}
       /\ \A i, j \in DOMAIN site.routes :
            i # j => <<site.routes[i].paths, site.routes[i].queries>>
                       # <<site.routes[j].paths, site.routes[j].queries>>
       /\ \A i \in DOMAIN site.routes : RouteSound(t, site, site.routes[i])

ScopeOf(access) ==
    CASE access = "vpn" -> "vpn"
      [] access = "lan" -> "lan"
      [] access \in {"cloudflare", "direct"} -> "public"

SitesSound(t) ==
    \A s \in DOMAIN t.sites :
      LET site == t.sites[s]
      IN /\ \A r \in DOMAIN t.sites \ {s} : t.sites[r].hostname # site.hostname
         /\ site.ingress \in DOMAIN t.ingress
         /\ t.ingress[site.ingress].scope = ScopeOf(site.access)
         /\ site.dns = "managed" =>
              site.access \notin {"vpn", "lan"} /\ ZoneForHost(t, site.hostname) # None
         /\ RoutesSound(t, site)

-----------------------------------------------------------------------------
(* The service catalog.                                                    *)

Visible(profile, check) ==
    IF check.visibility = None THEN profile.visibility ELSE check.visibility

PublicSite(t, s) ==
    /\ t.sites[s].access \notin {"vpn", "lan"}
    /\ t.sites[s].ingress \in DOMAIN t.ingress
    /\ t.ingress[t.sites[s].ingress].scope = "public"

\* A check probes a site or an endpoint; the probes of units, jobs, names
\* and contracts name a host.
ProbeSound(t, profile, check) ==
    LET p == check.probe
        public == Visible(profile, check) = "public"
    IN CASE p.kind = "http" ->
              /\ (p.site # None) # (p.endpoint # None)
              /\ p.site # None =>
                   /\ p.site \in DOMAIN t.sites /\ p.site \in profile.sites
                   /\ public => PublicSite(t, p.site)
              /\ p.endpoint # None =>
                   /\ ~public
                   /\ p.endpoint \in DOMAIN t.endpoints /\ p.endpoint \in profile.endpoints
                   /\ IsHttp(t.endpoints[p.endpoint].transport)
         [] p.kind = "tcp" ->
              /\ ~public
              /\ p.endpoint \in DOMAIN t.endpoints /\ p.endpoint \in profile.endpoints
              /\ t.endpoints[p.endpoint].tcpProbe
         [] OTHER -> ~public /\ p.host \in DOMAIN t.hosts

CatalogSound(t) ==
    \A n \in DOMAIN t.catalog :
      LET profile == t.catalog[n]
      IN /\ profile.checks = {} => profile.excluded
         /\ profile.lifecycle # "active" => profile.excluded
         /\ profile.sites \subseteq DOMAIN t.sites
         /\ profile.endpoints \subseteq DOMAIN t.endpoints
         /\ \A check \in profile.checks :
              /\ ~(profile.visibility = "internal" /\ check.visibility = "public")
              /\ 0 < check.timeout /\ check.timeout <= check.interval
              /\ ProbeSound(t, profile, check)
=============================================================================
