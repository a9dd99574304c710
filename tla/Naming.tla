------------------------------- MODULE Naming -------------------------------
(***************************************************************************)
(* Names in DNS: zones, static publication, and who writes which record    *)
(* (src/src/accessors.rs, src/src/publication.rs,                          *)
(* src/src/validate/publication.rs, and the domains part of                *)
(* src/src/validate.rs).                                                   *)
(*                                                                         *)
(* A name is the sequence of its labels from the root, so that a zone is a *)
(* prefix of what is in it.  Labels that differ in case only are different *)
(* and have the same Lower.  Left out: whether a name or an address is     *)
(* well formed, the zone a dynamic host may name, TTLs, and redirects.     *)
(***************************************************************************)
EXTENDS Placement

CONSTANT Lower      \* the label in lower case, for every label

LowerName(name) == [i \in DOMAIN name |-> Lower[name[i]]]
SameName(a, b) == LowerName(a) = LowerName(b)

HostInZone(fqdn, zone) == IsPrefix(zone, fqdn)

Zones(t) == IF t.managedZones = <<>> THEN t.zones ELSE t.managedZones

\* The longest zone the name is in.
ZoneForHost(t, fqdn) ==
    LET in == {z \in ToSet(Zones(t)) : HostInZone(fqdn, z)}
    IN IF in = {} THEN None ELSE CHOOSE z \in in : \A y \in in : Len(y) <= Len(z)

-----------------------------------------------------------------------------
(* What is derived for the writers of DNS.                                 *)

\* publication_address_intents: destinations, and apexes published directly.
AddressIntents(t) ==
    LET apexes == {s \in DOMAIN t.sites :
                     /\ t.sites[s].dns = "managed" /\ t.sites[s].access = "direct"
                     /\ ZoneForHost(t, t.sites[s].hostname) = t.sites[s].hostname
                     /\ t.sites[s].target \in DOMAIN t.targets}
    IN {n \in {t.targets[d].hostname : d \in DOMAIN t.targets}
              \cup {t.sites[s].hostname : s \in apexes} : ZoneForHost(t, n) # None}

\* service_cname_intents, keyed by site: the name and what it points to.
\* A destination's name and an apex are written as addresses.
ServiceCnames(t) ==
    LET zone(s) == ZoneForHost(t, t.sites[s].hostname)
        to(s) == IF t.sites[s].target = None THEN zone(s)
                 ELSE t.targets[t.sites[s].target].hostname
        written(s) ==
            /\ t.sites[s].dns = "managed"
            /\ t.sites[s].access \notin {"vpn", "lan"}
            /\ zone(s) # None
            /\ t.sites[s].target \in DOMAIN t.targets \cup {None}
            /\ t.sites[s].target # None =>
                 ~SameName(t.sites[s].hostname, zone(s)) /\ ~SameName(t.sites[s].hostname, to(s))
    IN {[by |-> s, name |-> t.sites[s].hostname, to |-> to(s)] :
          s \in {x \in DOMAIN t.sites : written(x)}}

\* pages_cname_intents in the default zone.
PagesNames(t) ==
    IF t.zones = <<>> THEN {}
    ELSE {n \in {Append(t.zones[1], p) : p \in t.pages} : ZoneForHost(t, n) # None}

\* The names dynamic DNS owns, in whatever zone.
DynamicNames(t) == {n \in t.dynamicHosts : ZoneForHost(t, n) # None}

-----------------------------------------------------------------------------
(* What validation asks.                                                   *)

\* No zone is listed twice over both lists, so an accepted topology with
\* managed zones has none: a managed zone must be a zone as well.
DomainsSound(t) ==
    /\ Distinct(t.zones \o t.managedZones)
    /\ ToSet(t.managedZones) \subseteq ToSet(t.zones)

Static(t) ==
    {LowerName(t.targets[d].hostname) : d \in DOMAIN t.targets}
    \cup {LowerName(t.sites[s].hostname) : s \in {x \in DOMAIN t.sites : t.sites[x].target # None}}

\* A record is the zone of its file, its owner as a name, and its type.
CompetingRecord(t, name) ==
    \E r \in t.records :
      /\ ZoneForHost(t, name) = r.zone
      /\ SameName(r.owner, name)
      /\ r.type \in {"A", "AAAA", "CNAME"}

CompetingPages(t, name) ==
    t.zones # <<>> /\ \E p \in t.pages : SameName(Append(t.zones[1], p), name)

\* (mutant) Pages are forgotten.
WritersWithoutPages(t) ==
    \A name \in Static(t) :
      /\ \A n \in t.dynamicHosts : ~SameName(n, name)
      /\ ~CompetingRecord(t, name)
OneWriterEach(t) ==
    \A name \in Static(t) :
      /\ \A n \in t.dynamicHosts : ~SameName(n, name)
      /\ ~CompetingRecord(t, name)
      /\ ~CompetingPages(t, name)

TargetsSound(t) ==
    \A d \in DOMAIN t.targets :
      LET target == t.targets[d]
      IN /\ ZoneForHost(t, target.hostname) # None
         /\ target.host \in DOMAIN t.hosts
         /\ \A c \in DOMAIN t.targets \ {d} : ~SameName(t.targets[c].hostname, target.hostname)

\* A managed site under a destination's name must publish to it; a site
\* with a destination is public, managed and served where it points.
PublishedSitesSound(t) ==
    \A s \in DOMAIN t.sites :
      LET site == t.sites[s]
      IN /\ site.dns = "managed" =>
              \A d \in DOMAIN t.targets :
                 SameName(t.targets[d].hostname, site.hostname) => site.target = d
         /\ site.target # None =>
              /\ site.target \in DOMAIN t.targets
              /\ site.access = "direct" /\ site.dns = "managed"
              /\ site.ingress \in DOMAIN t.ingress
              /\ t.targets[site.target].host \in t.ingress[site.ingress].hosts
=============================================================================
