----------------------------- MODULE ToolsProofs ----------------------------
(***************************************************************************)
(* The composition of MCTools keeps the properties of its components, for  *)
(* any hosts, files, keys, programs and topologies.                        *)
(*                                                                         *)
(* A step of the composition is a step of one component and leaves the     *)
(* others as they are, so a component's theorem is one of the composition  *)
(* (the last section).  McpProofs, SidecarProofs and TrustProofs prove     *)
(* theirs in modules of their own; the others are proved here:             *)
(*                                                                         *)
(* Preparation.  What a caller is told comes from its own work or from the *)
(* receipt.  The receipt names only what a passed run made (Recorded), and *)
(* as nobody else works while a caller has the lease, what exists then     *)
(* existed since it had it (Watched).  What a caller records is an         *)
(* artifact (Results).                                                     *)
(*                                                                         *)
(* Topology.  What is loaded was accepted (LoadInv); the rest is what      *)
(* validation's conditions imply of what the accessors derive.             *)
(*                                                                         *)
(* Supply.  The graph is sound, and it is what the set of its documents'   *)
(* statements amounts to (Told), one more statement at each merge; so two  *)
(* lists of the same documents make graphs that differ only in what is in  *)
(* conflict, and report the same (DocumentsDecide).  A walk has found each *)
(* node once, at its distance, nearer ones first, and of those it has      *)
(* listed also the neighbours (WalkInv); so when its queue is empty, which *)
(* it is after no more turns than nodes, it has found all there is.        *)
(***************************************************************************)
EXTENDS MCTools, RolloverProofs, FiniteSetTheorems, WellFoundedInduction, TLAPS

-----------------------------------------------------------------------------
(* Preparation.                                                            *)

\* What the receipt names, a passed run made.
Recorded == receipt \in Artifacts => receipt \in passed
\* What exists while a caller has the lease existed since it had it.
Watched == \A c \in Callers : holder = c => valid \subseteq trusted[c]

\* What is about to be recorded are artifacts.
Results == \A c \in Callers : caller[c].at = "Recording" => caller[c].value \in Artifacts

\* The inductive invariant of Preparation.
TaskInv == PR!TypeOK /\ PR!PassedIsProved /\ Recorded /\ Watched /\ Results

\* Nobody has come and nothing is recorded.
LEMMA InitTaskInv == PR!ConstantsSound /\ PR!Init => TaskInv
  BY DEF PR!ConstantsSound, PR!Init, TaskInv, PR!TypeOK, PR!PassedIsProved, Recorded, Watched, Results,
         PR!Away, PR!Outcome, PR!Broken

\* What a caller does alone: it comes, gives up, takes the lease.
LEMMA ArrivalSteps ==
    ASSUME PR!ConstantsSound, TaskInv, NEW c \in Callers, PR!Arrive(c) \/ PR!GiveUp(c) \/ PR!Acquire(c)
    PROVE  TaskInv'
<1> USE DEF PR!ConstantsSound, TaskInv, PR!TypeOK, PR!PassedIsProved, Recorded, Watched, Results, PR!Goto, PR!Outcome, PR!Broken
<1>1. CASE PR!Arrive(c)
  BY <1>1 DEF PR!Arrive
<1>2. CASE PR!GiveUp(c)
  BY <1>2 DEF PR!GiveUp
<1>3. CASE PR!Acquire(c)
  BY <1>3 DEF PR!Acquire
<1> QED
  BY <1>1, <1>2, <1>3

\* Under the lease: the receipt is used, refused, or replaced by work.
LEMMA LeaseSteps ==
    ASSUME PR!ConstantsSound, TaskInv, NEW c \in Callers,
           PR!Reuse(c) \/ PR!RefuseReceipt(c) \/ PR!StartWork(c)
    PROVE  TaskInv'
<1> USE DEF PR!ConstantsSound, TaskInv, PR!TypeOK, PR!PassedIsProved, Recorded, Watched, Results, PR!Goto, PR!Return, PR!Outcome, PR!Broken
<1>1. CASE PR!Reuse(c)
  BY <1>1 DEF PR!Reuse, PR!Reusable
<1>2. CASE PR!RefuseReceipt(c)
  BY <1>2 DEF PR!RefuseReceipt
<1>3. CASE PR!StartWork(c)
  BY <1>3 DEF PR!StartWork
<1> QED
  BY <1>1, <1>2, <1>3

\* Work and its record.
LEMMA WorkSteps ==
    ASSUME PR!ConstantsSound, TaskInv, NEW c \in Callers,
           \/ \E x \in Artifacts : PR!WorkPasses(c, x)
           \/ \E value \in {"Skipped", "Error"} : PR!WorkEnds(c, value)
           \/ PR!Record(c)
           \/ \E written \in BOOLEAN : PR!RecordFails(c, written)
    PROVE  TaskInv'
<1> USE DEF PR!ConstantsSound, TaskInv, PR!TypeOK, PR!PassedIsProved, Recorded, Watched, Results, PR!Goto, PR!Return, PR!Outcome, PR!Broken
<1>1. ASSUME NEW x \in Artifacts, PR!WorkPasses(c, x) PROVE TaskInv'
  BY <1>1 DEF PR!WorkPasses
<1>2. ASSUME NEW value \in {"Skipped", "Error"}, PR!WorkEnds(c, value) PROVE TaskInv'
  BY <1>2 DEF PR!WorkEnds
<1>3. CASE PR!Record(c)
  BY <1>3 DEF PR!Record
<1>4. ASSUME NEW written \in BOOLEAN, PR!RecordFails(c, written) PROVE TaskInv'
  BY <1>4 DEF PR!RecordFails
<1> QED
  BY <1>1, <1>2, <1>3, <1>4

\* The caller dies; artifacts are collected; somebody else writes a receipt.
LEMMA OutsideSteps ==
    ASSUME PR!ConstantsSound, TaskInv,
           \/ \E c \in Callers : PR!Die(c)
           \/ \E x \in Artifacts : PR!Collect(x)
           \/ \E x \in PR!Broken \cup {None} : PR!Meddle(x)
           \/ UNCHANGED PR!vars
    PROVE  TaskInv'
<1> USE DEF PR!ConstantsSound, TaskInv, PR!TypeOK, PR!PassedIsProved, Recorded, Watched, Results, PR!Outcome, PR!Broken
<1>1. ASSUME NEW c \in Callers, PR!Die(c) PROVE TaskInv'
  BY <1>1 DEF PR!Die, PR!Away
<1>2. ASSUME NEW x \in Artifacts, PR!Collect(x) PROVE TaskInv'
  BY <1>2 DEF PR!Collect
<1>3. ASSUME NEW x \in PR!Broken \cup {None}, PR!Meddle(x) PROVE TaskInv'
  BY <1>3 DEF PR!Meddle
<1>4. CASE UNCHANGED PR!vars
  BY <1>4 DEF PR!vars
<1> QED
  BY <1>1, <1>2, <1>3, <1>4

\* Every step of Preparation keeps the invariant.
LEMMA NextTaskInv == PR!ConstantsSound /\ TaskInv /\ [PR!Next]_PR!vars => TaskInv'
  BY ArrivalSteps, LeaseSteps, WorkSteps, OutsideSteps DEF PR!Next

\* The invariant of Preparation holds.
LEMMA TaskInvariant == ASSUME PR!ConstantsSound PROVE PR!Spec => []TaskInv
<1>1. PR!Init => TaskInv
  BY InitTaskInv
<1>2. TaskInv /\ [PR!Next]_PR!vars => TaskInv'
  BY NextTaskInv
<1> QED
  BY <1>1, <1>2, PTL DEF PR!Spec

\* However callers, collectors and foreign receipts interleave, one caller is
\* past the lease, and one that is told of a pass is told of artifacts of a
\* passed run that existed since it had the lease (preparation.rs, run).
THEOREM PassesAreProved == ASSUME PR!ConstantsSound PROVE PR!Spec => []PR!PassedIsProved
<1>1. TaskInv => PR!PassedIsProved
  BY DEF TaskInv
<1> QED
  BY <1>1, TaskInvariant, PTL

-----------------------------------------------------------------------------
(* Numbers and counting.                                                   *)

Less == OpToRel(<, Nat)

\* The order of the naturals is well-founded...
LEMMA LessWellFounded == IsWellFoundedOn(Less, Nat)
  BY NatLessThanWellFounded, Zenon DEF Less

\* ...and is the order of the naturals.
LEMMA LessIsLess == \A m, n \in Nat : n < m => <<n, m>> \in Less
  BY DEF Less, OpToRel

\* A set of naturals has a least member.
LEMMA LeastOf ==
    ASSUME NEW S \in SUBSET Nat, S # {}
    PROVE  \E m \in S : \A n \in S : m <= n
<1>1. PICK m \in S : \A n \in S : ~(<<n, m>> \in Less)
  BY LessWellFounded, WFMin
<1>2. \A n \in S : ~(n < m)
  <2>1. m \in Nat /\ \A n \in S : n \in Nat
    OBVIOUS
  <2> HIDE DEF Less
  <2> QED
    BY <1>1, <2>1, LessIsLess, Zenon
<1> QED
  BY <1>2

\* The instance counts as the module does.
LEMMA SameCount == \A S : TO!Cardinality(S) = Cardinality(S)
  BY DEF TO!Cardinality, Cardinality

\* A set whose members are equal has at most one.
LEMMA AtMostOne ==
    ASSUME NEW S, \A x, y \in S : x = y
    PROVE  Cardinality(S) <= 1
<1>1. CASE S = {}
  BY <1>1, FS_EmptySet
<1>2. CASE S # {}
  <2>1. PICK x \in S : TRUE
    BY <1>2
  <2>2. S = {x}
    BY <2>1
  <2> QED
    BY <2>2, FS_Singleton
<1> QED
  BY <1>1, <1>2

\* What holds at 0 and is handed on holds of all naturals.
LEMMA Upwards ==
    ASSUME NEW S \in SUBSET Nat, 0 \in S, \A m \in S : m + 1 \in S
    PROVE  S = Nat
<1>1. SUFFICES ASSUME Nat \ S # {} PROVE FALSE
  OBVIOUS
<1>2. PICK m \in Nat \ S : \A k \in Nat \ S : m <= k
  BY <1>1, LeastOf
<1>3. m # 0 /\ m - 1 \in Nat /\ (m - 1) + 1 = m
  BY <1>2
<1>4. m - 1 \in S
  BY <1>2, <1>3
<1> QED
  BY <1>2, <1>3, <1>4

-----------------------------------------------------------------------------
(* Topology.                                                               *)

\* The inductive invariant of Topology: what is loaded is accepted.
LoadInv == file \in Files /\ (TO!Loaded => TO!Accepted(file))

\* Validation comes before everything that derives from a file.
LEMMA LoadInvariant == ASSUME TO!ConstantsSound PROVE TO!Spec => []LoadInv
<1>1. TO!Init => LoadInv
  BY DEF TO!Init, LoadInv, TO!Loaded, TO!ConstantsSound
<1>2. LoadInv /\ [TO!Next]_TO!vars => LoadInv'
  BY DEF TO!Next, TO!Load, TO!vars, LoadInv, TO!Loaded
<1> QED
  BY <1>1, <1>2, PTL DEF TO!Spec

\* The endpoint that stands in for a sound one on an ingress host can be
\* dialed there over HTTP.
LEMMA DialedEndpoint ==
    ASSUME NEW t, NEW site, NEW e, NEW h \in TO!Ingress(t, site),
           None \notin DOMAIN t.endpoints, TO!EndpointsSound(t), TO!ProxySound(t, site, e)
    PROVE  LET dialed == TO!EndpointForIngress(t, e, h)
           IN /\ dialed # None
              /\ TO!IsHttp(t.endpoints[dialed].transport)
              /\ t.endpoints[dialed].bind = "loopback" => t.endpoints[dialed].host = h
<1>1. CASE t.endpoints[e].bind = "loopback" /\ t.endpoints[e].host # h
  BY <1>1 DEF TO!ProxySound, TO!EndpointsSound, TO!EndpointForIngress
<1>2. CASE ~(t.endpoints[e].bind = "loopback" /\ t.endpoints[e].host # h)
  BY <1>2 DEF TO!ProxySound, TO!EndpointForIngress
<1> QED
  BY <1>1, <1>2

\* Whatever is loaded, the routes of its sites can be dialed, each with one
\* transport.
LEMMA LoadedDials ==
    ASSUME TO!ConstantsSound, LoadInv
    PROVE  TO!Dialable
<1> SUFFICES ASSUME TO!Loaded, NEW s \in DOMAIN file.sites, NEW r \in TO!ToSet(file.sites[s].routes),
                    NEW h \in TO!Ingress(file, file.sites[s])
             PROVE  /\ \A i \in DOMAIN r.to :
                         LET dialed == TO!EndpointForIngress(file, r.to[i], h)
                         IN /\ dialed # None
                            /\ TO!IsHttp(file.endpoints[dialed].transport)
                            /\ file.endpoints[dialed].bind = "loopback" => file.endpoints[dialed].host = h
                    /\ Cardinality({TO!Effective(file, file.sites[s], r.to[i], h) : i \in DOMAIN r.to}) <= 1
  BY SameCount DEF TO!Dialable
<1> DEFINE site == file.sites[s]
<1>1. /\ None \notin DOMAIN file.endpoints
      /\ r.to \in Seq(TO!ToSet(r.to))
  BY DEF TO!ConstantsSound, LoadInv, TO!WellFormed
<1>2. TO!EndpointsSound(file) /\ TO!RoutesSound(file, site)
  BY DEF LoadInv, TO!Accepted, TO!SitesSound
<1>3. TO!RouteSound(file, site, r)
  BY <1>2 DEF TO!RoutesSound, TO!ToSet
<1>4. ASSUME NEW i \in DOMAIN r.to
      PROVE  LET dialed == TO!EndpointForIngress(file, r.to[i], h)
             IN /\ dialed # None
                /\ TO!IsHttp(file.endpoints[dialed].transport)
                /\ file.endpoints[dialed].bind = "loopback" => file.endpoints[dialed].host = h
  <2>1. TO!ProxySound(file, site, r.to[i])
    BY <1>3 DEF TO!RouteSound
  <2> HIDE DEF site
  <2>2. h \in TO!Ingress(file, site)
    BY DEF site
  <2> QED
    BY <1>1, <1>2, <2>1, <2>2, DialedEndpoint
<1>5. ASSUME NEW i \in DOMAIN r.to
      PROVE  TO!Effective(file, site, r.to[i], h) # <<>>
  <2>1. TO!EndpointForIngress(file, r.to[i], h) # None
    BY <1>4
  <2> QED
    BY <2>1 DEF TO!Effective
<1>6. ASSUME NEW i \in DOMAIN r.to
      PROVE  TO!Effective(file, site, r.to[i], h) = TO!Effective(file, site, r.to[1], h)
  <2>1. 1 \in DOMAIN r.to
    BY <1>1
  <2>2. /\ TO!Effective(file, site, r.to[i], h) # <<>>
        /\ TO!Effective(file, site, r.to[1], h) # <<>>
    BY <1>5, <2>1
  <2>3. h \in TO!Ingress(file, site)
    OBVIOUS
  <2> HIDE DEF site
  <2> QED
    BY <1>3, <2>2, <2>3, Zenon DEF TO!RouteSound
<1>7. Cardinality({TO!Effective(file, site, r.to[i], h) : i \in DOMAIN r.to}) <= 1
  <2> HIDE DEF site
  <2> QED
    BY <1>6, AtMostOne
<1> QED
  BY <1>4, <1>7

\* Names as the file may write them.
LabelNames == Seq(DOMAIN Lower)

\* A name in lower case stays as it is.
LEMMA LowerAgain ==
    ASSUME TO!ConstantsSound, NEW a \in LabelNames
    PROVE  TO!LowerName(TO!LowerName(a)) = TO!LowerName(a)
<1>1. \A i \in DOMAIN a : a[i] \in DOMAIN Lower
  BY DEF LabelNames
<1>2. \A i \in DOMAIN a : Lower[Lower[a[i]]] = Lower[a[i]]
  BY <1>1 DEF TO!ConstantsSound
<1> QED
  BY <1>2, Zenon DEF TO!LowerName

\* The zone of a name is a prefix of it.
LEMMA ZoneIsPrefix ==
    ASSUME NEW t, TO!ToSet(TO!Zones(t)) \subseteq LabelNames,
           NEW name \in LabelNames, TO!ZoneForHost(t, name) # None
    PROVE  /\ TO!ZoneForHost(t, name) \in LabelNames
           /\ TO!HostInZone(name, TO!ZoneForHost(t, name))
<1> DEFINE in == {z \in TO!ToSet(TO!Zones(t)) : TO!HostInZone(name, z)}
           left == {Len(name) - Len(z) : z \in in}
<1>1. in # {} /\ TO!ZoneForHost(t, name) = CHOOSE z \in in : \A y \in in : Len(y) <= Len(z)
  BY DEF TO!ZoneForHost
<1>2. /\ in \subseteq LabelNames
      /\ \A z \in in : TO!HostInZone(name, z)
  OBVIOUS
<1>3. \A z \in in : Len(z) \in Nat /\ Len(z) <= Len(name) /\ Len(name) \in Nat
  BY <1>2 DEF TO!HostInZone, TO!IsPrefix, LabelNames
<1> HIDE DEF in
<1>4. left \subseteq Nat /\ left # {}
  BY <1>1, <1>3
<1>5. PICK m \in left : \A n \in left : m <= n
  BY <1>4, LeastOf
<1>6. PICK z \in in : m = Len(name) - Len(z)
  BY <1>5
<1>7. \A y \in in : Len(y) <= Len(z)
  <2> SUFFICES ASSUME NEW y \in in PROVE Len(y) <= Len(z)
    OBVIOUS
  <2>1. m <= Len(name) - Len(y)
    BY <1>5
  <2> QED
    BY <2>1, <1>3, <1>6
<1>8. TO!ZoneForHost(t, name) \in in
  BY <1>1, <1>7
<1> QED
  BY <1>2, <1>8

\* A name that is its zone's in other case is its zone.
LEMMA ApexIsZone ==
    ASSUME NEW name \in LabelNames, NEW zone \in LabelNames,
           TO!HostInZone(name, zone), TO!SameName(name, zone)
    PROVE  zone = name
<1>1. DOMAIN name = DOMAIN zone
  <2>1. DOMAIN TO!LowerName(name) = DOMAIN name /\ DOMAIN TO!LowerName(zone) = DOMAIN zone
    BY DEF TO!LowerName
  <2> QED
    BY <2>1 DEF TO!SameName
<1>2. Len(name) = Len(zone) /\ Len(name) \in Nat
  BY <1>1 DEF LabelNames
<1>3. \A i \in 1..Len(name) : zone[i] = name[i]
  BY <1>2 DEF TO!HostInZone, TO!IsPrefix, LabelNames
<1> QED
  BY <1>1, <1>2, <1>3 DEF LabelNames

\* What writes a name: as addresses, and as a CNAME.
Addresses(t, name) == {n \in TO!AddressIntents(t) : TO!SameName(n, name)}
Cnames(t, name) == {c \in TO!ServiceCnames(t) : TO!SameName(c.name, name)}
\* No two sites have one name.
Apart(t) ==
    \A r, s \in DOMAIN t.sites :
      r # s => ~TO!SameName(t.sites[r].hostname, t.sites[s].hostname)

\* A destination's name is written as addresses alone.
LEMMA DestinationWriters ==
    ASSUME TO!ConstantsSound, NEW t, TO!WellFormed(t), TO!Accepted(t), NEW d \in DOMAIN t.targets,
           NEW name, TO!SameName(t.targets[d].hostname, name)
    PROVE  Addresses(t, name) # {} /\ Cnames(t, name) = {}
<1>1. t.targets[d].hostname \in Addresses(t, name)
  <2>1. TO!ZoneForHost(t, t.targets[d].hostname) # None
    BY DEF TO!Accepted, TO!TargetsSound
  <2> QED
    BY <2>1 DEF Addresses, TO!AddressIntents
<1>2. ASSUME NEW c \in Cnames(t, name) PROVE FALSE
  <2>1. PICK s \in DOMAIN t.sites :
           /\ c.name = t.sites[s].hostname
           /\ t.sites[s].dns = "managed"
           /\ t.sites[s].target \in DOMAIN t.targets /\ t.sites[s].target # None =>
                ~TO!SameName(t.sites[s].hostname, t.targets[t.sites[s].target].hostname)
    BY <1>2 DEF Cnames, TO!ServiceCnames
  <2>2. TO!SameName(t.targets[d].hostname, t.sites[s].hostname)
    BY <2>1, <1>2 DEF Cnames, TO!SameName
  <2>3. t.sites[s].target = d
    BY <2>1, <2>2 DEF TO!Accepted, TO!PublishedSitesSound
  <2>4. d # None
    BY DEF TO!WellFormed
  <2> QED
    BY <2>1, <2>2, <2>3, <2>4 DEF TO!SameName
<1> QED
  BY <1>1, <1>2

\* The name of a site with a destination, where it is no destination's own.
LEMMA SiteWriters ==
    ASSUME TO!ConstantsSound, NEW t, TO!WellFormed(t), TO!Accepted(t), Apart(t),
           NEW s \in DOMAIN t.sites, t.sites[s].target # None,
           NEW name, TO!SameName(t.sites[s].hostname, name),
           \A d \in DOMAIN t.targets : ~TO!SameName(t.targets[d].hostname, name)
    PROVE  \/ Addresses(t, name) # {} /\ Cnames(t, name) = {}
           \/ /\ Addresses(t, name) = {} /\ Cnames(t, name) # {}
              /\ \A b, c \in Cnames(t, name) : b = c
              /\ \A c \in Cnames(t, name) : ~TO!SameName(c.to, c.name)
<1> DEFINE host == t.sites[s].hostname
           zone == TO!ZoneForHost(t, host)
           there == t.targets[t.sites[s].target].hostname
<1>1. /\ t.sites[s].target \in DOMAIN t.targets
      /\ t.sites[s].access = "direct"
      /\ t.sites[s].dns = "managed"
  BY DEF TO!Accepted, TO!PublishedSitesSound
<1>2. zone # None
  BY <1>1 DEF TO!Accepted, TO!SitesSound
<1>3. host \in LabelNames /\ TO!ToSet(TO!Zones(t)) \subseteq LabelNames
  BY DEF TO!WellFormed, LabelNames
<1>4. zone \in LabelNames /\ TO!HostInZone(host, zone)
  <2> HIDE DEF host
  <2> QED
    BY <1>2, <1>3, ZoneIsPrefix
<1>5. ~TO!SameName(host, there)
  BY <1>1 DEF TO!SameName
<1>6. \A r \in DOMAIN t.sites : TO!SameName(t.sites[r].hostname, name) => r = s
  BY DEF Apart, TO!SameName
<1>7. CASE TO!SameName(host, zone)
  <2>1. zone = host
    <3> HIDE DEF host, zone
    <3> QED
      BY <1>3, <1>4, <1>7, ApexIsZone
  <2>2. host \in Addresses(t, name)
    BY <1>1, <1>2, <2>1 DEF Addresses, TO!AddressIntents
  <2>3. ASSUME NEW c \in Cnames(t, name) PROVE FALSE
    <3>1. PICK r \in DOMAIN t.sites :
             /\ c.name = t.sites[r].hostname
             /\ t.sites[r].target # None =>
                  ~TO!SameName(t.sites[r].hostname, TO!ZoneForHost(t, t.sites[r].hostname))
      BY <2>3 DEF Cnames, TO!ServiceCnames
    <3>2. r = s
      BY <3>1, <2>3, <1>6 DEF Cnames
    <3> QED
      BY <3>1, <3>2, <1>7
  <2> QED
    BY <2>2, <2>3
<1>8. CASE ~TO!SameName(host, zone)
  <2> DEFINE cname == [by |-> s, name |-> host, to |-> there]
  <2>1. cname \in Cnames(t, name)
    BY <1>1, <1>2, <1>5, <1>8 DEF Cnames, TO!ServiceCnames
  <2>2. ASSUME NEW c \in Cnames(t, name) PROVE c = cname
    <3>1. PICK r \in DOMAIN t.sites :
             c = [by |-> r, name |-> t.sites[r].hostname,
                  to |-> IF t.sites[r].target = None
                         THEN TO!ZoneForHost(t, t.sites[r].hostname)
                         ELSE t.targets[t.sites[r].target].hostname]
      BY <2>2 DEF Cnames, TO!ServiceCnames
    <3>2. r = s
      BY <3>1, <2>2, <1>6 DEF Cnames
    <3> QED
      BY <3>1, <3>2
  <2>3. ASSUME NEW n \in Addresses(t, name) PROVE FALSE
    <3>1. CASE \E d \in DOMAIN t.targets : n = t.targets[d].hostname
      BY <2>3, <3>1 DEF Addresses
    <3>2. CASE \E r \in DOMAIN t.sites :
                 /\ n = t.sites[r].hostname
                 /\ TO!ZoneForHost(t, t.sites[r].hostname) = t.sites[r].hostname
      <4>1. zone = host
        BY <3>2, <2>3, <1>6 DEF Addresses
      <4> QED
        BY <4>1, <1>8 DEF TO!SameName
    <3> QED
      BY <3>1, <3>2, <2>3 DEF Addresses, TO!AddressIntents
  <2>4. cname.name = host /\ cname.to = there
    OBVIOUS
  <2>5. ~TO!SameName(cname.to, cname.name)
    BY <2>4, <1>5 DEF TO!SameName
  <2> HIDE DEF cname
  <2> QED
    BY <2>1, <2>2, <2>3, <2>5
<1> QED
  BY <1>7, <1>8

\* Whatever is loaded, one kind of record claims a name.
LEMMA LoadedNames ==
    ASSUME TO!ConstantsSound, LoadInv
    PROVE  TO!OneWriter
<1> SUFFICES ASSUME TO!Loaded, TO!SitesApart, NEW name \in TO!Static(file)
             PROVE  LET addresses == {n \in TO!AddressIntents(file) : TO!SameName(n, name)}
                        cnames == {c \in TO!ServiceCnames(file) : TO!SameName(c.name, name)}
                    IN /\ (addresses # {}) # (cnames # {})
                       /\ Cardinality(cnames) <= 1
                       /\ \A c \in cnames : ~TO!SameName(c.to, c.name)
                       /\ \A n \in TO!DynamicNames(file) \cup TO!PagesNames(file) : ~TO!SameName(n, name)
                       /\ ~TO!CompetingRecord(file, name)
  BY SameCount DEF TO!OneWriter
<1>1. TO!WellFormed(file) /\ TO!Accepted(file) /\ Apart(file)
  BY DEF TO!ConstantsSound, LoadInv, TO!SitesApart, Apart
<1>2. \/ Addresses(file, name) # {} /\ Cnames(file, name) = {}
      \/ /\ Addresses(file, name) = {} /\ Cnames(file, name) # {}
         /\ \A b, c \in Cnames(file, name) : b = c
         /\ \A c \in Cnames(file, name) : ~TO!SameName(c.to, c.name)
  <2>1. CASE \E d \in DOMAIN file.targets : TO!SameName(file.targets[d].hostname, name)
    BY <1>1, <2>1, DestinationWriters
  <2>2. CASE \A d \in DOMAIN file.targets : ~TO!SameName(file.targets[d].hostname, name)
    <3>1. PICK s \in DOMAIN file.sites :
             file.sites[s].target # None /\ name = TO!LowerName(file.sites[s].hostname)
      <4>1. ASSUME NEW d \in DOMAIN file.targets, name = TO!LowerName(file.targets[d].hostname)
            PROVE  FALSE
        <5>1. file.targets[d].hostname \in LabelNames
          BY <1>1 DEF TO!WellFormed, LabelNames
        <5> QED
          BY <5>1, <4>1, <2>2, LowerAgain DEF TO!SameName
      <4> QED
        BY <4>1 DEF TO!Static
    <3>2. TO!SameName(file.sites[s].hostname, name)
      <4>1. file.sites[s].hostname \in LabelNames
        BY <1>1 DEF TO!WellFormed, LabelNames
      <4> QED
        BY <4>1, <3>1, LowerAgain DEF TO!SameName
    <3> QED
      BY <1>1, <2>2, <3>1, <3>2, SiteWriters
  <2> QED
    BY <2>1, <2>2
<1>3. Cardinality(Cnames(file, name)) <= 1
  BY <1>2, AtMostOne, FS_EmptySet
<1>4. TO!OneWriterEach(file)
  BY <1>1 DEF TO!Accepted
<1>5. \A n \in TO!DynamicNames(file) \cup TO!PagesNames(file) : ~TO!SameName(n, name)
  BY <1>4 DEF TO!OneWriterEach, TO!DynamicNames, TO!PagesNames, TO!CompetingPages
<1>6. ~TO!CompetingRecord(file, name)
  BY <1>4 DEF TO!OneWriterEach
<1>7. (Addresses(file, name) # {}) # (Cnames(file, name) # {})
  BY <1>2
<1>8. \A c \in Cnames(file, name) : ~TO!SameName(c.to, c.name)
  BY <1>2
<1> QED
  BY <1>3, <1>5, <1>6, <1>7, <1>8 DEF Addresses, Cnames

-----------------------------------------------------------------------------
(* The order of the service intents.                                       *)

\* Edges between n intents, as DependencyEdges makes them.
Edges(E, n) == IsFiniteSet(E) /\ \A e \in E : e[1] \in 1..n /\ e[2] \in 1..n

\* The edges into j that do not come from D.
Open(E, D, j) == {e \in E : e[2] = j /\ e[1] \notin D}

\* What is processed: free of dependencies and no more in the queue.
Started(s) == {j \in DOMAIN s.indegree : s.indegree[j] = 0} \ s.ready

\* D is in an order that respects the edges into it.
InOrder(E, n, D, m) ==
    \E at \in [1..n -> Nat] :
      /\ \A i \in D : at[i] \in 1..m
      /\ \A i, j \in D : at[i] = at[j] => i = j
      /\ \A e \in E : e[2] \in D => e[1] \in D /\ at[e[1]] < at[e[2]]

\* After k turns of the loop.
TurnInv(E, n, k, s) ==
    /\ s.processed \in Nat /\ s.indegree \in [1..n -> Nat]
    /\ s.ready \subseteq {j \in 1..n : s.indegree[j] = 0}
    /\ \A j \in 1..n : s.indegree[j] = Cardinality(Open(E, Started(s), j))
    /\ Cardinality(Started(s)) = s.processed
    /\ s.processed = k \/ s.ready = {}
    /\ InOrder(E, n, Started(s), s.processed)

\* A part of the edges is finite.
LEMMA OpenFinite ==
    ASSUME NEW n, NEW E, Edges(E, n)
    PROVE  \A D, j : IsFiniteSet(Open(E, D, j)) /\ Cardinality(Open(E, D, j)) \in Nat
<1>1. \A D, j : Open(E, D, j) \in SUBSET E
  BY DEF Open
<1> QED
  BY <1>1, FS_Subset, FS_CardinalityType DEF Edges

\* The loop is a function: each turn follows from the one before.
LEMMA TurnsAre ==
    ASSUME NEW E, NEW n \in Nat
    PROVE  /\ TO!Turns(E, n)[0] = TO!FirstReady(E, n)
           /\ \A k \in 1..n : TO!Turns(E, n)[k] = TO!Pop(E, TO!Turns(E, n)[k - 1])
<1> DEFINE Is(f, m) == f = [k \in 0..m |-> IF k = 0 THEN TO!FirstReady(E, n)
                                          ELSE TO!Pop(E, f[k - 1])]
           Some == {m \in Nat : \E f : Is(f, m)}
<1>1. 0 \in Some
  <2>1. Is([k \in 0..0 |-> TO!FirstReady(E, n)], 0)
    OBVIOUS
  <2> QED
    BY <2>1
<1>2. ASSUME NEW m \in Some PROVE m + 1 \in Some
  <2>1. PICK f : Is(f, m)
    BY <1>2
  <2>2. m \in Nat /\ m + 1 \in Nat
    OBVIOUS
  <2> DEFINE g == [k \in 0..(m + 1) |-> IF k <= m THEN f[k] ELSE TO!Pop(E, f[m])]
  <2>3. ASSUME NEW k \in 0..(m + 1)
        PROVE  g[k] = IF k = 0 THEN TO!FirstReady(E, n) ELSE TO!Pop(E, g[k - 1])
    <3>1. CASE k = 0
      BY <2>1, <2>2, <3>1
    <3>2. CASE k # 0 /\ k <= m
      BY <2>1, <2>2, <3>2
    <3>3. CASE k = m + 1
      BY <2>2, <3>3
    <3> QED
      BY <2>2, <3>1, <3>2, <3>3
  <2>4. Is(g, m + 1)
    BY <2>3
  <2>5. \E f2 : Is(f2, m + 1)
    BY <2>4
  <2> HIDE DEF Is
  <2> QED
    BY <2>2, <2>5
<1>3. Some = Nat
  <2> HIDE DEF Is
  <2> QED
    BY <1>1, <1>2, Upwards
<1>4. \E f : Is(f, n)
  BY <1>3
<1>5. Is(TO!Turns(E, n), n)
  BY <1>4 DEF TO!Turns
<1> QED
  BY <1>5

\* At first nothing is processed.
LEMMA FirstTurn ==
    ASSUME NEW n \in Nat, NEW E, Edges(E, n)
    PROVE  TurnInv(E, n, 0, TO!FirstReady(E, n))
<1> DEFINE s == TO!FirstReady(E, n)
<1>1. s = [processed |-> 0, ready |-> {j \in 1..n : Cardinality(Open(E, {}, j)) = 0},
           indegree |-> [j \in 1..n |-> Cardinality(Open(E, {}, j))]]
  <2>1. \A j : Open(E, {}, j) = {e \in E : e[2] = j}
    BY DEF Open
  <2> QED
    BY <2>1, SameCount DEF TO!FirstReady
<1>2. Started(s) = {}
  BY <1>1 DEF Started
<1>3. InOrder(E, n, {}, 0)
  <2>1. [i \in 1..n |-> 0] \in [1..n -> Nat]
    OBVIOUS
  <2> QED
    BY <2>1 DEF InOrder
<1> HIDE DEF s
<1>4. TurnInv(E, n, 0, s)
  <2>1. \A j \in 1..n : Cardinality(Open(E, {}, j)) \in Nat
    BY OpenFinite
  <2>2. s.processed = 0 /\ s.indegree = [j \in 1..n |-> Cardinality(Open(E, {}, j))]
    BY <1>1
  <2>3. s.ready = {j \in 1..n : Cardinality(Open(E, {}, j)) = 0}
    BY <1>1
  <2> QED
    BY <1>2, <1>3, <2>1, <2>2, <2>3, FS_EmptySet DEF TurnInv
<1> QED
  BY <1>4 DEF s

\* A turn takes one intent out of the queue, after all it depends on.
LEMMA NextTurn ==
    ASSUME NEW n \in Nat, NEW E, Edges(E, n), NEW k \in Nat, NEW s, TurnInv(E, n, k, s)
    PROVE  TurnInv(E, n, k + 1, TO!Pop(E, s))
<1>1. CASE s.ready = {}
  BY <1>1 DEF TurnInv, TO!Pop
<1>2. CASE s.ready # {}
  <2> DEFINE i == CHOOSE x \in s.ready : TRUE
             told(j) == Cardinality({e \in E : e[1] = i /\ e[2] = j})
             t == TO!Pop(E, s)
  <2>1. i \in s.ready /\ i \in 1..n /\ i \notin Started(s) /\ s.indegree[i] = 0
    BY <1>2 DEF TurnInv, Started
  <2>2. DOMAIN s.indegree = 1..n /\ s.indegree \in [1..n -> Nat] /\ s.processed \in Nat
    BY DEF TurnInv
  <2>3. /\ t.processed = s.processed + 1
        /\ t.indegree = [j \in 1..n |-> s.indegree[j] - told(j)]
        /\ t.ready = (s.ready \ {i}) \cup {j \in 1..n : told(j) > 0 /\ s.indegree[j] = told(j)}
    BY <1>2, <2>2, SameCount DEF TO!Pop
  <2> HIDE DEF t, i
  <2>4. ASSUME NEW j \in 1..n
        PROVE  /\ told(j) \in Nat /\ told(j) <= s.indegree[j]
               /\ s.indegree[j] - told(j) = Cardinality(Open(E, Started(s) \cup {i}, j))
    <3> DEFINE O == Open(E, Started(s), j)
               T == {e \in E : e[1] = i /\ e[2] = j}
    <3>1. T \in SUBSET O
      BY <2>1 DEF Open
    <3>2. Open(E, Started(s) \cup {i}, j) = O \ T
      BY DEF Open
    <3>3. IsFiniteSet(O) /\ Cardinality(O) \in Nat /\ s.indegree[j] = Cardinality(O)
      BY OpenFinite DEF TurnInv
    <3>4. IsFiniteSet(T) /\ Cardinality(T) \in Nat /\ Cardinality(T) <= Cardinality(O)
      BY <3>1, <3>3, FS_Subset, FS_CardinalityType
    <3>5. Cardinality(O \ T) = Cardinality(O) - Cardinality(O \cap T)
      BY <3>3, <3>4, FS_Difference
    <3>6. O \cap T = T
      BY <3>1
    <3> QED
      BY <3>2, <3>3, <3>4, <3>5, <3>6
  <2> HIDE DEF told
  <2>5. told(i) = 0 /\ \A j \in 1..n : s.indegree[j] = 0 => told(j) = 0
    BY <2>1, <2>2, <2>4
  <2>6. Started(t) = Started(s) \cup {i}
    <3>1. DOMAIN t.indegree = 1..n /\ \A j \in 1..n : t.indegree[j] = s.indegree[j] - told(j)
      BY <2>3
    <3>2. ASSUME NEW j \in 1..n PROVE j \in Started(t) <=> j \in Started(s) \cup {i}
      <4>1. j \in Started(t) <=> s.indegree[j] = told(j) /\ j \notin t.ready
        <5>1. told(j) \in Nat /\ s.indegree[j] \in Nat
          BY <2>2, <2>4
        <5> QED
          BY <3>1, <5>1 DEF Started
      <4>2. CASE s.indegree[j] = 0
        <5>1. told(j) = 0
          BY <2>5, <4>2
        <5>2. j \in t.ready <=> j \in s.ready /\ j # i
          BY <2>3, <5>1
        <5>3. j \in Started(s) <=> j \notin s.ready
          BY <2>2, <4>2 DEF Started
        <5> QED
          BY <2>1, <4>1, <4>2, <5>1, <5>2, <5>3
      <4>3. CASE s.indegree[j] # 0
        <5>1. s.indegree[j] = told(j) => told(j) > 0
          BY <2>2, <2>4, <4>3
        <5> QED
          BY <2>1, <2>2, <2>3, <4>1, <4>3, <5>1 DEF Started
      <4> QED
        BY <4>2, <4>3
    <3> QED
      BY <2>1, <2>2, <3>1, <3>2 DEF Started
  <2>7. t.processed \in Nat /\ t.indegree \in [1..n -> Nat]
    BY <2>2, <2>3, <2>4
  <2>8. t.ready \subseteq {j \in 1..n : t.indegree[j] = 0}
    <3> SUFFICES ASSUME NEW j \in t.ready PROVE j \in 1..n /\ t.indegree[j] = 0
      OBVIOUS
    <3>1. CASE j \in s.ready
      BY <2>2, <2>3, <2>5, <3>1 DEF TurnInv
    <3>2. CASE j \notin s.ready
      BY <2>2, <2>3, <3>2
    <3> QED
      BY <3>1, <3>2
  <2>9. \A j \in 1..n : t.indegree[j] = Cardinality(Open(E, Started(t), j))
    BY <2>3, <2>4, <2>6
  <2>10. Cardinality(Started(t)) = t.processed
    <3>1. IsFiniteSet(Started(s))
      <4>1. Started(s) \in SUBSET (1..n)
        BY <2>2 DEF Started
      <4> QED
        BY <4>1, FS_Subset, FS_Interval
    <3>2. Cardinality(Started(s)) = s.processed
      BY DEF TurnInv
    <3>3. Cardinality(Started(s) \cup {i}) = Cardinality(Started(s)) + 1
      BY <2>1, <3>1, FS_AddElement
    <3> QED
      BY <2>3, <2>6, <3>2, <3>3
  <2>11. t.processed = k + 1
    BY <1>2, <2>3 DEF TurnInv
  <2>12. InOrder(E, n, Started(t), t.processed)
    <3>1. PICK at \in [1..n -> Nat] :
            /\ \A j \in Started(s) : at[j] \in 1..s.processed
            /\ \A j, l \in Started(s) : at[j] = at[l] => j = l
            /\ \A e \in E : e[2] \in Started(s) => e[1] \in Started(s) /\ at[e[1]] < at[e[2]]
      BY DEF TurnInv, InOrder
    <3> DEFINE now == [at EXCEPT ![i] = s.processed + 1]
    <3>2. now \in [1..n -> Nat] /\ now[i] = s.processed + 1
      BY <2>1, <2>2
    <3>3. \A j \in Started(s) : j \in 1..n /\ j # i /\ now[j] = at[j] /\ now[j] \in 1..s.processed
      BY <2>1, <2>2, <3>1 DEF Started
    <3> HIDE DEF now
    <3>4. \A e \in E : e[2] = i => e[1] \in Started(s)
      <4>1. IsFiniteSet(Open(E, Started(s), i)) /\ Cardinality(Open(E, Started(s), i)) = 0
        BY <2>1, OpenFinite DEF TurnInv
      <4>2. Open(E, Started(s), i) = {}
        BY <4>1, FS_EmptySet
      <4> QED
        BY <4>2 DEF Open
    <3>5. \A j \in Started(t) : now[j] \in 1..t.processed
      BY <2>2, <2>3, <2>6, <3>2, <3>3
    <3>6. \A j, l \in Started(t) : now[j] = now[l] => j = l
      BY <2>2, <2>6, <3>1, <3>2, <3>3
    <3>7. \A e \in E : e[2] \in Started(t) => e[1] \in Started(t) /\ now[e[1]] < now[e[2]]
      <4> SUFFICES ASSUME NEW e \in E, e[2] \in Started(t)
                   PROVE  e[1] \in Started(t) /\ now[e[1]] < now[e[2]]
        OBVIOUS
      <4>1. e[1] \in Started(s)
        BY <2>6, <3>1, <3>4
      <4>2. CASE e[2] = i
        BY <2>2, <2>6, <3>2, <3>3, <4>1, <4>2
      <4>3. CASE e[2] \in Started(s)
        <5>1. at[e[1]] < at[e[2]]
          BY <3>1, <4>3
        <5>2. now[e[1]] = at[e[1]] /\ now[e[2]] = at[e[2]]
          BY <3>3, <4>1, <4>3
        <5> QED
          BY <2>6, <4>1, <5>1, <5>2
      <4> QED
        BY <2>6, <4>2, <4>3
    <3> QED
      BY <3>2, <3>5, <3>6, <3>7 DEF InOrder
  <2>13. TurnInv(E, n, k + 1, t)
    BY <2>7, <2>8, <2>9, <2>10, <2>11, <2>12 DEF TurnInv
  <2> QED
    BY <2>13 DEF t
<1> QED
  BY <1>1, <1>2

\* The loop comes to the end of its turns with all intents exactly if they
\* can be ordered.
LEMMA KahnOrders ==
    ASSUME NEW n \in Nat, NEW E, Edges(E, n)
    PROVE  TO!Turns(E, n)[n].processed = n <=> InOrder(E, n, 1..n, n)
<1> DEFINE turn == TO!Turns(E, n)
           Kept == {k \in Nat : k <= n => TurnInv(E, n, k, turn[k])}
           s == turn[n]
<1>1. 0 \in Kept
  BY FirstTurn, TurnsAre
<1>2. TurnInv(E, n, n, s)
  <2> HIDE DEF turn
  <2>1. ASSUME NEW k \in Kept, k + 1 <= n PROVE TurnInv(E, n, k + 1, turn[k + 1])
    <3>1. k \in Nat /\ k + 1 \in 1..n /\ (k + 1) - 1 = k /\ TurnInv(E, n, k, turn[k])
      BY <2>1
    <3>2. turn[k + 1] = TO!Pop(E, turn[k])
      BY <3>1, TurnsAre DEF turn
    <3> QED
      BY <3>1, <3>2, NextTurn
  <2>2. \A k \in Kept : k + 1 \in Kept
    BY <2>1
  <2>3. Kept \in SUBSET Nat
    OBVIOUS
  <2>4. Kept = Nat
    <3> HIDE DEF Kept
    <3> QED
      BY <1>1, <2>2, <2>3, Upwards
  <2> QED
    BY <2>4
<1> HIDE DEF turn, s
<1>3. Started(s) \in SUBSET (1..n) /\ DOMAIN s.indegree = 1..n
  BY <1>2 DEF TurnInv, Started
<1>4. IsFiniteSet(1..n) /\ Cardinality(1..n) = n
  BY FS_Interval
<1>5. CASE s.processed = n
  <2>1. Started(s) = 1..n
    BY <1>2, <1>3, <1>4, <1>5, FS_Subset DEF TurnInv
  <2> QED
    BY <1>2, <1>5, <2>1 DEF TurnInv, s, turn
<1>6. CASE s.processed # n
  <2> DEFINE Rest == (1..n) \ Started(s)
  <2>1. s.ready = {}
    BY <1>2, <1>6 DEF TurnInv
  <2>2. Rest # {}
    BY <1>2, <1>3, <1>4, <1>6 DEF TurnInv
  <2>3. ASSUME NEW j \in Rest PROVE \E e \in E : e[2] = j /\ e[1] \in Rest
    <3>1. s.indegree[j] # 0
      BY <1>3, <2>1 DEF Started
    <3>2. Open(E, Started(s), j) # {}
      BY <1>2, <3>1, FS_EmptySet DEF TurnInv
    <3> QED
      BY <3>2 DEF Open, Edges
  <2>4. SUFFICES ASSUME InOrder(E, n, 1..n, n) PROVE FALSE
    BY <1>6 DEF s, turn
  <2>5. PICK at \in [1..n -> Nat] : \A e \in E : e[2] \in 1..n => at[e[1]] < at[e[2]]
    BY <2>4 DEF InOrder
  <2> DEFINE Times == {at[j] : j \in Rest}
  <2>6. PICK m \in Times : \A x \in Times : m <= x
    <3>1. Times \in SUBSET Nat /\ Times # {}
      BY <2>2
    <3> QED
      BY <3>1, LeastOf
  <2>7. PICK j \in Rest : at[j] = m
    BY <2>6
  <2>8. PICK e \in E : e[2] = j /\ e[1] \in Rest
    BY <2>3
  <2>9. at[e[1]] \in Times /\ at[e[1]] < at[j] /\ at[e[1]] \in Nat /\ at[j] \in Nat
    BY <2>5, <2>8
  <2>10. m <= at[e[1]]
    BY <2>6, <2>9
  <2> QED
    BY <2>7, <2>9, <2>10
<1> QED
  BY <1>5, <1>6

\* The position of a name is that of an intent.
LEMMA PositionIs ==
    ASSUME NEW intents, intents \in Seq(TO!ToSet(intents)), NEW name
    PROVE  TO!Position(intents, name) \in {0} \cup DOMAIN intents
<1> DEFINE S == {i \in DOMAIN intents : intents[i].name = name}
<1>1. CASE S = {}
  BY <1>1 DEF TO!Position
<1>2. CASE S # {}
  <2> DEFINE T == {Len(intents) - i : i \in S}
  <2>1. T \in SUBSET Nat /\ T # {} /\ S \subseteq 1..Len(intents) /\ Len(intents) \in Nat
    BY <1>2
  <2>2. PICK m \in T : \A x \in T : m <= x
    BY <2>1, LeastOf
  <2>3. PICK i \in S : m = Len(intents) - i
    BY <2>2
  <2>4. ASSUME NEW j \in S PROVE j <= i
    <3>1. Len(intents) - j \in T /\ m <= Len(intents) - j
      BY <2>2
    <3>2. i \in Int /\ j \in Int /\ Len(intents) \in Int
      BY <2>1
    <3> QED
      BY <2>3, <3>1, <3>2
  <2>5. TO!Position(intents, name) = CHOOSE x \in S : \A j \in S : j <= x
    BY <1>2 DEF TO!Position
  <2> QED
    BY <2>4, <2>5
<1> QED
  BY <1>1, <1>2

\* The dependencies of a well-formed list are finitely many edges.
LEMMA DependenciesAreEdges ==
    ASSUME NEW intents, intents \in Seq(TO!ToSet(intents)),
           \A i \in DOMAIN intents :
             intents[i].dependsOn \in Seq(TO!ToSet(intents[i].dependsOn))
    PROVE  Edges(TO!DependencyEdges(intents), Len(intents))
<1> DEFINE E == TO!DependencyEdges(intents)
           n == Len(intents)
           deps == [i \in 1..n |-> DOMAIN intents[i].dependsOn]
           Lists == {deps[i] : i \in 1..n}
           K == UNION Lists
           place == [e \in E |-> <<e[2], e[3]>>]
<1>1. n \in Nat /\ DOMAIN intents = 1..n
  OBVIOUS
<1>2. ASSUME NEW e \in E
      PROVE  \E i \in 1..n : \E k \in DOMAIN intents[i].dependsOn :
               /\ e = <<TO!Position(intents, intents[i].dependsOn[k]), i, k>>
               /\ TO!Position(intents, intents[i].dependsOn[k]) # 0
  BY <1>1 DEF TO!DependencyEdges
<1>3. ASSUME NEW e \in E
      PROVE  /\ e[1] \in 1..n /\ e[2] \in 1..n /\ e[3] \in K
             /\ e = <<TO!Position(intents, intents[e[2]].dependsOn[e[3]]), e[2], e[3]>>
  <2>4. PICK i \in 1..n : \E k \in DOMAIN intents[i].dependsOn :
               /\ e = <<TO!Position(intents, intents[i].dependsOn[k]), i, k>>
               /\ TO!Position(intents, intents[i].dependsOn[k]) # 0
    BY <1>2
  <2>1. PICK k \in DOMAIN intents[i].dependsOn :
               /\ e = <<TO!Position(intents, intents[i].dependsOn[k]), i, k>>
               /\ TO!Position(intents, intents[i].dependsOn[k]) # 0
    BY <2>4
  <2>2. k \in K
    <3>1. deps[i] \in Lists /\ k \in deps[i]
      BY <2>1
    <3> QED
      BY <3>1
  <2>3. TO!Position(intents, intents[i].dependsOn[k]) \in 1..n
    BY <1>1, <2>1, PositionIs
  <2> QED
    BY <2>1, <2>2, <2>3
<1> HIDE DEF E
<1>4. IsFiniteSet(K)
  <2>1. IsFiniteSet(1..n)
    BY <1>1, FS_Interval
  <2>2. deps \in Surjection(1..n, Lists)
    BY DEF Surjection
  <2>3. IsFiniteSet(Lists)
    BY <2>1, <2>2, FS_Surjection
  <2>4. \A L \in Lists : IsFiniteSet(L)
    <3> SUFFICES ASSUME NEW i \in 1..n PROVE IsFiniteSet(deps[i])
      OBVIOUS
    <3>1. deps[i] = 1..Len(intents[i].dependsOn) /\ Len(intents[i].dependsOn) \in Nat
      BY <1>1
    <3>2. \A m \in Nat : IsFiniteSet(1..m)
      BY FS_Interval
    <3> QED
      BY <3>1, <3>2
  <2> QED
    BY <2>3, <2>4, FS_UNION
<1>5. IsFiniteSet((1..n) \X K)
  <2>1. IsFiniteSet(1..n)
    BY <1>1, FS_Interval
  <2> HIDE DEF K, n
  <2> QED
    BY <1>4, <2>1, FS_Product
<1>6. place \in Injection(E, (1..n) \X K)
  <2>1. \A e \in E : place[e] = <<e[2], e[3]>> /\ e[2] \in 1..n /\ e[3] \in K
    BY <1>3
  <2> HIDE DEF K, n
  <2>2. place \in [E -> (1..n) \X K]
    BY <2>1
  <2>3. ASSUME NEW e \in E, NEW f \in E, place[e] = place[f] PROVE e = f
    <3>1. e[2] = f[2] /\ e[3] = f[3]
      BY <2>1, <2>3
    <3> QED
      BY <1>3, <3>1
  <2> QED
    BY <2>2, <2>3 DEF Injection, IsInjective
<1>7. IsFiniteSet(E)
  BY <1>5, <1>6, FS_Injection
<1> QED
  BY <1>3, <1>7 DEF Edges, E

\* What validation takes for acyclic is what can be started in an order.
LEMMA LoadedStarts == ASSUME TO!ConstantsSound, LoadInv PROVE TO!StartOrder
<1> DEFINE n == Len(file.intents)
           E == TO!DependencyEdges(file.intents)
           ordered == \E at \in {f \in [1..n -> 1..n] : TO!IsInjective(f)} :
                        \A e \in E : at[e[1]] < at[e[2]]
<1>1. /\ file.intents \in Seq(TO!ToSet(file.intents))
      /\ \A i \in DOMAIN file.intents :
           file.intents[i].dependsOn \in Seq(TO!ToSet(file.intents[i].dependsOn))
  BY DEF LoadInv, TO!ConstantsSound, TO!WellFormed
<1>2. n \in Nat /\ Edges(E, n)
  BY <1>1, DependenciesAreEdges
<1>3. TO!Processed(file.intents) = n <=> InOrder(E, n, 1..n, n)
  BY <1>2, KahnOrders DEF TO!Processed
<1>4. TO!Loaded => TO!Processed(file.intents) = n
  BY DEF LoadInv, TO!Accepted, TO!IntentsSound
<1> HIDE DEF n, E
<1>5. InOrder(E, n, 1..n, n) <=> ordered
  <2>1. ASSUME InOrder(E, n, 1..n, n) PROVE ordered
    <3>1. PICK at \in [1..n -> Nat] :
            /\ \A i \in 1..n : at[i] \in 1..n
            /\ \A i, j \in 1..n : at[i] = at[j] => i = j
            /\ \A e \in E : e[2] \in 1..n => at[e[1]] < at[e[2]]
      BY <2>1 DEF InOrder
    <3>2. at \in [1..n -> 1..n] /\ TO!IsInjective(at)
      BY <3>1 DEF TO!IsInjective
    <3> QED
      BY <1>2, <3>1, <3>2 DEF Edges
  <2>2. ASSUME ordered PROVE InOrder(E, n, 1..n, n)
    <3>1. PICK at \in [1..n -> 1..n] :
            TO!IsInjective(at) /\ \A e \in E : at[e[1]] < at[e[2]]
      BY <2>2
    <3>2. at \in [1..n -> Nat]
      BY <1>2, <3>1
    <3>3. \A i, j \in 1..n : at[i] = at[j] => i = j
      BY <3>1 DEF TO!IsInjective
    <3> QED
      BY <1>2, <3>1, <3>2, <3>3 DEF InOrder, Edges
  <2> QED
    BY <2>1, <2>2
<1> QED
  BY <1>3, <1>4, <1>5 DEF TO!StartOrder, n, E

-----------------------------------------------------------------------------
(* The supply graph.                                                       *)

\* The graph has its parts, its nodes have attributes, and none is null.
NoNulls(g) ==
    /\ {"nodes", "edges", "capabilities", "conflicts"} \subseteq DOMAIN g
    /\ \A id \in DOMAIN g.nodes :
         /\ "attrs" \in DOMAIN g.nodes[id]
         /\ \A k \in DOMAIN g.nodes[id].attrs : g.nodes[id].attrs[k] # Null

\* A node brings values only.
LEMMA NodeNoNulls ==
    ASSUME NEW g, NoNulls(g), NEW producer, NEW n
    PROVE  NoNulls(SU!MergeNode(g, producer, n))
<1> DEFINE old == IF n.id \in DOMAIN g.nodes THEN g.nodes[n.id]
                  ELSE [kind |-> n.kind, attrs |-> SU!NoAttrs, expects |-> {}, blockers |-> {}]
           h == SU!MergeNode(g, producer, n)
           attrs == SU!MergeAttrs(old.attrs, n.attrs)
<1>1. "attrs" \in DOMAIN old /\ \A k \in DOMAIN old.attrs : old.attrs[k] # Null
  BY DEF NoNulls, SU!NoAttrs
<1>2. \A k \in DOMAIN attrs : attrs[k] # Null
  BY <1>1 DEF SU!MergeAttrs, SU!NonNull
<1>3. DOMAIN h = DOMAIN g /\ DOMAIN h.nodes = DOMAIN g.nodes \cup {n.id}
  BY DEF SU!MergeNode, NoNulls
<1>4. /\ \A id \in DOMAIN g.nodes \ {n.id} : h.nodes[id] = g.nodes[id]
      /\ DOMAIN h.nodes[n.id] = DOMAIN old /\ h.nodes[n.id].attrs = attrs
  BY <1>1 DEF SU!MergeNode, NoNulls
<1> HIDE DEF h, attrs, old
<1>5. NoNulls(h)
  BY <1>1, <1>2, <1>3, <1>4 DEF NoNulls
<1> QED
  BY <1>5 DEF h

\* An edge changes no node.
LEMMA EdgeNoNulls ==
    ASSUME NEW g, NoNulls(g), NEW producer, NEW e
    PROVE  NoNulls(SU!MergeEdge(g, producer, e))
<1>1. /\ DOMAIN SU!MergeEdge(g, producer, e) = DOMAIN g
      /\ SU!MergeEdge(g, producer, e).nodes = g.nodes
  BY DEF SU!MergeEdge, NoNulls
<1> QED
  BY <1>1 DEF NoNulls

\* A graph whose edges are a list, over finitely many nodes.
Walkable(g) ==
    /\ Len(g.edges) \in Nat /\ DOMAIN g.edges = 1..Len(g.edges)
    /\ IsFiniteSet(SU!Ids(g))

\* The graph is one that can be walked, and each edge has its ends.
GraphSound(g) ==
    /\ NoNulls(g) /\ Walkable(g)
    /\ g.edges \in Seq({g.edges[i] : i \in DOMAIN g.edges})
    /\ \A i \in DOMAIN g.edges : {"from", "to", "attrs"} \subseteq DOMAIN g.edges[i]

\* A node adds itself.
LEMMA NodeSound ==
    ASSUME NEW g, GraphSound(g), NEW producer, NEW n
    PROVE  GraphSound(SU!MergeNode(g, producer, n))
<1> DEFINE h == SU!MergeNode(g, producer, n)
<1>1. h.edges = g.edges /\ DOMAIN h.nodes = DOMAIN g.nodes \cup {n.id}
  BY DEF GraphSound, NoNulls, SU!MergeNode
<1>2. NoNulls(h)
  BY NodeNoNulls DEF GraphSound
<1> HIDE DEF h
<1>3. SU!Ids(h) = SU!Ids(g) \cup {n.id}
  BY <1>1 DEF SU!Ids
<1>4. IsFiniteSet(SU!Ids(h))
  BY <1>3, FS_AddElement DEF GraphSound, Walkable
<1>5. GraphSound(h)
  BY <1>1, <1>2, <1>4 DEF GraphSound, Walkable
<1> QED
  BY <1>5 DEF h

\* An edge adds its ends at most.
LEMMA EdgeSound ==
    ASSUME NEW g, GraphSound(g), NEW producer, NEW e
    PROVE  GraphSound(SU!MergeEdge(g, producer, e))
<1> DEFINE h == SU!MergeEdge(g, producer, e)
           E == [from |-> e.from, to |-> e.to, kind |-> e.kind,
                 attrs |-> SU!NonNull(e.attrs), owner |-> producer]
           n == Len(g.edges)
           S == {g.edges[i] : i \in DOMAIN g.edges}
<1>1. NoNulls(h)
  BY EdgeNoNulls DEF GraphSound
<1>2. h.nodes = g.nodes
  BY DEF SU!MergeEdge, GraphSound, NoNulls
<1>3. n \in Nat /\ DOMAIN g.edges = 1..n /\ g.edges \in Seq(S) /\ IsFiniteSet(SU!Ids(g))
  BY DEF GraphSound, Walkable
<1>4. CASE h.edges = Append(g.edges, E)
  <2>1. E.from = e.from /\ E.to = e.to /\ {"from", "to", "attrs"} \subseteq DOMAIN E
    OBVIOUS
  <2> HIDE DEF E, h, n
  <2>2. g.edges \in Seq(S \cup {E}) /\ E \in S \cup {E}
    BY <1>3
  <2> HIDE DEF S
  <2>3. /\ h.edges \in Seq(S \cup {E}) /\ Len(h.edges) = n + 1
        /\ h.edges[n + 1] = E /\ \A i \in 1..n : h.edges[i] = g.edges[i]
    BY <1>3, <1>4, <2>2 DEF n
  <2>4. DOMAIN h.edges = 1..(n + 1) /\ Len(h.edges) \in Nat
    BY <1>3, <2>3
  <2>5. \A i \in 1..(n + 1) : i \in 1..n \/ i = n + 1
    BY <1>3
  <2>6. \A i \in 1..n : {"from", "to", "attrs"} \subseteq DOMAIN g.edges[i]
    BY <1>3 DEF GraphSound
  <2>7. \A i \in DOMAIN h.edges : {"from", "to", "attrs"} \subseteq DOMAIN h.edges[i]
    BY <2>1, <2>3, <2>4, <2>5, <2>6
  <2>8. h.edges \in Seq({h.edges[i] : i \in DOMAIN h.edges})
    <3> DEFINE s == h.edges
    <3>1. s \in Seq(S \cup {E})
      BY <2>3
    <3> HIDE DEF s
    <3>2. s \in Seq({s[i] : i \in DOMAIN s})
      BY <3>1
    <3> QED
      BY <3>2 DEF s
  <2>9. SU!Ids(h) \subseteq (SU!Ids(g) \cup {e.from}) \cup {e.to}
    <3>1. SUFFICES ASSUME NEW i \in 1..(n + 1)
                   PROVE  {h.edges[i].from, h.edges[i].to} \subseteq (SU!Ids(g) \cup {e.from}) \cup {e.to}
      BY <1>2, <2>4 DEF SU!Ids
    <3>2. CASE i \in 1..n
      BY <1>3, <2>3, <3>2 DEF SU!Ids
    <3>3. CASE i = n + 1
      BY <2>1, <2>3, <3>3
    <3> QED
      BY <2>5, <3>2, <3>3
  <2>10. IsFiniteSet(SU!Ids(h))
    BY <1>3, <2>9, FS_AddElement, FS_Subset
  <2> QED
    BY <1>1, <2>4, <2>3, <2>7, <2>8, <2>10 DEF GraphSound, Walkable, h
<1>5. CASE \E a : \E i \in DOMAIN g.edges : h.edges = [g.edges EXCEPT ![i].attrs = a]
  <2>0. PICK a : \E i \in DOMAIN g.edges : h.edges = [g.edges EXCEPT ![i].attrs = a]
    BY <1>5
  <2>1. PICK i \in DOMAIN g.edges : h.edges = [g.edges EXCEPT ![i].attrs = a]
    BY <2>0
  <2>2. \A j \in 1..n : {"from", "to", "attrs"} \subseteq DOMAIN g.edges[j]
    BY <1>3 DEF GraphSound
  <2> HIDE DEF h, S
  <2>3. g.edges = [j \in 1..n |-> g.edges[j]]
    BY <1>3
  <2>4. DOMAIN h.edges = 1..n /\ h.edges = [j \in 1..n |-> h.edges[j]]
    BY <1>3, <2>1
  <2>5. ASSUME NEW j \in 1..n
        PROVE  /\ h.edges[j].from = g.edges[j].from /\ h.edges[j].to = g.edges[j].to
               /\ {"from", "to", "attrs"} \subseteq DOMAIN h.edges[j]
    <3>1. CASE j # i
      BY <1>3, <2>1, <2>2, <3>1
    <3>2. CASE j = i
      <4>1. h.edges[j] = [g.edges[j] EXCEPT !.attrs = a]
        BY <1>3, <2>1, <3>2
      <4> QED
        BY <2>2, <4>1
    <3> QED
      BY <3>1, <3>2
  <2>6. SU!Ids(h) = SU!Ids(g)
    BY <1>2, <1>3, <2>4, <2>5 DEF SU!Ids
  <2> DEFINE s == h.edges
  <2>7. s = [j \in 1..n |-> s[j]]
    BY <2>4
  <2> HIDE DEF s, n
  <2>8. s \in Seq({s[j] : j \in DOMAIN s}) /\ Len(s) = n /\ DOMAIN s = 1..n
    BY <1>3, <2>7
  <2> QED
    BY <1>1, <1>3, <2>5, <2>6, <2>8 DEF GraphSound, Walkable, h, s
<1>6. \/ h.edges = Append(g.edges, E)
      \/ \E a : \E i \in DOMAIN g.edges : h.edges = [g.edges EXCEPT ![i].attrs = a]
  <2> DEFINE same == {i \in DOMAIN g.edges : /\ g.edges[i].from = e.from
                                             /\ g.edges[i].to = e.to
                                             /\ g.edges[i].kind = e.kind}
             i == CHOOSE x \in same : TRUE
  <2>1. CASE same = {}
    BY <2>1 DEF SU!MergeEdge, GraphSound, NoNulls
  <2>2. CASE same # {}
    <3>1. i \in DOMAIN g.edges
      BY <2>2
    <3>2. h.edges = [g.edges EXCEPT ![i].attrs = SU!MergeAttrs(g.edges[i].attrs, e.attrs)]
      BY <2>2 DEF SU!MergeEdge, GraphSound, NoNulls
    <3> HIDE DEF i, h
    <3> QED
      BY <3>1, <3>2
  <2> QED
    BY <2>1, <2>2
<1> QED
  BY <1>4, <1>5, <1>6

\* Merging the nodes one by one is a function of their number...
LEMMA NodedIs ==
    ASSUME NEW g, NEW doc, Len(doc.nodes) \in Nat
    PROVE  /\ SU!Noded(g, doc)[0] = g
           /\ \A i \in 1..Len(doc.nodes) :
                SU!Noded(g, doc)[i] = SU!MergeNode(SU!Noded(g, doc)[i - 1], doc.producer, doc.nodes[i])
<1> DEFINE Turn(x, i) == SU!MergeNode(x, doc.producer, doc.nodes[i])
           Is(f, m) == f = [i \in 0..m |-> IF i = 0 THEN g ELSE Turn(f[i - 1], i)]
           Some == {m \in Nat : \E f : Is(f, m)}
<1> HIDE DEF Turn
<1>1. 0 \in Some
  <2>1. Is([i \in 0..0 |-> g], 0)
    OBVIOUS
  <2> QED
    BY <2>1
<1>2. ASSUME NEW m \in Some PROVE m + 1 \in Some
  <2>1. PICK f : Is(f, m)
    BY <1>2
  <2>2. m \in Nat /\ m + 1 \in Nat
    OBVIOUS
  <2> DEFINE h == [i \in 0..(m + 1) |-> IF i <= m THEN f[i] ELSE Turn(f[m], i)]
  <2>3. ASSUME NEW i \in 0..(m + 1)
        PROVE  h[i] = IF i = 0 THEN g ELSE Turn(h[i - 1], i)
    <3>1. CASE i = 0
      BY <2>1, <2>2, <3>1
    <3>2. CASE i # 0 /\ i <= m
      BY <2>1, <2>2, <3>2
    <3>3. CASE i = m + 1
      BY <2>2, <3>3
    <3> QED
      BY <2>2, <3>1, <3>2, <3>3
  <2>4. Is(h, m + 1)
    BY <2>3
  <2>5. \E f2 : Is(f2, m + 1)
    BY <2>4
  <2> HIDE DEF Is
  <2> QED
    BY <2>2, <2>5
<1>3. \E f : Is(f, Len(doc.nodes))
  <2> HIDE DEF Is
  <2>1. Some = Nat
    BY <1>1, <1>2, Upwards
  <2> QED
    BY <2>1
<1>4. Is(SU!Noded(g, doc), Len(doc.nodes))
  BY <1>3 DEF SU!Noded, Turn
<1>5. SU!Noded(g, doc)[0] = g
  BY <1>4
<1>6. ASSUME NEW i \in 1..Len(doc.nodes)
      PROVE  SU!Noded(g, doc)[i] = Turn(SU!Noded(g, doc)[i - 1], i)
  BY <1>4
<1> QED
  BY <1>5, <1>6 DEF Turn

\* ...and so is merging the edges.
LEMMA EdgedIs ==
    ASSUME NEW g, NEW doc, Len(doc.edges) \in Nat
    PROVE  /\ SU!Edged(g, doc)[0] = g
           /\ \A i \in 1..Len(doc.edges) :
                SU!Edged(g, doc)[i] = SU!MergeEdge(SU!Edged(g, doc)[i - 1], doc.producer, doc.edges[i])
<1> DEFINE Turn(x, i) == SU!MergeEdge(x, doc.producer, doc.edges[i])
           Is(f, m) == f = [i \in 0..m |-> IF i = 0 THEN g ELSE Turn(f[i - 1], i)]
           Some == {m \in Nat : \E f : Is(f, m)}
<1> HIDE DEF Turn
<1>1. 0 \in Some
  <2>1. Is([i \in 0..0 |-> g], 0)
    OBVIOUS
  <2> QED
    BY <2>1
<1>2. ASSUME NEW m \in Some PROVE m + 1 \in Some
  <2>1. PICK f : Is(f, m)
    BY <1>2
  <2>2. m \in Nat /\ m + 1 \in Nat
    OBVIOUS
  <2> DEFINE h == [i \in 0..(m + 1) |-> IF i <= m THEN f[i] ELSE Turn(f[m], i)]
  <2>3. ASSUME NEW i \in 0..(m + 1)
        PROVE  h[i] = IF i = 0 THEN g ELSE Turn(h[i - 1], i)
    <3>1. CASE i = 0
      BY <2>1, <2>2, <3>1
    <3>2. CASE i # 0 /\ i <= m
      BY <2>1, <2>2, <3>2
    <3>3. CASE i = m + 1
      BY <2>2, <3>3
    <3> QED
      BY <2>2, <3>1, <3>2, <3>3
  <2>4. Is(h, m + 1)
    BY <2>3
  <2>5. \E f2 : Is(f2, m + 1)
    BY <2>4
  <2> HIDE DEF Is
  <2> QED
    BY <2>2, <2>5
<1>3. \E f : Is(f, Len(doc.edges))
  <2> HIDE DEF Is
  <2>1. Some = Nat
    BY <1>1, <1>2, Upwards
  <2> QED
    BY <2>1
<1>4. Is(SU!Edged(g, doc), Len(doc.edges))
  BY <1>3 DEF SU!Edged, Turn
<1>5. SU!Edged(g, doc)[0] = g
  BY <1>4
<1>6. ASSUME NEW i \in 1..Len(doc.edges)
      PROVE  SU!Edged(g, doc)[i] = Turn(SU!Edged(g, doc)[i - 1], i)
  BY <1>4
<1> QED
  BY <1>5, <1>6 DEF Turn

\* A document leaves the graph sound.
LEMMA MergeSound ==
    ASSUME NEW g, GraphSound(g), NEW doc, Len(doc.nodes) \in Nat, Len(doc.edges) \in Nat
    PROVE  GraphSound(SU!Merge(g, doc))
<1> DEFINE nodes == Len(doc.nodes)
           edges == Len(doc.edges)
           h == SU!Noded(g, doc)[nodes]
           N == {i \in Nat : i <= nodes => GraphSound(SU!Noded(g, doc)[i])}
           E == {i \in Nat : i <= edges => GraphSound(SU!Edged(h, doc)[i])}
<1>1. GraphSound(h)
  <2>1. 0 \in N
    BY NodedIs
  <2>2. ASSUME NEW i \in N, i + 1 <= nodes PROVE GraphSound(SU!Noded(g, doc)[i + 1])
    <3>1. i \in Nat /\ i <= nodes /\ i + 1 \in 1..nodes /\ (i + 1) - 1 = i
      BY <2>2
    <3>2. GraphSound(SU!Noded(g, doc)[i])
      BY <2>2, <3>1
    <3> QED
      BY <3>1, <3>2, NodeSound, NodedIs
  <2>3. N = Nat
    <3> HIDE DEF nodes
    <3>1. \A i \in N : i + 1 \in N
      BY <2>2
    <3> HIDE DEF N
    <3>2. N \in SUBSET Nat
      BY DEF N
    <3> QED
      BY <2>1, <3>1, <3>2, Upwards
  <2> QED
    BY <2>3
<1> HIDE DEF h
<1>2. GraphSound(SU!Edged(h, doc)[edges])
  <2>1. 0 \in E
    BY <1>1, EdgedIs
  <2>2. ASSUME NEW i \in E, i + 1 <= edges PROVE GraphSound(SU!Edged(h, doc)[i + 1])
    <3>1. i \in Nat /\ i <= edges /\ i + 1 \in 1..edges /\ (i + 1) - 1 = i
      BY <2>2
    <3>2. GraphSound(SU!Edged(h, doc)[i])
      BY <2>2, <3>1
    <3> QED
      BY <3>1, <3>2, EdgeSound, EdgedIs
  <2>3. E = Nat
    <3> HIDE DEF edges
    <3>1. \A i \in E : i + 1 \in E
      BY <2>2
    <3> HIDE DEF E
    <3>2. E \in SUBSET Nat
      BY DEF E
    <3> QED
      BY <2>1, <3>1, <3>2, Upwards
  <2> QED
    BY <2>3
<1>3. /\ DOMAIN SU!Merge(g, doc) = DOMAIN SU!Edged(h, doc)[edges]
      /\ SU!Merge(g, doc).nodes = SU!Edged(h, doc)[edges].nodes
      /\ SU!Merge(g, doc).edges = SU!Edged(h, doc)[edges].edges
  BY <1>2 DEF SU!Merge, GraphSound, NoNulls, h
<1> QED
  BY <1>2, <1>3 DEF GraphSound, NoNulls, Walkable, SU!Ids

-----------------------------------------------------------------------------
(* What documents state, and the graph that they make.                     *)

\* A value that one of the statements X (each with its producer) states of an
\* attribute; null states none.
Says(X, k, v) == v # Null /\ \E x \in X : k \in DOMAIN x[2].attrs /\ x[2].attrs[k] = v

\* The attributes are those the statements state, each with a value stated.
AttrsTold(a, X) ==
    \A k : /\ k \in DOMAIN a => Says(X, k, a[k])
           /\ \A v : Says(X, k, v) => k \in DOMAIN a

\* Two values are stated of the attribute.
Contested(X, k) == \E v, w : Says(X, k, v) /\ Says(X, k, w) /\ v # w

\* One more statement says what it says.
LEMMA SaysOneMore ==
    ASSUME NEW X, NEW p, NEW n, NEW k, NEW v
    PROVE  Says(X \cup {<<p, n>>}, k, v)
             <=> Says(X, k, v) \/ (k \in DOMAIN SU!NonNull(n.attrs) /\ n.attrs[k] = v)
<1>1. k \in DOMAIN SU!NonNull(n.attrs) <=> k \in DOMAIN n.attrs /\ n.attrs[k] # Null
  BY DEF SU!NonNull
<1>2. \A x : x \in X \cup {<<p, n>>} <=> x \in X \/ x = <<p, n>>
  OBVIOUS
<1>3. <<p, n>>[2] = n
  OBVIOUS
<1> QED
  BY <1>1, <1>2, <1>3 DEF Says

\* One more statement is merged into the attributes...
LEMMA AttrsMerged ==
    ASSUME NEW a, NEW X, AttrsTold(a, X), NEW p, NEW n
    PROVE  AttrsTold(SU!MergeAttrs(a, n.attrs), X \cup {<<p, n>>})
<1> DEFINE b == SU!MergeAttrs(a, n.attrs)
<1>1. /\ DOMAIN b = DOMAIN a \cup DOMAIN SU!NonNull(n.attrs)
      /\ \A k \in DOMAIN a : b[k] = a[k]
      /\ \A k \in DOMAIN b \ DOMAIN a : b[k] = n.attrs[k]
  BY DEF SU!MergeAttrs
<1> HIDE DEF b
<1>2. AttrsTold(b, X \cup {<<p, n>>})
  BY <1>1, SaysOneMore DEF AttrsTold
<1> QED
  BY <1>2 DEF b

\* ...and contests what it contradicts.
LEMMA Contests ==
    ASSUME NEW a, NEW X, AttrsTold(a, X), NEW p, NEW n, NEW k
    PROVE  Contested(X \cup {<<p, n>>}, k) <=> Contested(X, k) \/ k \in SU!Clashes(a, n.attrs)
<1>1. k \in SU!Clashes(a, n.attrs)
        <=> k \in DOMAIN a /\ k \in DOMAIN SU!NonNull(n.attrs) /\ a[k] # n.attrs[k]
  BY DEF SU!Clashes
<1>2. \A v : Says(X \cup {<<p, n>>}, k, v)
        <=> Says(X, k, v) \/ (k \in DOMAIN SU!NonNull(n.attrs) /\ n.attrs[k] = v)
  BY SaysOneMore
<1>3. k \in DOMAIN a => Says(X, k, a[k])
  BY DEF AttrsTold
<1>4. \A v : Says(X, k, v) => k \in DOMAIN a
  BY DEF AttrsTold
<1>5. ASSUME Contested(X \cup {<<p, n>>}, k), k \notin SU!Clashes(a, n.attrs)
      PROVE  Contested(X, k)
  <2>1. PICK v, w : v # w /\ Says(X \cup {<<p, n>>}, k, v) /\ Says(X \cup {<<p, n>>}, k, w)
    BY <1>5 DEF Contested
  <2>2. Says(X, k, v) \/ Says(X, k, w)
    BY <1>2, <2>1
  <2>3. Says(X, k, v) /\ Says(X, k, w)
    BY <1>1, <1>2, <1>3, <1>4, <1>5, <2>1, <2>2
  <2> QED
    BY <2>1, <2>3 DEF Contested
<1>6. Contested(X, k) => Contested(X \cup {<<p, n>>}, k)
  BY <1>2 DEF Contested
<1>7. ASSUME k \in SU!Clashes(a, n.attrs) PROVE Contested(X \cup {<<p, n>>}, k)
  <2>1. Says(X \cup {<<p, n>>}, k, a[k]) /\ Says(X \cup {<<p, n>>}, k, n.attrs[k])
    BY <1>1, <1>2, <1>3, <1>7
  <2> QED
    BY <1>1, <1>7, <2>1 DEF Contested
<1> QED
  BY <1>5, <1>6, <1>7

\* Nothing is told of no attributes.
LEMMA NothingTold == AttrsTold(SU!NoAttrs, {}) /\ \A k : ~Contested({}, k)
  BY DEF AttrsTold, Says, Contested, SU!NoAttrs

\* A first statement is merged into none.
LEMMA FirstAttrs ==
    ASSUME NEW p, NEW n
    PROVE  /\ AttrsTold(SU!NonNull(n.attrs), {<<p, n>>})
           /\ \A k : ~Contested({<<p, n>>}, k)
  BY DEF AttrsTold, Says, Contested, SU!NonNull

\* The statements about a node.
About(N, id) == {x \in N : x[2].id = id}

\* The entry of a node is what the statements X about it amount to.
ListsTold(n, X) ==
    /\ {"kind", "attrs", "expects", "blockers"} = DOMAIN n
    /\ AttrsTold(n.attrs, X)
    /\ \A v : (\E c \in n.expects : c.value = v) <=> (\E x \in X : v \in x[2].expects)
    /\ \A c : c \in n.blockers
                <=> \E x \in X : \E b \in x[2].blockers : c = [producer |-> x[1], value |-> b]
KindTold(n, X) == \E x \in X : x[2].kind = n.kind
EntryTold(n, X) == ListsTold(n, X) /\ KindTold(n, X)

NodesTold(nodes, N) ==
    /\ \A id : id \in DOMAIN nodes <=> About(N, id) # {}
    /\ \A id \in DOMAIN nodes : EntryTold(nodes[id], About(N, id))

TwoKinds(X) == \E x, y \in X : x[2].kind # y[2].kind
\* The entry that a statement is merged into, the merged entry, and what is in
\* conflict by it.
Before(g, n) ==
    IF n.id \in DOMAIN g.nodes THEN g.nodes[n.id]
    ELSE [kind |-> n.kind, attrs |-> SU!NoAttrs, expects |-> {}, blockers |-> {}]
Entry(old, p, n) ==
    [old EXCEPT !.attrs = SU!MergeAttrs(old.attrs, n.attrs),
                !.expects = old.expects \cup {[producer |-> p, value |-> e] :
                     e \in {x \in n.expects : \A c \in old.expects : c.value # x}},
                !.blockers = old.blockers \cup {[producer |-> p, value |-> b] : b \in n.blockers}]
Contradicted(old, n) == SU!Clashes(old.attrs, n.attrs) \cup (IF old.kind # n.kind THEN {"(kind)"} ELSE {})

\* An entry as a statement meets it: what was told before, or empty.
Met(old, X, n) == ListsTold(old, X) /\ (KindTold(old, X) \/ (X = {} /\ old.kind = n.kind))

\* One more statement is merged into an entry.
LEMMA EntryMerged ==
    ASSUME NEW old, NEW X, NEW p, NEW n, Met(old, X, n)
    PROVE  EntryTold(Entry(old, p, n), X \cup {<<p, n>>})
<1> DEFINE new == Entry(old, p, n)
           Y == X \cup {<<p, n>>}
           fresh == {x \in n.expects : \A c \in old.expects : c.value # x}
<1>1. /\ DOMAIN new = DOMAIN old /\ new.kind = old.kind
      /\ new.attrs = SU!MergeAttrs(old.attrs, n.attrs)
      /\ new.expects = old.expects \cup {[producer |-> p, value |-> e] : e \in fresh}
      /\ new.blockers = old.blockers \cup {[producer |-> p, value |-> b] : b \in n.blockers}
  BY DEF Entry, ListsTold, Met
<1>2. AttrsTold(new.attrs, Y)
  <2>1. AttrsTold(old.attrs, X)
    BY DEF ListsTold, Met
  <2>2. AttrsTold(SU!MergeAttrs(old.attrs, n.attrs), Y)
    BY <2>1, AttrsMerged
  <2> HIDE DEF new, Y
  <2> QED
    BY <1>1, <2>2
<1>3. \A x : x \in Y <=> x \in X \/ x = <<p, n>>
  OBVIOUS
<1>4. <<p, n>>[1] = p /\ <<p, n>>[2] = n
  OBVIOUS
<1> HIDE DEF new, Y, fresh
<1>5. ASSUME NEW v
      PROVE  (\E c \in new.expects : c.value = v) <=> (\E x \in Y : v \in x[2].expects)
  <2>1. (\E c \in new.expects : c.value = v) <=> (\E c \in old.expects : c.value = v) \/ v \in fresh
    <3> DEFINE added == {[producer |-> p, value |-> e] : e \in fresh}
    <3>0. ASSUME v \in fresh PROVE \E c \in added : c.value = v
      <4>1. [producer |-> p, value |-> v] \in added
        BY <3>0
      <4> QED
        BY <4>1
    <3>1. (\E c \in added : c.value = v) <=> v \in fresh
      BY <3>0
    <3>2. \A c : c \in new.expects <=> c \in old.expects \/ c \in added
      BY <1>1
    <3> HIDE DEF added
    <3> QED
      BY <3>1, <3>2
  <2>2. v \in fresh <=> v \in n.expects /\ ~(\E c \in old.expects : c.value = v)
    BY DEF fresh
  <2>3. (\E c \in old.expects : c.value = v) <=> (\E x \in X : v \in x[2].expects)
    BY DEF ListsTold, Met
  <2>4. (\E x \in Y : v \in x[2].expects) <=> (\E x \in X : v \in x[2].expects) \/ v \in n.expects
    BY <1>3, <1>4
  <2> QED
    BY <2>1, <2>2, <2>3, <2>4
<1>6. ASSUME NEW c
      PROVE  c \in new.blockers
               <=> \E x \in Y : \E b \in x[2].blockers : c = [producer |-> x[1], value |-> b]
  <2>1. c \in new.blockers
          <=> c \in old.blockers \/ \E b \in n.blockers : c = [producer |-> p, value |-> b]
    BY <1>1
  <2>2. c \in old.blockers
          <=> \E x \in X : \E b \in x[2].blockers : c = [producer |-> x[1], value |-> b]
    BY DEF ListsTold, Met
  <2> QED
    BY <1>3, <1>4, <2>1, <2>2
<1>7. KindTold(new, Y)
  BY <1>1, <1>3, <1>4 DEF KindTold, Met
<1>8. ListsTold(new, Y)
  BY <1>1, <1>2, <1>5, <1>6 DEF ListsTold, Met
<1> QED
  BY <1>7, <1>8 DEF EntryTold, new, Y

\* What a statement meets: an entry, or none yet.
LEMMA BeforeTold ==
    ASSUME NEW g, NEW N, NodesTold(g.nodes, N), NEW n
    PROVE  Met(Before(g, n), About(N, n.id), n)
<1>1. CASE n.id \in DOMAIN g.nodes
  BY <1>1 DEF Before, NodesTold, EntryTold, Met
<1>2. CASE n.id \notin DOMAIN g.nodes
  <2>1. About(N, n.id) = {}
    BY <1>2 DEF NodesTold
  <2>2. Before(g, n) = [kind |-> n.kind, attrs |-> SU!NoAttrs, expects |-> {}, blockers |-> {}]
    BY <1>2 DEF Before
  <2>3. ListsTold(Before(g, n), {})
    BY <2>2, NothingTold DEF ListsTold
  <2> QED
    BY <2>1, <2>2, <2>3 DEF Met
<1> QED
  BY <1>1, <1>2

\* A dispute about an entry: over a value, or over the kind.
Dispute(X, k) == Contested(X, k) \/ (k = "(kind)" /\ TwoKinds(X))

\* It disputes what it contradicts.
LEMMA EntryDisputes ==
    ASSUME NEW old, NEW X, NEW p, NEW n, Met(old, X, n), NEW k
    PROVE  Dispute(X \cup {<<p, n>>}, k) <=> Dispute(X, k) \/ k \in Contradicted(old, n)
<1> DEFINE Y == X \cup {<<p, n>>}
<1>1. \A x : x \in Y <=> x \in X \/ x = <<p, n>>
  OBVIOUS
<1>2. <<p, n>>[2] = n
  OBVIOUS
<1>3. Contested(Y, k) <=> Contested(X, k) \/ k \in SU!Clashes(old.attrs, n.attrs)
  BY Contests DEF Met, ListsTold
<1> HIDE DEF Y
<1>4. TwoKinds(Y) <=> TwoKinds(X) \/ old.kind # n.kind
  <2>1. CASE X = {} /\ old.kind = n.kind
    BY <1>1, <1>2, <2>1 DEF TwoKinds
  <2>2. ASSUME NEW y \in X, y[2].kind = old.kind
        PROVE  TwoKinds(Y) <=> TwoKinds(X) \/ old.kind # n.kind
    <3>1. TwoKinds(X) => TwoKinds(Y)
      BY <1>1 DEF TwoKinds
    <3>2. old.kind # n.kind => TwoKinds(Y)
      BY <1>1, <1>2, <2>2 DEF TwoKinds
    <3>3. ASSUME TwoKinds(Y), old.kind = n.kind PROVE TwoKinds(X)
      <4>1. PICK u \in Y : \E w \in Y : u[2].kind # w[2].kind
        BY <3>3 DEF TwoKinds
      <4>2. PICK w \in Y : u[2].kind # w[2].kind
        BY <4>1
      <4>3. \E z \in {u, w} : z \in X /\ z[2].kind # y[2].kind
        BY <1>1, <1>2, <2>2, <3>3, <4>2
      <4> QED
        BY <2>2, <4>3 DEF TwoKinds
    <3> QED
      BY <3>1, <3>2, <3>3
  <2> QED
    BY <2>1, <2>2 DEF Met, KindTold
<1> QED
  BY <1>3, <1>4 DEF Dispute, Contradicted, Y
\* The conflicts over nodes.
NodeConflict(N, c) ==
    \E id, k : c = [node |-> id, subject |-> id, key |-> k] /\ Dispute(About(N, id), k)

\* The statements about the same edge, and the conflicts over edges.
SameEnds(e, f) == e.from = f.from /\ e.to = f.to /\ e.kind = f.kind
Like(E, e) == {x \in E : SameEnds(x[2], e)}
EdgeConflict(E, c) ==
    \E x \in E : \E k : /\ c = [node |-> x[2].from, key |-> k,
                                subject |-> <<x[2].from, x[2].to, x[2].kind>>]
                         /\ Contested(Like(E, x[2]), k)

\* Each conflict of the graph is one over what the statements say.
ConflictsTold(conflicts, N, E) ==
    \A c : c \in conflicts <=> NodeConflict(N, c) \/ EdgeConflict(E, c)

\* The parts of the graph after a node.
LEMMA MergeNodeIs ==
    ASSUME NEW g, DOMAIN g = {"nodes", "edges", "capabilities", "conflicts"}, NEW p, NEW n,
           DOMAIN Before(g, n) = {"kind", "attrs", "expects", "blockers"}
    PROVE  LET h == SU!MergeNode(g, p, n) IN
           /\ DOMAIN h = DOMAIN g /\ h.edges = g.edges /\ h.capabilities = g.capabilities
           /\ DOMAIN h.nodes = DOMAIN g.nodes \cup {n.id}
           /\ \A id \in DOMAIN g.nodes : id # n.id => h.nodes[id] = g.nodes[id]
           /\ h.nodes[n.id] = Entry(Before(g, n), p, n)
           /\ \A c : c \in h.conflicts <=> \/ c \in g.conflicts
                                         \/ \E k \in Contradicted(Before(g, n), n) :
                                              c = [node |-> n.id, subject |-> n.id, key |-> k]
  BY DEF SU!MergeNode, Before, Entry, Contradicted, SU!Conflicts

\* One more statement about a node: the nodes it tells, and the conflicts.
LEMMA NodeTells ==
    ASSUME NEW g, DOMAIN g = {"nodes", "edges", "capabilities", "conflicts"},
           NEW N, NodesTold(g.nodes, N), NEW E, ConflictsTold(g.conflicts, N, E),
           NEW p, NEW n
    PROVE  LET h == SU!MergeNode(g, p, n)
               M == N \cup {<<p, n>>}
           IN /\ DOMAIN h = DOMAIN g /\ h.edges = g.edges /\ h.capabilities = g.capabilities
              /\ NodesTold(h.nodes, M)
              /\ ConflictsTold(h.conflicts, M, E)
<1> DEFINE h == SU!MergeNode(g, p, n)
           M == N \cup {<<p, n>>}
           old == Before(g, n)
           X == About(N, n.id)
<1>1. Met(old, X, n)
  BY BeforeTold
<1>2. DOMAIN old = {"kind", "attrs", "expects", "blockers"}
  BY <1>1 DEF Met, ListsTold
<1>3. /\ DOMAIN h = DOMAIN g /\ h.edges = g.edges /\ h.capabilities = g.capabilities
      /\ DOMAIN h.nodes = DOMAIN g.nodes \cup {n.id}
      /\ \A id \in DOMAIN g.nodes : id # n.id => h.nodes[id] = g.nodes[id]
      /\ h.nodes[n.id] = Entry(old, p, n)
      /\ \A c : c \in h.conflicts <=> \/ c \in g.conflicts
                                    \/ \E k \in Contradicted(old, n) :
                                         c = [node |-> n.id, subject |-> n.id, key |-> k]
  BY <1>2, MergeNodeIs
<1>4. About(M, n.id) = X \cup {<<p, n>>}
  BY DEF About
<1>5. \A id : id # n.id => About(M, id) = About(N, id)
  BY DEF About
<1> HIDE DEF h, M, old, X
<1>6. EntryTold(h.nodes[n.id], About(M, n.id))
  BY <1>1, <1>3, <1>4, EntryMerged
<1>7. NodesTold(h.nodes, M)
  <2>1. \A id : id \in DOMAIN h.nodes <=> About(M, id) # {}
    BY <1>3, <1>4, <1>5 DEF NodesTold
  <2>2. \A id \in DOMAIN h.nodes : EntryTold(h.nodes[id], About(M, id))
    BY <1>3, <1>5, <1>6 DEF NodesTold
  <2> QED
    BY <2>1, <2>2 DEF NodesTold
<1>8. \A k : Dispute(About(M, n.id), k) <=> Dispute(X, k) \/ k \in Contradicted(old, n)
  <2>1. \A k : Dispute(X \cup {<<p, n>>}, k) <=> Dispute(X, k) \/ k \in Contradicted(old, n)
    BY <1>1, EntryDisputes
  <2> QED
    BY <1>4, <2>1
<1>9. ASSUME NEW c
      PROVE  NodeConflict(M, c) <=> \/ NodeConflict(N, c)
                                    \/ \E k \in Contradicted(old, n) :
                                         c = [node |-> n.id, subject |-> n.id, key |-> k]
  <2>1. ASSUME NEW id, NEW k
        PROVE  Dispute(About(M, id), k)
                 <=> Dispute(About(N, id), k) \/ (id = n.id /\ k \in Contradicted(old, n))
    BY <1>5, <1>8 DEF X
  <2> QED
    BY <2>1 DEF NodeConflict
<1>10. ConflictsTold(h.conflicts, M, E)
  BY <1>3, <1>9 DEF ConflictsTold
<1> QED
  BY <1>3, <1>7, <1>10 DEF h, M

\* Each edge is what the statements like it amount to, and there is one.
EdgeTold(e, E) ==
    /\ DOMAIN e = {"from", "to", "kind", "attrs", "owner"}
    /\ Like(E, e) # {} /\ AttrsTold(e.attrs, Like(E, e))
EdgesTold(edges, E) ==
    /\ \A i \in DOMAIN edges : EdgeTold(edges[i], E)
    /\ \A x \in E : \E i \in DOMAIN edges : SameEnds(edges[i], x[2])
    /\ \A i, j \in DOMAIN edges : SameEnds(edges[i], edges[j]) => i = j

\* The graph's list of edges is one.
Listing(edges) == Len(edges) \in Nat /\ DOMAIN edges = 1..Len(edges) /\ \E S : edges \in Seq(S)

\* The edge that a first statement makes, and the edge it is merged into.
New(p, e) == [from |-> e.from, to |-> e.to, kind |-> e.kind,
              attrs |-> SU!NonNull(e.attrs), owner |-> p]
Richer(f, e) == [f EXCEPT !.attrs = SU!MergeAttrs(f.attrs, e.attrs)]
EdgeSubject(e, k) == [node |-> e.from, key |-> k, subject |-> <<e.from, e.to, e.kind>>]

\* The parts of the graph after an edge.
LEMMA MergeEdgeIs ==
    ASSUME NEW g, DOMAIN g = {"nodes", "edges", "capabilities", "conflicts"}, NEW p, NEW e,
           \A i \in DOMAIN g.edges : "attrs" \in DOMAIN g.edges[i]
    PROVE  LET h == SU!MergeEdge(g, p, e)
               same == {i \in DOMAIN g.edges : SameEnds(g.edges[i], e)}
           IN /\ DOMAIN h = DOMAIN g /\ h.nodes = g.nodes /\ h.capabilities = g.capabilities
              /\ same = {} => h.edges = Append(g.edges, New(p, e)) /\ h.conflicts = g.conflicts
              /\ same # {} =>
                   \E i \in same :
                     /\ DOMAIN h.edges = DOMAIN g.edges
                     /\ \A j \in DOMAIN g.edges : j # i => h.edges[j] = g.edges[j]
                     /\ h.edges[i] = Richer(g.edges[i], e)
                     /\ \A c : c \in h.conflicts <=> \/ c \in g.conflicts
                                                   \/ \E k \in SU!Clashes(g.edges[i].attrs, e.attrs) :
                                                        c = EdgeSubject(e, k)
<1> DEFINE h == SU!MergeEdge(g, p, e)
           same == {i \in DOMAIN g.edges : SameEnds(g.edges[i], e)}
           i == CHOOSE x \in same : TRUE
           raw == {x \in DOMAIN g.edges : /\ g.edges[x].from = e.from
                                          /\ g.edges[x].to = e.to
                                          /\ g.edges[x].kind = e.kind}
<1>0. raw = same
  BY DEF SameEnds
<1>1. h = IF raw = {}
          THEN [g EXCEPT !.edges = Append(@, New(p, e))]
          ELSE LET y == CHOOSE x \in raw : TRUE
               IN [g EXCEPT !.edges[y].attrs = SU!MergeAttrs(@, e.attrs),
                            !.conflicts = @ \cup SU!Conflicts(e.from, <<e.from, e.to, e.kind>>,
                                               SU!Clashes(g.edges[y].attrs, e.attrs))]
  BY DEF SU!MergeEdge, New
<1> HIDE DEF h, raw
<1>2. CASE same = {}
  BY <1>0, <1>1, <1>2 DEF h
<1>3. CASE same # {}
  <2>1. i \in same
    BY <1>3
  <2>2. h = [g EXCEPT !.edges[i].attrs = SU!MergeAttrs(@, e.attrs),
                      !.conflicts = @ \cup SU!Conflicts(e.from, <<e.from, e.to, e.kind>>,
                                         SU!Clashes(g.edges[i].attrs, e.attrs))]
    BY <1>0, <1>1, <1>3
  <2> HIDE DEF i
  <2>3. /\ DOMAIN h = DOMAIN g /\ h.nodes = g.nodes /\ h.capabilities = g.capabilities
        /\ h.edges = [g.edges EXCEPT ![i] = Richer(g.edges[i], e)]
        /\ h.conflicts = g.conflicts \cup SU!Conflicts(e.from, <<e.from, e.to, e.kind>>,
                                         SU!Clashes(g.edges[i].attrs, e.attrs))
    BY <2>1, <2>2 DEF Richer
  <2>4. \A c : c \in h.conflicts <=> \/ c \in g.conflicts
                                     \/ \E k \in SU!Clashes(g.edges[i].attrs, e.attrs) :
                                          c = EdgeSubject(e, k)
    BY <2>3 DEF SU!Conflicts, EdgeSubject
  <2>5. i \in DOMAIN g.edges
    BY <2>1
  <2>6. /\ DOMAIN h.edges = DOMAIN g.edges
        /\ \A j \in DOMAIN g.edges : j # i => h.edges[j] = g.edges[j]
        /\ h.edges[i] = Richer(g.edges[i], e)
    BY <2>3, <2>5
  <2> HIDE DEF same
  <2> QED
    BY <1>3, <2>1, <2>3, <2>4, <2>6 DEF h, same
<1> QED
  BY <1>2, <1>3

\* What is stated of an edge is stated of its ends and kind.
LEMMA SameLike ==
    ASSUME NEW E, NEW e, NEW f, SameEnds(e, f)
    PROVE  Like(E, e) = Like(E, f)
  BY DEF Like, SameEnds

\* A first statement of an edge contests nothing.
LEMMA NewEdgeContests ==
    ASSUME NEW edges, NEW E, EdgesTold(edges, E), NEW p, NEW e,
           \A i \in DOMAIN edges : ~SameEnds(edges[i], e)
    PROVE  /\ Like(E, e) = {}
           /\ \A c : EdgeConflict(E \cup {<<p, e>>}, c) <=> EdgeConflict(E, c)
<1> DEFINE F == E \cup {<<p, e>>}
<1>1. \A x \in E : ~SameEnds(x[2], e) /\ ~SameEnds(e, x[2])
  <2>1. SUFFICES ASSUME NEW x \in E PROVE ~SameEnds(x[2], e) /\ ~SameEnds(e, x[2])
    OBVIOUS
  <2>2. PICK i \in DOMAIN edges : SameEnds(edges[i], x[2])
    BY DEF EdgesTold
  <2> QED
    BY <2>2 DEF SameEnds
<1>2. Like(E, e) = {}
  BY <1>1 DEF Like
<1>3. \A x \in E : Like(F, x[2]) = Like(E, x[2])
  BY <1>1 DEF Like
<1>4. Like(F, e) = {<<p, e>>}
  <2>1. SameEnds(e, e)
    BY DEF SameEnds
  <2>2. Like(F, e) = Like(E, e) \cup {<<p, e>>}
    BY <2>1 DEF Like
  <2> QED
    BY <1>2, <2>2
<1>5. \A k : ~Contested(Like(F, e), k)
  BY <1>4, FirstAttrs
<1>6. <<p, e>>[2] = e /\ \A x : x \in F <=> x \in E \/ x = <<p, e>>
  OBVIOUS
<1> HIDE DEF F
<1>7. \A c : EdgeConflict(F, c) <=> EdgeConflict(E, c)
  BY <1>3, <1>5, <1>6 DEF EdgeConflict
<1> QED
  BY <1>2, <1>7 DEF F

\* A first statement of an edge appends it.
LEMMA NewEdgeTold ==
    ASSUME NEW edges, NEW E, EdgesTold(edges, E), Listing(edges), NEW p, NEW e,
           \A i \in DOMAIN edges : ~SameEnds(edges[i], e)
    PROVE  EdgesTold(Append(edges, New(p, e)), E \cup {<<p, e>>})
<1> DEFINE F == E \cup {<<p, e>>}
           new == New(p, e)
           after == Append(edges, new)
           n == Len(edges)
<1>1. PICK S : edges \in Seq(S)
  BY DEF Listing
<1>2. /\ after \in Seq(S \cup {new}) /\ Len(after) = n + 1 /\ n \in Nat /\ DOMAIN edges = 1..n
      /\ after[n + 1] = new /\ \A i \in 1..n : after[i] = edges[i]
  <2>1. n \in Nat /\ DOMAIN edges = 1..n
    BY DEF Listing
  <2>2. edges \in Seq(S \cup {new}) /\ new \in S \cup {new}
    BY <1>1
  <2> HIDE DEF new
  <2> QED
    BY <2>1, <2>2
<1>3. /\ new.from = e.from /\ new.to = e.to /\ new.kind = e.kind /\ new.attrs = SU!NonNull(e.attrs)
      /\ DOMAIN new = {"from", "to", "kind", "attrs", "owner"}
  BY DEF New
<1> HIDE DEF new, after, n
<1>4. Listing(after)
  BY <1>2 DEF Listing
<1>5. DOMAIN after = 1..(n + 1) /\ \A i \in 1..(n + 1) : i \in 1..n \/ i = n + 1
  BY <1>2, <1>4 DEF Listing
<1>6. SameEnds(e, new) /\ SameEnds(new, e)
  BY <1>3 DEF SameEnds
<1>7. Like(F, new) = {<<p, e>>}
  <2>1. Like(E, e) = {}
    BY NewEdgeContests
  <2>2. Like(E, e) = Like(E, new)
    BY <1>6, SameLike, Zenon
  <2>3. Like(F, new) = Like(E, new) \cup {<<p, e>>}
    BY <1>6 DEF Like
  <2> HIDE DEF F
  <2> QED
    BY <2>1, <2>2, <2>3
<1>8. EdgeTold(new, F)
  BY <1>3, <1>7, FirstAttrs DEF EdgeTold
<1>9. ASSUME NEW i \in 1..n PROVE EdgeTold(after[i], F) /\ ~SameEnds(after[i], new) /\ ~SameEnds(new, after[i])
  <2>1. after[i] = edges[i] /\ i \in DOMAIN edges
    BY <1>2
  <2>2. ~SameEnds(edges[i], e) /\ ~SameEnds(e, edges[i])
    BY <2>1 DEF SameEnds
  <2>3. Like(F, edges[i]) = Like(E, edges[i])
    BY <2>2 DEF Like
  <2> HIDE DEF F
  <2> QED
    BY <2>1, <2>2, <2>3, <1>3 DEF EdgesTold, EdgeTold, SameEnds
<1>10. \A i \in DOMAIN after : EdgeTold(after[i], F)
  BY <1>2, <1>5, <1>8, <1>9
<1>11. \A x \in F : \E i \in DOMAIN after : SameEnds(after[i], x[2])
  <2>1. ASSUME NEW x \in E PROVE \E i \in DOMAIN after : SameEnds(after[i], x[2])
    <3>1. PICK i \in DOMAIN edges : SameEnds(edges[i], x[2])
      BY DEF EdgesTold
    <3> QED
      BY <1>2, <1>5, <3>1
  <2>2. SameEnds(after[n + 1], <<p, e>>[2]) /\ n + 1 \in DOMAIN after
    BY <1>2, <1>5, <1>6
  <2> QED
    BY <2>1, <2>2
<1>12. \A i, j \in DOMAIN after : SameEnds(after[i], after[j]) => i = j
  BY <1>2, <1>5, <1>9 DEF EdgesTold
<1> QED
  BY <1>10, <1>11, <1>12 DEF EdgesTold, F, after, new

\* One more statement of an edge is merged into it...
LEMMA RicherTold ==
    ASSUME NEW edges, NEW E, EdgesTold(edges, E), NEW p, NEW e,
           NEW i \in DOMAIN edges, SameEnds(edges[i], e),
           NEW after, DOMAIN after = DOMAIN edges, after[i] = Richer(edges[i], e),
           \A j \in DOMAIN edges : j # i => after[j] = edges[j]
    PROVE  EdgesTold(after, E \cup {<<p, e>>})
<1> DEFINE F == E \cup {<<p, e>>}
<1>1. /\ EdgeTold(edges[i], E) /\ \A j \in DOMAIN edges : EdgeTold(edges[j], E)
      /\ \A j \in DOMAIN edges : SameEnds(edges[j], edges[i]) => j = i
  BY DEF EdgesTold
<1>2. /\ DOMAIN after[i] = DOMAIN edges[i] /\ SameEnds(after[i], edges[i])
      /\ after[i].attrs = SU!MergeAttrs(edges[i].attrs, e.attrs)
  BY <1>1 DEF Richer, EdgeTold, SameEnds
<1>3. \A j \in DOMAIN edges : SameEnds(after[j], edges[j])
  BY <1>2 DEF SameEnds
<1>4. EdgeTold(after[i], F)
  <2>1. Like(F, after[i]) = Like(E, edges[i]) \cup {<<p, e>>}
    <3>1. \A x : SameEnds(x[2], after[i]) <=> SameEnds(x[2], edges[i])
      BY <1>2 DEF SameEnds
    <3>2. SameEnds(e, edges[i])
      BY DEF SameEnds
    <3> QED
      BY <3>1, <3>2 DEF Like
  <2>2. AttrsTold(edges[i].attrs, Like(E, edges[i])) /\ DOMAIN edges[i] = {"from", "to", "kind", "attrs", "owner"}
    BY <1>1 DEF EdgeTold
  <2>3. AttrsTold(SU!MergeAttrs(edges[i].attrs, e.attrs), Like(E, edges[i]) \cup {<<p, e>>})
    BY <2>2, AttrsMerged
  <2> HIDE DEF F
  <2> QED
    BY <1>2, <2>1, <2>2, <2>3 DEF EdgeTold
<1>5. ASSUME NEW j \in DOMAIN edges, j # i PROVE EdgeTold(after[j], F)
  <2>1. ~SameEnds(e, edges[j])
    BY <1>1, <1>5 DEF SameEnds
  <2>2. Like(F, edges[j]) = Like(E, edges[j])
    BY <2>1 DEF Like
  <2> HIDE DEF F
  <2> QED
    BY <1>1, <1>5, <2>2 DEF EdgeTold
<1>6. \A x \in F : \E j \in DOMAIN after : SameEnds(after[j], x[2])
  <2>1. ASSUME NEW x \in E PROVE \E j \in DOMAIN after : SameEnds(after[j], x[2])
    <3>1. PICK j \in DOMAIN edges : SameEnds(edges[j], x[2])
      BY DEF EdgesTold
    <3> QED
      BY <1>3, <3>1 DEF SameEnds
  <2>2. SameEnds(after[i], <<p, e>>[2])
    BY <1>2 DEF SameEnds
  <2> QED
    BY <2>1, <2>2
<1>7. \A j, k \in DOMAIN after : SameEnds(after[j], after[k]) => j = k
  BY <1>3 DEF EdgesTold, SameEnds
<1> HIDE DEF F
<1>8. EdgesTold(after, F)
  BY <1>4, <1>5, <1>6, <1>7 DEF EdgesTold
<1> QED
  BY <1>8 DEF F

\* The statements with one more.
More(X, p, n) == X \cup {<<p, n>>}

\* ...and contests what it contradicts.
LEMMA RicherContests ==
    ASSUME NEW f, NEW E, EdgeTold(f, E), NEW p, NEW e, SameEnds(f, e)
    PROVE  \A c : EdgeConflict(More(E, p, e), c)
             <=> EdgeConflict(E, c) \/ \E k \in SU!Clashes(f.attrs, e.attrs) : c = EdgeSubject(e, k)
<1> DEFINE F == E \cup {<<p, e>>}
           X == Like(E, e)
           Y == Like(F, e)
<1>1. Y = X \cup {<<p, e>>}
  BY DEF Like, SameEnds
<1>2. X = Like(E, f) /\ X # {} /\ AttrsTold(f.attrs, X)
  <2>1. X = Like(E, f)
    BY DEF Like, SameEnds
  <2> HIDE DEF X
  <2> QED
    BY <2>1 DEF EdgeTold
<1>3. \A k : Contested(Y, k) <=> Contested(X, k) \/ k \in SU!Clashes(f.attrs, e.attrs)
  <2>1. \A k : Contested(X \cup {<<p, e>>}, k) <=> Contested(X, k) \/ k \in SU!Clashes(f.attrs, e.attrs)
    BY <1>2, Contests
  <2> QED
    BY <1>1, <2>1
<1>4. \A x \in F : SameEnds(x[2], e) => Like(F, x[2]) = Y /\ Like(E, x[2]) = X
  BY DEF Like, SameEnds
<1>5. \A x \in F : ~SameEnds(x[2], e) => x \in E /\ Like(F, x[2]) = Like(E, x[2])
  BY DEF Like, SameEnds
<1>6. \A x \in F : \A k : SameEnds(x[2], e) => EdgeSubject(x[2], k) = EdgeSubject(e, k)
  BY DEF EdgeSubject, SameEnds
<1>7. <<p, e>> \in F /\ SameEnds(<<p, e>>[2], e) /\ E \subseteq F
  BY DEF SameEnds
<1>8. \E x \in E : SameEnds(x[2], e)
  BY <1>2 DEF Like
<1> HIDE DEF F, X, Y
<1>9. \A G, c : EdgeConflict(G, c) <=> \E x \in G : \E k : c = EdgeSubject(x[2], k) /\ Contested(Like(G, x[2]), k)
  BY DEF EdgeConflict, EdgeSubject
<1>10. ASSUME NEW c, EdgeConflict(F, c)
       PROVE  EdgeConflict(E, c) \/ \E k \in SU!Clashes(f.attrs, e.attrs) : c = EdgeSubject(e, k)
  <2>1. PICK x \in F : \E k : c = EdgeSubject(x[2], k) /\ Contested(Like(F, x[2]), k)
    BY <1>9, <1>10
  <2>2. PICK k : c = EdgeSubject(x[2], k) /\ Contested(Like(F, x[2]), k)
    BY <2>1
  <2>3. CASE SameEnds(x[2], e)
    <3>1. PICK z \in E : SameEnds(z[2], e)
      BY <1>8
    <3>2. c = EdgeSubject(z[2], k) /\ c = EdgeSubject(e, k) /\ Like(E, z[2]) = X
      BY <1>4, <1>6, <1>7, <2>2, <2>3, <3>1
    <3>3. Contested(X, k) \/ k \in SU!Clashes(f.attrs, e.attrs)
      BY <1>3, <1>4, <2>2, <2>3
    <3> QED
      BY <1>9, <3>2, <3>3
  <2>4. CASE ~SameEnds(x[2], e)
    BY <1>5, <1>9, <2>2, <2>4
  <2> QED
    BY <2>3, <2>4
<1>11. ASSUME NEW c, EdgeConflict(E, c) PROVE EdgeConflict(F, c)
  <2>1. PICK x \in E : \E k : c = EdgeSubject(x[2], k) /\ Contested(Like(E, x[2]), k)
    BY <1>9, <1>11
  <2>2. PICK k : c = EdgeSubject(x[2], k) /\ Contested(Like(E, x[2]), k)
    BY <2>1
  <2>3. x \in F /\ Contested(Like(F, x[2]), k)
    BY <1>3, <1>4, <1>5, <1>7, <2>2
  <2> QED
    BY <1>9, <2>2, <2>3
<1>12. ASSUME NEW c, NEW k \in SU!Clashes(f.attrs, e.attrs), c = EdgeSubject(e, k) PROVE EdgeConflict(F, c)
  <2> DEFINE x == <<p, e>>
  <2>1. x \in F /\ x[2] = e /\ Like(F, e) = Y
    BY <1>7 DEF Y
  <2> HIDE DEF x
  <2> QED
    BY <1>3, <1>9, <1>12, <2>1
<1> QED
  BY <1>10, <1>11, <1>12 DEF F, More

\* The graph is what the statements amount to: N about nodes, E about edges,
\* and the rows C of capabilities, each with its producer.
GraphTold(g, N, E, C) ==
    /\ DOMAIN g = {"nodes", "edges", "capabilities", "conflicts"}
    /\ NodesTold(g.nodes, N)
    /\ EdgesTold(g.edges, E)
    /\ g.capabilities = C
    /\ ConflictsTold(g.conflicts, N, E)

\* Merging a node adds its statement...
LEMMA NodeAdds ==
    ASSUME NEW g, NEW N, NEW E, NEW C, GraphTold(g, N, E, C), NEW p, NEW n
    PROVE  GraphTold(SU!MergeNode(g, p, n), N \cup {<<p, n>>}, E, C)
<1> DEFINE h == SU!MergeNode(g, p, n)
           M == N \cup {<<p, n>>}
<1>1. /\ DOMAIN h = DOMAIN g /\ h.edges = g.edges /\ h.capabilities = g.capabilities
      /\ NodesTold(h.nodes, M)
      /\ ConflictsTold(h.conflicts, M, E)
  BY NodeTells DEF GraphTold
<1> HIDE DEF h, M
<1>2. GraphTold(h, M, E, C)
  BY <1>1 DEF GraphTold
<1> QED
  BY <1>2 DEF h, M

\* ...and so does merging an edge.
LEMMA EdgeAdds ==
    ASSUME NEW g, NEW N, NEW E, NEW C, GraphTold(g, N, E, C), GraphSound(g), NEW p, NEW e
    PROVE  GraphTold(SU!MergeEdge(g, p, e), N, E \cup {<<p, e>>}, C)
<1> DEFINE h == SU!MergeEdge(g, p, e)
           F == E \cup {<<p, e>>}
           same == {i \in DOMAIN g.edges : SameEnds(g.edges[i], e)}
<1>1. \A i \in DOMAIN g.edges : EdgeTold(g.edges[i], E) /\ "attrs" \in DOMAIN g.edges[i]
  BY DEF GraphTold, EdgesTold, EdgeTold
<1>2. /\ DOMAIN h = DOMAIN g /\ h.nodes = g.nodes /\ h.capabilities = g.capabilities
      /\ same = {} => h.edges = Append(g.edges, New(p, e)) /\ h.conflicts = g.conflicts
      /\ same # {} =>
           \E i \in same :
             /\ DOMAIN h.edges = DOMAIN g.edges
             /\ \A j \in DOMAIN g.edges : j # i => h.edges[j] = g.edges[j]
             /\ h.edges[i] = Richer(g.edges[i], e)
             /\ \A c : c \in h.conflicts <=> \/ c \in g.conflicts
                                           \/ \E k \in SU!Clashes(g.edges[i].attrs, e.attrs) :
                                                c = EdgeSubject(e, k)
  <2>1. DOMAIN g = {"nodes", "edges", "capabilities", "conflicts"}
    BY DEF GraphTold
  <2>2. \A i \in DOMAIN g.edges : "attrs" \in DOMAIN g.edges[i]
    BY <1>1
  <2> QED
    BY <2>1, <2>2, MergeEdgeIs
<1>3. Listing(g.edges) /\ EdgesTold(g.edges, E) /\ ConflictsTold(g.conflicts, N, E)
  BY DEF GraphTold, GraphSound, Walkable, Listing
<1> HIDE DEF h, F
<1>4. EdgesTold(h.edges, F) /\ ConflictsTold(h.conflicts, N, F)
  <2>1. CASE same = {}
    <3>1. \A i \in DOMAIN g.edges : ~SameEnds(g.edges[i], e)
      BY <2>1
    <3>2. EdgesTold(Append(g.edges, New(p, e)), F)
      BY <1>3, <3>1, NewEdgeTold DEF F
    <3>3. \A c : EdgeConflict(F, c) <=> EdgeConflict(E, c)
      BY <1>3, <3>1, NewEdgeContests DEF F
    <3> QED
      BY <1>2, <1>3, <2>1, <3>2, <3>3 DEF ConflictsTold
  <2>2. CASE same # {}
    <3>1. PICK i \in same :
             /\ DOMAIN h.edges = DOMAIN g.edges
             /\ \A j \in DOMAIN g.edges : j # i => h.edges[j] = g.edges[j]
             /\ h.edges[i] = Richer(g.edges[i], e)
             /\ \A c : c \in h.conflicts <=> \/ c \in g.conflicts
                                           \/ \E k \in SU!Clashes(g.edges[i].attrs, e.attrs) :
                                                c = EdgeSubject(e, k)
      BY <1>2, <2>2
    <3>2. i \in DOMAIN g.edges /\ SameEnds(g.edges[i], e) /\ EdgeTold(g.edges[i], E)
      BY <1>1
    <3>3. EdgesTold(h.edges, F)
      BY <1>3, <3>1, <3>2, RicherTold DEF F
    <3>4. \A c : EdgeConflict(F, c)
             <=> EdgeConflict(E, c) \/ \E k \in SU!Clashes(g.edges[i].attrs, e.attrs) : c = EdgeSubject(e, k)
      <4>1. \A c : EdgeConflict(More(E, p, e), c)
               <=> EdgeConflict(E, c) \/ \E k \in SU!Clashes(g.edges[i].attrs, e.attrs) : c = EdgeSubject(e, k)
        BY <3>2, RicherContests
      <4> QED
        BY <4>1 DEF F, More
    <3> QED
      BY <1>3, <3>1, <3>3, <3>4 DEF ConflictsTold
  <2> QED
    BY <2>1, <2>2
<1>5. GraphTold(h, N, F, C)
  BY <1>2, <1>4 DEF GraphTold
<1> QED
  BY <1>5 DEF h, F

\* What a document states.
DocNodes(doc) == {<<doc.producer, doc.nodes[m]>> : m \in DOMAIN doc.nodes}
DocEdges(doc) == {<<doc.producer, doc.edges[m]>> : m \in DOMAIN doc.edges}
DocRows(doc) == {[producer |-> doc.producer, row |-> r] : r \in doc.capabilities}

\* What its first m nodes, and its first m edges, state.
SomeNodes(doc, m) == {<<doc.producer, doc.nodes[i]>> : i \in 1..m}
SomeEdges(doc, m) == {<<doc.producer, doc.edges[i]>> : i \in 1..m}

\* A document is merged by merging what it states.
LEMMA MergeTold ==
    ASSUME NEW g, GraphSound(g), NEW N, NEW E, NEW C, GraphTold(g, N, E, C),
           NEW doc, Len(doc.nodes) \in Nat, DOMAIN doc.nodes = 1..Len(doc.nodes),
           Len(doc.edges) \in Nat, DOMAIN doc.edges = 1..Len(doc.edges)
    PROVE  GraphTold(SU!Merge(g, doc), N \cup DocNodes(doc), E \cup DocEdges(doc), C \cup DocRows(doc))
<1> DEFINE nodes == Len(doc.nodes)
           edges == Len(doc.edges)
           Noded(i) == SU!Noded(g, doc)[i]
           h == Noded(nodes)
           Edged(i) == SU!Edged(h, doc)[i]
           M(i) == N \cup SomeNodes(doc, i)
           F(i) == E \cup SomeEdges(doc, i)
           NI == {i \in Nat : i <= nodes => GraphSound(Noded(i)) /\ GraphTold(Noded(i), M(i), E, C)}
           EI == {i \in Nat : i <= edges => GraphSound(Edged(i)) /\ GraphTold(Edged(i), M(nodes), F(i), C)}
<1>1. GraphSound(h) /\ GraphTold(h, M(nodes), E, C)
  <2>1. 0 \in NI
    <3>1. M(0) = N
      BY DEF SomeNodes
    <3>2. Noded(0) = g
      BY NodedIs
    <3> HIDE DEF M, Noded
    <3> QED
      BY <3>1, <3>2
  <2>2. ASSUME NEW i \in NI, i + 1 <= nodes
        PROVE  GraphSound(Noded(i + 1)) /\ GraphTold(Noded(i + 1), M(i + 1), E, C)
    <3>1. i \in Nat /\ i <= nodes /\ i + 1 \in 1..nodes /\ (i + 1) - 1 = i
      BY <2>2
    <3>2. GraphSound(Noded(i)) /\ GraphTold(Noded(i), M(i), E, C)
      BY <2>2, <3>1
    <3>3. Noded(i + 1) = SU!MergeNode(Noded(i), doc.producer, doc.nodes[i + 1])
      BY <3>1, NodedIs
    <3>4. M(i + 1) = M(i) \cup {<<doc.producer, doc.nodes[i + 1]>>}
      BY <3>1 DEF SomeNodes
    <3> HIDE DEF Noded, M
    <3> QED
      BY <3>2, <3>3, <3>4, NodeSound, NodeAdds
  <2>3. NI = Nat
    <3> HIDE DEF nodes, M, Noded
    <3>1. \A i \in NI : i + 1 \in NI
      BY <2>2
    <3> HIDE DEF NI
    <3>2. NI \in SUBSET Nat
      BY DEF NI
    <3> QED
      BY <2>1, <3>1, <3>2, Upwards
  <2> HIDE DEF M, Noded
  <2> QED
    BY <2>3
<1> HIDE DEF h
<1>2. GraphSound(Edged(edges)) /\ GraphTold(Edged(edges), M(nodes), F(edges), C)
  <2> HIDE DEF M, nodes
  <2>1. 0 \in EI
    <3>1. F(0) = E
      BY DEF SomeEdges
    <3>2. Edged(0) = h
      BY EdgedIs
    <3> HIDE DEF F, Edged
    <3> QED
      BY <1>1, <3>1, <3>2
  <2>2. ASSUME NEW i \in EI, i + 1 <= edges
        PROVE  GraphSound(Edged(i + 1)) /\ GraphTold(Edged(i + 1), M(nodes), F(i + 1), C)
    <3>1. i \in Nat /\ i <= edges /\ i + 1 \in 1..edges /\ (i + 1) - 1 = i
      BY <2>2
    <3>2. GraphSound(Edged(i)) /\ GraphTold(Edged(i), M(nodes), F(i), C)
      BY <2>2, <3>1
    <3>3. Edged(i + 1) = SU!MergeEdge(Edged(i), doc.producer, doc.edges[i + 1])
      BY <3>1, EdgedIs
    <3>4. F(i + 1) = F(i) \cup {<<doc.producer, doc.edges[i + 1]>>}
      BY <3>1 DEF SomeEdges
    <3> HIDE DEF Edged, F
    <3> QED
      BY <3>2, <3>3, <3>4, EdgeSound, EdgeAdds
  <2>3. EI = Nat
    <3> HIDE DEF edges, F, Edged
    <3>1. \A i \in EI : i + 1 \in EI
      BY <2>2
    <3> HIDE DEF EI
    <3>2. EI \in SUBSET Nat
      BY DEF EI
    <3> QED
      BY <2>1, <3>1, <3>2, Upwards
  <2> HIDE DEF F, Edged
  <2> QED
    BY <2>3
<1> DEFINE k == SU!Merge(g, doc)
           l == Edged(edges)
<1>3. /\ DOMAIN k = DOMAIN l /\ k.nodes = l.nodes /\ k.edges = l.edges /\ k.conflicts = l.conflicts
      /\ k.capabilities = l.capabilities \cup DocRows(doc)
  <2>1. DOMAIN l = {"nodes", "edges", "capabilities", "conflicts"}
    BY <1>2 DEF GraphTold
  <2>2. k = [l EXCEPT !.capabilities = @ \cup DocRows(doc)]
    BY DEF SU!Merge, DocRows, h
  <2> HIDE DEF k, l
  <2> QED
    BY <2>1, <2>2
<1>4. M(nodes) = N \cup DocNodes(doc) /\ F(edges) = E \cup DocEdges(doc)
  BY DEF SomeNodes, SomeEdges, DocNodes, DocEdges
<1> HIDE DEF k, l, M, F
<1>5. GraphTold(k, M(nodes), F(edges), C \cup DocRows(doc))
  BY <1>2, <1>3 DEF GraphTold, l
<1> QED
  BY <1>4, <1>5 DEF k

\* The graph is what the documents D state.
Told(g, D) ==
    GraphTold(g, UNION {DocNodes(d) : d \in D}, UNION {DocEdges(d) : d \in D},
              UNION {DocRows(d) : d \in D})

\* The documents of a list.
Members(s) == {s[i] : i \in DOMAIN s}

\* No document states nothing.
LEMMA EmptyTold == GraphSound(SU!EmptyGraph) /\ Told(SU!EmptyGraph, {})
<1> DEFINE g == SU!EmptyGraph
<1>1. /\ DOMAIN g = {"nodes", "edges", "capabilities", "conflicts"}
      /\ g.nodes = [i \in {} |-> Null] /\ g.edges = <<>> /\ g.capabilities = {} /\ g.conflicts = {}
  BY DEF SU!EmptyGraph
<1> HIDE DEF g
<1>2. SU!Ids(g) = {}
  BY <1>1 DEF SU!Ids
<1>3. GraphSound(g)
  BY <1>1, <1>2, FS_EmptySet DEF GraphSound, NoNulls, Walkable
<1>4. NodesTold(g.nodes, {}) /\ EdgesTold(g.edges, {}) /\ ConflictsTold(g.conflicts, {}, {})
  <2>1. \A id : About({}, id) = {}
    BY DEF About
  <2>2. \A id, k : ~Dispute(About({}, id), k)
    BY <2>1, NothingTold DEF Dispute, TwoKinds
  <2>3. \A c : ~NodeConflict({}, c) /\ ~EdgeConflict({}, c)
    BY <2>2 DEF NodeConflict, EdgeConflict
  <2> QED
    BY <1>1, <2>1, <2>3 DEF NodesTold, EdgesTold, ConflictsTold
<1>5. GraphTold(g, {}, {}, {})
  BY <1>1, <1>4 DEF GraphTold
<1>6. /\ UNION {DocNodes(d) : d \in {}} = {} /\ UNION {DocEdges(d) : d \in {}} = {}
      /\ UNION {DocRows(d) : d \in {}} = {}
  OBVIOUS
<1> QED
  BY <1>3, <1>5, <1>6 DEF Told, g

\* One more document states what it states.
LEMMA DocumentTold ==
    ASSUME SU!ConstantsSound, NEW g, NEW D, GraphSound(g), Told(g, D), NEW doc \in Documents
    PROVE  GraphSound(SU!Merge(g, doc)) /\ Told(SU!Merge(g, doc), D \cup {doc})
<1>1. /\ Len(doc.nodes) \in Nat /\ DOMAIN doc.nodes = 1..Len(doc.nodes)
      /\ Len(doc.edges) \in Nat /\ DOMAIN doc.edges = 1..Len(doc.edges)
  BY DEF SU!ConstantsSound
<1>2. GraphSound(SU!Merge(g, doc))
  BY <1>1, MergeSound
<1> DEFINE N == UNION {DocNodes(d) : d \in D}
           E == UNION {DocEdges(d) : d \in D}
           C == UNION {DocRows(d) : d \in D}
<1>3. /\ UNION {DocNodes(d) : d \in D \cup {doc}} = N \cup DocNodes(doc)
      /\ UNION {DocEdges(d) : d \in D \cup {doc}} = E \cup DocEdges(doc)
      /\ UNION {DocRows(d) : d \in D \cup {doc}} = C \cup DocRows(doc)
  OBVIOUS
<1>4. GraphTold(g, N, E, C)
  BY DEF Told
<1> HIDE DEF N, E, C
<1>5. GraphTold(SU!Merge(g, doc), N \cup DocNodes(doc), E \cup DocEdges(doc), C \cup DocRows(doc))
  BY <1>1, <1>4, MergeTold
<1> QED
  BY <1>2, <1>3, <1>5 DEF Told

\* Building is a function of the number of documents.
LEMMA BuiltIs ==
    ASSUME NEW s, Len(s) \in Nat
    PROVE  /\ SU!Built(s)[0] = SU!EmptyGraph
           /\ \A i \in 1..Len(s) : SU!Built(s)[i] = SU!Merge(SU!Built(s)[i - 1], s[i])
<1> DEFINE First == SU!EmptyGraph
           Turn(x, i) == SU!Merge(x, s[i])
           Is(f, m) == f = [i \in 0..m |-> IF i = 0 THEN First ELSE Turn(f[i - 1], i)]
           Some == {m \in Nat : \E f : Is(f, m)}
<1> HIDE DEF Turn, First
<1>1. 0 \in Some
  <2>1. Is([i \in 0..0 |-> First], 0)
    OBVIOUS
  <2> QED
    BY <2>1
<1>2. ASSUME NEW m \in Some PROVE m + 1 \in Some
  <2>1. PICK f : Is(f, m)
    BY <1>2
  <2>2. m \in Nat /\ m + 1 \in Nat
    OBVIOUS
  <2> DEFINE h == [i \in 0..(m + 1) |-> IF i <= m THEN f[i] ELSE Turn(f[m], i)]
  <2>3. ASSUME NEW i \in 0..(m + 1)
        PROVE  h[i] = IF i = 0 THEN First ELSE Turn(h[i - 1], i)
    <3>1. CASE i = 0
      BY <2>1, <2>2, <3>1
    <3>2. CASE i # 0 /\ i <= m
      BY <2>1, <2>2, <3>2
    <3>3. CASE i = m + 1
      BY <2>2, <3>3
    <3> QED
      BY <2>2, <3>1, <3>2, <3>3
  <2>4. Is(h, m + 1)
    BY <2>3
  <2>5. \E f2 : Is(f2, m + 1)
    BY <2>4
  <2> HIDE DEF Is
  <2> QED
    BY <2>2, <2>5
<1>3. \E f : Is(f, Len(s))
  <2> HIDE DEF Is
  <2>1. Some = Nat
    BY <1>1, <1>2, Upwards
  <2> QED
    BY <2>1
<1>4. Is(SU!Built(s), Len(s))
  BY <1>3 DEF SU!Built, Turn, First
<1>5. SU!Built(s)[0] = First
  BY <1>4
<1>6. ASSUME NEW i \in 1..Len(s)
      PROVE  SU!Built(s)[i] = Turn(SU!Built(s)[i - 1], i)
  BY <1>4
<1> QED
  BY <1>5, <1>6 DEF Turn, First

\* A graph that is built is what its documents state.
LEMMA BuildTold ==
    ASSUME SU!ConstantsSound, NEW s \in Seq(Documents)
    PROVE  GraphSound(SU!Build(s)) /\ Told(SU!Build(s), Members(s))
<1> DEFINE n == Len(s)
           At(i) == SU!Built(s)[i]
           D(i) == {s[j] : j \in 1..i}
           I == {i \in Nat : i <= n => GraphSound(At(i)) /\ Told(At(i), D(i))}
<1>1. n \in Nat /\ DOMAIN s = 1..n /\ \A i \in 1..n : s[i] \in Documents
  OBVIOUS
<1>2. 0 \in I
  <2>1. At(0) = SU!EmptyGraph
    BY <1>1, BuiltIs
  <2>2. D(0) = {}
    OBVIOUS
  <2> HIDE DEF At, D
  <2> QED
    BY <2>1, <2>2, EmptyTold
<1>3. ASSUME NEW i \in I, i + 1 <= n PROVE GraphSound(At(i + 1)) /\ Told(At(i + 1), D(i + 1))
  <2>1. i \in Nat /\ i <= n /\ i + 1 \in 1..n /\ (i + 1) - 1 = i
    BY <1>1, <1>3
  <2>2. GraphSound(At(i)) /\ Told(At(i), D(i))
    BY <1>3, <2>1
  <2>3. At(i + 1) = SU!Merge(At(i), s[i + 1])
    BY <1>1, <2>1, BuiltIs
  <2>4. D(i + 1) = D(i) \cup {s[i + 1]} /\ s[i + 1] \in Documents
    BY <1>1, <2>1
  <2> HIDE DEF At, D
  <2> QED
    BY <2>2, <2>3, <2>4, DocumentTold
<1>4. I = Nat
  <2> HIDE DEF n, At, D
  <2>1. \A i \in I : i + 1 \in I
    BY <1>3
  <2> HIDE DEF I
  <2>2. I \in SUBSET Nat
    BY DEF I
  <2> QED
    BY <1>2, <2>1, <2>2, Upwards
<1>5. D(n) = Members(s) /\ At(n) = SU!Build(s)
  BY DEF Members, SU!Build
<1> HIDE DEF D, At
<1>6. GraphSound(At(n)) /\ Told(At(n), D(n))
  BY <1>1, <1>4
<1> QED
  BY <1>5, <1>6

\* The inductive invariant of Supply: the graph is sound, and what the documents
\* read so far state.
GraphInv == documents \in Seq(Documents) /\ GraphSound(graph) /\ Told(graph, Members(documents))

\* However documents are merged, the invariant holds.
LEMMA GraphInvariant == ASSUME SU!ConstantsSound PROVE SU!Spec => []GraphInv
<1>1. SU!Init => GraphInv
  <2> SUFFICES ASSUME SU!Init PROVE GraphInv
    OBVIOUS
  <2>1. documents = <<>> /\ graph = SU!EmptyGraph
    BY DEF SU!Init
  <2>2. Members(documents) = {} /\ documents \in Seq(Documents)
    BY <2>1 DEF Members
  <2>3. GraphSound(graph) /\ Told(graph, Members(documents))
    BY <2>1, <2>2, EmptyTold
  <2> QED
    BY <2>2, <2>3 DEF GraphInv
<1>2. ASSUME GraphInv, [SU!Next]_SU!vars PROVE GraphInv'
  <2>1. CASE UNCHANGED SU!vars
    BY <1>2, <2>1 DEF SU!vars, GraphInv
  <2>2. ASSUME NEW doc \in Documents, SU!Read(doc) PROVE GraphInv'
    <3>1. GraphSound(SU!Merge(graph, doc)) /\ Told(SU!Merge(graph, doc), Members(documents) \cup {doc})
      BY <1>2, DocumentTold DEF GraphInv
    <3>2. documents' = Append(documents, doc) /\ graph' = SU!Merge(graph, doc)
      BY <2>2 DEF SU!Read
    <3>3. documents' \in Seq(Documents) /\ Members(documents') = Members(documents) \cup {doc}
      <4>1. /\ documents \in Seq(Documents) /\ Len(documents) \in Nat
            /\ DOMAIN documents = 1..Len(documents)
        BY <1>2 DEF GraphInv
      <4>2. /\ documents' \in Seq(Documents) /\ DOMAIN documents' = 1..(Len(documents) + 1)
            /\ documents'[Len(documents) + 1] = doc
            /\ \A i \in 1..Len(documents) : documents'[i] = documents[i]
        BY <3>2, <4>1
      <4> QED
        BY <4>1, <4>2 DEF Members
    <3> QED
      BY <3>1, <3>2, <3>3 DEF GraphInv
  <2> QED
    BY <1>2, <2>1, <2>2 DEF SU!Next
<1> QED
  BY <1>1, <1>2, PTL DEF SU!Spec

\* The other order has the same documents.
LEMMA SameMembers ==
    ASSUME NEW s \in Seq(Documents)
    PROVE  SU!Reverse(s) \in Seq(Documents) /\ Members(SU!Reverse(s)) = Members(s)
<1> DEFINE n == Len(s)
           r == SU!Reverse(s)
<1>1. n \in Nat /\ DOMAIN s = 1..n /\ \A i \in 1..n : s[i] \in Documents
  OBVIOUS
<1>2. r = [i \in 1..n |-> s[(n - i) + 1]]
  BY DEF SU!Reverse
<1> HIDE DEF n, r
<1>3. \A i \in 1..n : (n - i) + 1 \in 1..n /\ (n - ((n - i) + 1)) + 1 = i
  BY <1>1
<1>4. r \in Seq(Documents) /\ DOMAIN r = 1..n
  BY <1>1, <1>2, <1>3
<1>5. \A i \in 1..n : r[i] = s[(n - i) + 1]
  BY <1>2
<1>6. ASSUME NEW i \in 1..n PROVE r[i] \in Members(s) /\ s[i] \in Members(r)
  <2>1. PICK j \in 1..n : j = (n - i) + 1
    BY <1>3
  <2>2. (n - j) + 1 = i /\ r[i] = s[j] /\ r[j] = s[i]
    BY <1>1, <1>5, <2>1
  <2> QED
    BY <1>1, <1>4, <2>1, <2>2 DEF Members
<1>7. Members(r) = Members(s)
  BY <1>1, <1>4, <1>6 DEF Members
<1> QED
  BY <1>4, <1>7 DEF r

\* However documents are merged, no attribute of a node is null (supply.rs,
\* merge_attrs).
THEOREM SupplyTyped == ASSUME SU!ConstantsSound PROVE SU!Spec => []SU!TypeOK
<1>1. GraphInv => SU!TypeOK
  BY DEF GraphInv, GraphSound, NoNulls, SU!TypeOK
<1> QED
  BY <1>1, GraphInvariant, PTL

-----------------------------------------------------------------------------
(* The reports of a supply graph.                                          *)

\* Nothing is in conflict at the node.
Settled(g, id) == \A c \in g.conflicts : c.node # id

\* The same attributes, or if nothing is in conflict the same values.
AttrsAlike(a, b, settled) == DOMAIN a = DOMAIN b /\ (settled => \A k \in DOMAIN a : a[k] = b[k])

\* Two graphs that differ in values in conflict, in the order of edges, and in
\* whom they name for an edge or an expectation, if at all.
NodesAlike(m, n, settled) ==
    /\ AttrsAlike(m.attrs, n.attrs, settled)
    /\ settled => m.kind = n.kind
    /\ m.blockers = n.blockers
    /\ \A v : (\E c \in m.expects : c.value = v) <=> (\E c \in n.expects : c.value = v)
EdgesAlike(e, f, settled) == SameEnds(e, f) /\ AttrsAlike(e.attrs, f.attrs, settled)
EdgesFound(g, h) ==
    \A i \in DOMAIN g.edges : \E j \in DOMAIN h.edges :
        EdgesAlike(g.edges[i], h.edges[j], Settled(g, g.edges[i].from))
Alike(g, h) ==
    /\ g.conflicts = h.conflicts /\ g.capabilities = h.capabilities
    /\ DOMAIN g.nodes = DOMAIN h.nodes
    /\ \A id \in DOMAIN g.nodes : NodesAlike(g.nodes[id], h.nodes[id], Settled(g, id))
    /\ EdgesFound(g, h) /\ EdgesFound(h, g)

\* What is not contested has one value.
LEMMA AttrsAgree ==
    ASSUME NEW a, NEW b, NEW X, AttrsTold(a, X), AttrsTold(b, X), NEW settled,
           settled => \A k : ~Contested(X, k)
    PROVE  AttrsAlike(a, b, settled)
<1>1. \A k : k \in DOMAIN a <=> k \in DOMAIN b
  BY DEF AttrsTold
<1>2. DOMAIN a = DOMAIN b
  BY <1>1
<1>3. ASSUME settled, NEW k \in DOMAIN a PROVE a[k] = b[k]
  BY <1>2, <1>3 DEF AttrsTold, Contested
<1> QED
  BY <1>2, <1>3 DEF AttrsAlike

\* The same statements: the same conflicts...
LEMMA SameConflicts ==
    ASSUME NEW g, NEW h, NEW N, NEW E, NEW C, GraphTold(g, N, E, C), GraphTold(h, N, E, C)
    PROVE  g.conflicts = h.conflicts
<1>1. \A c : c \in g.conflicts <=> c \in h.conflicts
  BY DEF GraphTold, ConflictsTold
<1> QED
  BY <1>1

\* ...nodes...
LEMMA SameNodes ==
    ASSUME NEW g, NEW h, NEW N, NEW E, NEW C, GraphTold(g, N, E, C), GraphTold(h, N, E, C)
    PROVE  /\ DOMAIN g.nodes = DOMAIN h.nodes
           /\ \A id \in DOMAIN g.nodes : NodesAlike(g.nodes[id], h.nodes[id], Settled(g, id))
<1>1. NodesTold(g.nodes, N) /\ NodesTold(h.nodes, N) /\ ConflictsTold(g.conflicts, N, E)
  BY DEF GraphTold
<1>2. DOMAIN g.nodes = DOMAIN h.nodes
  <2>1. \A id : id \in DOMAIN g.nodes <=> id \in DOMAIN h.nodes
    BY <1>1 DEF NodesTold
  <2> QED
    BY <2>1
<1>3. ASSUME NEW id \in DOMAIN g.nodes
      PROVE  NodesAlike(g.nodes[id], h.nodes[id], Settled(g, id))
  <2> DEFINE m == g.nodes[id]
             n == h.nodes[id]
             X == About(N, id)
  <2>1. EntryTold(m, X) /\ EntryTold(n, X)
    BY <1>1, <1>2 DEF NodesTold
  <2>2. ASSUME Settled(g, id), NEW k PROVE ~Dispute(X, k)
    <3>1. SUFFICES ASSUME Dispute(X, k) PROVE FALSE
      OBVIOUS
    <3> DEFINE c == [node |-> id, subject |-> id, key |-> k]
    <3>2. NodeConflict(N, c)
      BY <3>1 DEF NodeConflict
    <3>3. c \in g.conflicts /\ c.node = id
      BY <1>1, <3>2 DEF ConflictsTold
    <3> QED
      BY <2>2, <3>3 DEF Settled
  <2> HIDE DEF m, n, X
  <2>3. AttrsAlike(m.attrs, n.attrs, Settled(g, id))
    BY <2>1, <2>2, AttrsAgree DEF EntryTold, ListsTold, Dispute
  <2>4. ASSUME Settled(g, id) PROVE m.kind = n.kind
    <3>1. ~Dispute(X, "(kind)")
      BY <2>2, <2>4
    <3> QED
      BY <2>1, <3>1 DEF EntryTold, KindTold, Dispute, TwoKinds
  <2>5. m.blockers = n.blockers
    <3>1. \A c : c \in m.blockers <=> c \in n.blockers
      BY <2>1 DEF EntryTold, ListsTold
    <3> QED
      BY <3>1
  <2>6. \A v : (\E c \in m.expects : c.value = v) <=> (\E c \in n.expects : c.value = v)
    BY <2>1 DEF EntryTold, ListsTold
  <2>7. NodesAlike(m, n, Settled(g, id))
    BY <2>3, <2>4, <2>5, <2>6 DEF NodesAlike
  <2> QED
    BY <2>7 DEF m, n
<1> QED
  BY <1>2, <1>3

\* ...and edges.
LEMMA SameEdges ==
    ASSUME NEW g, NEW h, NEW N, NEW E, NEW C, GraphTold(g, N, E, C), GraphTold(h, N, E, C)
    PROVE  EdgesFound(g, h)
<1> SUFFICES ASSUME NEW i \in DOMAIN g.edges
             PROVE  \E j \in DOMAIN h.edges :
                        EdgesAlike(g.edges[i], h.edges[j], Settled(g, g.edges[i].from))
  BY DEF EdgesFound
<1> DEFINE e == g.edges[i]
           X == Like(E, e)
<1>1. EdgeTold(e, E) /\ EdgesTold(h.edges, E) /\ ConflictsTold(g.conflicts, N, E)
  BY DEF GraphTold, EdgesTold
<1>2. PICK x \in X : TRUE
  BY <1>1 DEF EdgeTold
<1>3. x \in E /\ SameEnds(x[2], e)
  BY DEF Like
<1>4. PICK j \in DOMAIN h.edges : SameEnds(h.edges[j], x[2])
  BY <1>1, <1>3 DEF EdgesTold
<1> DEFINE f == h.edges[j]
<1>5. EdgeTold(f, E)
  BY <1>1 DEF EdgesTold
<1> HIDE DEF e, f
<1>6. SameEnds(e, f)
  BY <1>3, <1>4 DEF SameEnds, f
<1>7. Like(E, f) = X /\ Like(E, x[2]) = X
  BY <1>3, <1>6 DEF Like, SameEnds
<1> HIDE DEF X
<1>8. AttrsTold(e.attrs, X) /\ AttrsTold(f.attrs, X)
  BY <1>1, <1>5, <1>7 DEF EdgeTold, X
<1>9. ASSUME Settled(g, e.from), NEW k PROVE ~Contested(X, k)
  <2>1. SUFFICES ASSUME Contested(X, k) PROVE FALSE
    OBVIOUS
  <2> DEFINE c == [node |-> x[2].from, key |-> k, subject |-> <<x[2].from, x[2].to, x[2].kind>>]
  <2>2. EdgeConflict(E, c)
    BY <1>3, <1>7, <2>1 DEF EdgeConflict
  <2>3. c \in g.conflicts /\ c.node = x[2].from
    BY <1>1, <2>2 DEF ConflictsTold
  <2>4. x[2].from = e.from
    BY <1>3 DEF SameEnds
  <2> HIDE DEF c
  <2> QED
    BY <1>9, <2>3, <2>4 DEF Settled
<1>10. AttrsAlike(e.attrs, f.attrs, Settled(g, e.from))
  BY <1>8, <1>9, AttrsAgree
<1>11. EdgesAlike(e, f, Settled(g, e.from))
  BY <1>6, <1>10 DEF EdgesAlike
<1> QED
  BY <1>11 DEF e, f

\* Graphs of the same statements are alike.
LEMMA SameAlike ==
    ASSUME NEW g, NEW h, NEW D, Told(g, D), Told(h, D)
    PROVE  Alike(g, h) /\ Alike(h, g)
<1> DEFINE N == UNION {DocNodes(d) : d \in D}
           E == UNION {DocEdges(d) : d \in D}
           C == UNION {DocRows(d) : d \in D}
<1>1. GraphTold(g, N, E, C) /\ GraphTold(h, N, E, C)
  BY DEF Told
<1> HIDE DEF N, E, C
<1>2. g.capabilities = h.capabilities
  BY <1>1 DEF GraphTold
<1> QED
  BY <1>1, <1>2, SameConflicts, SameNodes, SameEdges DEF Alike

\* Where nothing is in conflict, the same is read of a node...
LEMMA SameAttr ==
    ASSUME NEW g, NEW h, Alike(g, h), NEW id, Settled(g, id)
    PROVE  /\ \A k : SU!Attr(g, id, k) = SU!Attr(h, id, k)
           /\ SU!IsUsage(g, id) = SU!IsUsage(h, id)
           /\ SU!Absent(g, id) = SU!Absent(h, id)
<1>1. DOMAIN g.nodes = DOMAIN h.nodes
  BY DEF Alike
<1>2. ASSUME id \in DOMAIN g.nodes
      PROVE  /\ g.nodes[id].kind = h.nodes[id].kind
             /\ DOMAIN g.nodes[id].attrs = DOMAIN h.nodes[id].attrs
             /\ \A k \in DOMAIN g.nodes[id].attrs : g.nodes[id].attrs[k] = h.nodes[id].attrs[k]
  BY <1>2 DEF Alike, NodesAlike, AttrsAlike
<1>3. \A k : SU!Attr(g, id, k) = SU!Attr(h, id, k)
  BY <1>1, <1>2 DEF SU!Attr
<1>4. SU!IsUsage(g, id) = SU!IsUsage(h, id)
  BY <1>1, <1>2 DEF SU!IsUsage
<1> QED
  BY <1>3, <1>4 DEF SU!Absent

\* ...and of its enrollments.
LEMMA SameEnrollment ==
    ASSUME NEW g, NEW h, Alike(g, h), NEW repo, Settled(g, repo), NEW o,
           NEW i \in SU!Enrollments(g, repo, o)
    PROVE  \E j \in SU!Enrollments(h, repo, o) :
              /\ h.edges[j].to = g.edges[i].to
              /\ SU!Enabled(h.edges[j]) = SU!Enabled(g.edges[i])
<1>1. i \in DOMAIN g.edges /\ g.edges[i].from = repo
  BY DEF SU!Enrollments, SU!EdgesFrom
<1>2. PICK j \in DOMAIN h.edges : EdgesAlike(g.edges[i], h.edges[j], Settled(g, repo))
  BY <1>1 DEF Alike, EdgesFound
<1>3. SameEnds(g.edges[i], h.edges[j]) /\ AttrsAlike(g.edges[i].attrs, h.edges[j].attrs, TRUE)
  BY <1>2 DEF EdgesAlike, AttrsAlike
<1>4. SU!Enabled(h.edges[j]) = SU!Enabled(g.edges[i])
  BY <1>3 DEF SU!Enabled, AttrsAlike
<1>5. j \in SU!Enrollments(h, repo, o)
  BY <1>1, <1>3 DEF SU!Enrollments, SU!EdgesFrom, SameEnds
<1> QED
  BY <1>3, <1>4, <1>5 DEF SameEnds

\* The same nodes are settled in both.
LEMMA SettledBoth ==
    ASSUME NEW g, NEW h, Alike(g, h)
    PROVE  \A id : Settled(g, id) = Settled(h, id)
  BY DEF Alike, Settled

\* R4 reads the same: whether a repository is enrolled, and enabled.
LEMMA SameEnrolled ==
    ASSUME NEW g, NEW h, Alike(g, h), Alike(h, g), NEW repo, Settled(g, repo), NEW o
    PROVE  /\ SU!Enrollments(g, repo, o) = {} <=> SU!Enrollments(h, repo, o) = {}
           /\ (\E i \in SU!Enrollments(g, repo, o) : SU!Enabled(g.edges[i]))
                <=> (\E i \in SU!Enrollments(h, repo, o) : SU!Enabled(h.edges[i]))
<1>1. Settled(h, repo)
  BY SettledBoth
<1>2. \A i \in SU!Enrollments(g, repo, o) :
        \E j \in SU!Enrollments(h, repo, o) : SU!Enabled(h.edges[j]) = SU!Enabled(g.edges[i])
  BY SameEnrollment
<1>3. \A i \in SU!Enrollments(h, repo, o) :
        \E j \in SU!Enrollments(g, repo, o) : SU!Enabled(g.edges[j]) = SU!Enabled(h.edges[i])
  BY <1>1, SameEnrollment
<1> QED
  BY <1>2, <1>3

\* R2: the same rows apply.
LEMMA SameRows ==
    ASSUME NEW g, NEW h, Alike(g, h), NEW repo, Settled(g, repo), NEW kind, NEW p
    PROVE  SU!BestRows(g, kind, repo, p) = SU!BestRows(h, kind, repo, p)
<1>1. g.capabilities = h.capabilities
  BY DEF Alike
<1>2. \A k : SU!Attr(g, repo, k) = SU!Attr(h, repo, k)
  BY SameAttr
<1> DEFINE fits(y, x) == /\ x.producer = p
                         /\ x.row.usageKind = kind
                         /\ \A k \in DOMAIN x.row.matches : SU!Attr(y, repo, k) = x.row.matches[k]
<1>3. {x \in g.capabilities : fits(g, x)} = {x \in h.capabilities : fits(h, x)}
  BY <1>1, <1>2
<1> QED
  BY <1>3, Zenon DEF SU!BestRows

\* What a report says of drafts of gaps, whoever owns them.
Blockers(drafts) == {d.blocker : d \in drafts}

\* The blockers of no draft and of one.
LEMMA OneBlocker ==
    Blockers({}) = {} /\ \A b, o, s : Blockers({SU!Draft(b, o, s)}) = {b}
  BY DEF Blockers, SU!Draft

\* R3 and R4: the same shortfall.
LEMMA SameShortfall ==
    ASSUME NEW g, NEW h, Alike(g, h), Alike(h, g), NEW repo, Settled(g, repo), NEW row, NEW p
    PROVE  Blockers(SU!Shortfall(g, row, p, repo)) = Blockers(SU!Shortfall(h, row, p, repo))
<1> DEFINE none(y) == SU!Enrollments(y, repo, row.orchestrator) = {}
           some(y) == \E i \in SU!Enrollments(y, repo, row.orchestrator) : SU!Enabled(y.edges[i])
<1>1. none(g) = none(h) /\ some(g) = some(h)
  BY SameEnrolled
<1> HIDE DEF none, some
<1>2. ASSUME NEW y
      PROVE  Blockers(SU!Shortfall(y, row, p, repo))
               = IF ~row.lands THEN {IF row.blocker = None THEN "no-capability" ELSE row.blocker}
                 ELSE IF row.orchestrator = None THEN {}
                 ELSE IF none(y) THEN {"not-enrolled"}
                 ELSE IF some(y) THEN {} ELSE {"operator-disabled"}
  <2> DEFINE S == SU!Shortfall(y, row, p, repo)
  <2>1. CASE ~row.lands
    <3>1. S = {SU!Draft(IF row.blocker = None THEN "no-capability" ELSE row.blocker, p, "capability")}
      BY <2>1 DEF SU!Shortfall
    <3> HIDE DEF S
    <3> QED
      BY <2>1, <3>1, OneBlocker DEF S
  <2>2. CASE row.lands /\ row.orchestrator = None
    <3>1. S = {}
      BY <2>2 DEF SU!Shortfall
    <3> HIDE DEF S
    <3> QED
      BY <2>2, <3>1, OneBlocker DEF S
  <2>3. CASE row.lands /\ row.orchestrator # None /\ none(y)
    <3>1. S = {SU!Draft("not-enrolled", None, "enrollment")}
      BY <2>3 DEF SU!Shortfall, none
    <3> HIDE DEF S
    <3> QED
      BY <2>3, <3>1, OneBlocker DEF S
  <2>4. CASE row.lands /\ row.orchestrator # None /\ ~none(y)
    <3>1. S = IF some(y) THEN {} ELSE
                {SU!Draft("operator-disabled",
                          y.edges[SU!Min(SU!Enrollments(y, repo, row.orchestrator))].owner, "enrollment")}
      BY <2>4 DEF SU!Shortfall, none, some
    <3> HIDE DEF S
    <3> QED
      BY <2>4, <3>1, OneBlocker DEF S
  <2> QED
    BY <2>1, <2>2, <2>3, <2>4
<1> QED
  BY <1>1, <1>2

\* A draft has a blocker.
LEMMA NoBlockers == \A S : Blockers(S) = {} <=> S = {}
  BY DEF Blockers

\* R2 to R4: the same failures of a usage.
LEMMA SameCoverage ==
    ASSUME NEW g, NEW h, Alike(g, h), Alike(h, g), NEW id, Settled(g, id),
           Settled(g, SU!RepositoryOf(id))
    PROVE  Blockers(SU!CoverageGaps(g, id)) = Blockers(SU!CoverageGaps(h, id))
<1> DEFINE repo == SU!RepositoryOf(id)
           kind == SU!Attr(g, id, "usageKind")
           best == [p \in {c.producer : c \in g.capabilities} |-> SU!BestRows(g, kind, repo, p)]
           producers == {p \in DOMAIN best : best[p] # {}}
           short(y, p) == UNION {SU!Shortfall(y, r, p, repo) : r \in best[p]}
           failures(y, p) == IF SU!Cardinality(best[p]) > 1
                             THEN {SU!Draft("contract-conflict", p, "capability")} ELSE short(y, p)
           gaps(y) == IF kind = None \/ producers = {}
                      THEN {SU!Draft("no-capability", None, "capability")}
                      ELSE IF \E p \in producers : failures(y, p) = {} THEN {}
                      ELSE UNION {failures(y, p) : p \in producers}
<1>1. SU!CoverageGaps(g, id) = gaps(g)
  BY DEF SU!CoverageGaps
<1>2. SU!CoverageGaps(h, id) = gaps(h)
  <2>1. kind = SU!Attr(h, id, "usageKind") /\ g.capabilities = h.capabilities
    BY SameAttr DEF Alike
  <2>2. \A p : SU!BestRows(g, kind, repo, p) = SU!BestRows(h, kind, repo, p)
    BY SameRows
  <2>3. best = [p \in {c.producer : c \in h.capabilities}
                  |-> SU!BestRows(h, SU!Attr(h, id, "usageKind"), repo, p)]
    <3> HIDE DEF kind, repo
    <3> QED
      BY <2>1, <2>2
  <2> HIDE DEF best, kind
  <2> QED
    BY <2>1, <2>3 DEF SU!CoverageGaps
<1> HIDE DEF best, kind
<1>3. \A r, p : Blockers(SU!Shortfall(g, r, p, repo)) = Blockers(SU!Shortfall(h, r, p, repo))
  BY SameShortfall
<1> HIDE DEF repo
<1>4. ASSUME NEW p PROVE Blockers(short(g, p)) = Blockers(short(h, p))
  <2>1. \A y, b : b \in Blockers(short(y, p))
                    <=> \E r \in best[p] : b \in Blockers(SU!Shortfall(y, r, p, repo))
    BY DEF Blockers
  <2> HIDE DEF short
  <2>2. \A b : b \in Blockers(short(g, p)) <=> b \in Blockers(short(h, p))
    BY <1>3, <2>1
  <2> QED
    BY <2>2
<1> HIDE DEF short
<1>5. \A p : Blockers(failures(g, p)) = Blockers(failures(h, p))
  BY <1>4
<1> HIDE DEF failures
<1>6. \A p : failures(g, p) = {} <=> failures(h, p) = {}
  BY <1>5, NoBlockers
<1> DEFINE all(y) == UNION {failures(y, p) : p \in producers}
<1>7. Blockers(all(g)) = Blockers(all(h))
  <2> HIDE DEF producers
  <2>1. \A y, b : b \in Blockers(all(y)) <=> \E p \in producers : b \in Blockers(failures(y, p))
    BY DEF Blockers
  <2> HIDE DEF all
  <2>2. \A b : b \in Blockers(all(g)) <=> b \in Blockers(all(h))
    BY <1>5, <2>1
  <2> QED
    BY <2>2
<1>8. Blockers(gaps(g)) = Blockers(gaps(h))
  <2> HIDE DEF producers, all
  <2>1. \A y : gaps(y) = IF kind = None \/ producers = {}
                         THEN {SU!Draft("no-capability", None, "capability")}
                         ELSE IF \E p \in producers : failures(y, p) = {} THEN {} ELSE all(y)
    BY DEF all
  <2> HIDE DEF gaps
  <2> QED
    BY <1>6, <1>7, <2>1
<1> QED
  BY <1>1, <1>2, <1>8

\* R6: the repositories that depend on a node are the same, and so is
\* whether any does that is not absent.
Live(g, id) == {i \in SU!EdgesTo(g, id) : ~SU!Absent(g, g.edges[i].from)}
Dependents(g, id) == {SU!RepositoryOf(g.edges[i].from) : i \in Live(g, id)}

\* Who depends on a node is the same.
LEMMA SameDependents ==
    ASSUME NEW g, NEW h, Alike(g, h), Alike(h, g), \A n : Settled(g, n), NEW id
    PROVE  /\ Dependents(g, id) = Dependents(h, id)
           /\ Live(g, id) # SU!EdgesTo(g, id) <=> Live(h, id) # SU!EdgesTo(h, id)
<1>1. \A n : SU!Absent(g, n) = SU!Absent(h, n)
  BY SameAttr
<1>2. \A i \in SU!EdgesTo(g, id) : \E j \in SU!EdgesTo(h, id) : h.edges[j].from = g.edges[i].from
  BY DEF SU!EdgesTo, Alike, EdgesFound, EdgesAlike, SameEnds
<1>3. \A i \in SU!EdgesTo(h, id) : \E j \in SU!EdgesTo(g, id) : g.edges[j].from = h.edges[i].from
  BY DEF SU!EdgesTo, Alike, EdgesFound, EdgesAlike, SameEnds
<1>4. \A r : r \in Dependents(g, id) <=> r \in Dependents(h, id)
  BY <1>1, <1>2, <1>3 DEF Dependents, Live
<1>5. \A y : Live(y, id) # SU!EdgesTo(y, id) <=> \E i \in SU!EdgesTo(y, id) : SU!Absent(y, y.edges[i].from)
  BY DEF Live
<1>6. Live(g, id) # SU!EdgesTo(g, id) <=> Live(h, id) # SU!EdgesTo(h, id)
  BY <1>1, <1>2, <1>3, <1>5
<1>7. Dependents(g, id) = Dependents(h, id)
  BY <1>4
<1> QED
  BY <1>6, <1>7

\* R6: the same gaps of a runner or a cache.
LEMMA SameDependentGaps ==
    ASSUME NEW g, NEW h, Alike(g, h), Alike(h, g), \A n : Settled(g, n), NEW id \in DOMAIN g.nodes
    PROVE  SU!DependentGaps(g, id) = SU!DependentGaps(h, id)
<1>1. g.nodes[id].kind = h.nodes[id].kind
  BY DEF Alike, NodesAlike
<1>2. SU!TopologyGap(g, id) = SU!TopologyGap(h, id)
  BY <1>1 DEF SU!TopologyGap
<1>3. ASSUME NEW y
      PROVE  SU!DependentGaps(y, id)
               = LET repos == Dependents(y, id) \ {None}
                 IN IF repos = {} /\ Live(y, id) # SU!EdgesTo(y, id) THEN {}
                    ELSE UNION {SU!Bind(SU!TopologyGap(y, id), id, r) :
                                   r \in IF repos = {} THEN {SU!RepositoryOf(id)} ELSE repos}
  BY DEF SU!DependentGaps, Dependents, Live
<1> QED
  BY <1>2, <1>3, SameDependents

\* What producers state of a node, and what they expect of it in vain.
Stated(n) ==
    {SU!Draft(b.value, b.producer, "producer") : b \in n.blockers}
    \cup {SU!Draft(x.value.blocker, x.producer, "expectation") :
             x \in {y \in n.expects : y.value.attr \notin DOMAIN n.attrs}}

\* Which blockers those are.
LEMMA StatedBlockers ==
    ASSUME NEW n, NEW b
    PROVE  b \in Blockers(Stated(n))
             <=> \/ \E c \in n.blockers : b = c.value
                 \/ \E c \in n.expects : c.value.attr \notin DOMAIN n.attrs /\ b = c.value.blocker
<1>1. \A d : d \in Stated(n)
               <=> \/ \E c \in n.blockers : d = SU!Draft(c.value, c.producer, "producer")
                   \/ \E c \in n.expects : /\ c.value.attr \notin DOMAIN n.attrs
                                           /\ d = SU!Draft(c.value.blocker, c.producer, "expectation")
  BY DEF Stated
<1>2. \A v, o, s : SU!Draft(v, o, s).blocker = v
  BY DEF SU!Draft
<1>3. b \in Blockers(Stated(n)) <=> \E d : d \in Stated(n) /\ b = d.blocker
  BY DEF Blockers
<1> QED
  BY <1>1, <1>2, <1>3

\* They follow from the entry, whoever is named in it.
LEMMA StatedIn ==
    ASSUME NEW m, NEW n, m.blockers = n.blockers, DOMAIN m.attrs = DOMAIN n.attrs,
           \A v : (\E c \in m.expects : c.value = v) => (\E c \in n.expects : c.value = v)
    PROVE  Blockers(Stated(m)) \subseteq Blockers(Stated(n))
<1> SUFFICES ASSUME NEW b \in Blockers(Stated(m)) PROVE b \in Blockers(Stated(n))
  OBVIOUS
<1>1. CASE \E c \in m.blockers : b = c.value
  BY <1>1, StatedBlockers
<1>2. ASSUME NEW c \in m.expects, c.value.attr \notin DOMAIN m.attrs, b = c.value.blocker
      PROVE  b \in Blockers(Stated(n))
  <2>1. PICK d \in n.expects : d.value = c.value
    OBVIOUS
  <2>2. d.value.attr \notin DOMAIN n.attrs /\ b = d.value.blocker
    BY <1>2, <2>1
  <2> QED
    BY <2>2, StatedBlockers
<1> QED
  BY <1>1, <1>2, StatedBlockers

\* R5 and R7: the same is stated and expected.
LEMMA SameStated ==
    ASSUME NEW g, NEW h, Alike(g, h), NEW id \in DOMAIN g.nodes, Settled(g, id)
    PROVE  Blockers(Stated(g.nodes[id])) = Blockers(Stated(h.nodes[id]))
<1> DEFINE m == g.nodes[id]
           n == h.nodes[id]
<1>1. /\ m.blockers = n.blockers /\ DOMAIN m.attrs = DOMAIN n.attrs
      /\ \A v : (\E c \in m.expects : c.value = v) <=> (\E c \in n.expects : c.value = v)
  BY DEF Alike, NodesAlike, AttrsAlike
<1> HIDE DEF m, n
<1>2. Blockers(Stated(m)) \subseteq Blockers(Stated(n))
  BY <1>1, StatedIn
<1>3. Blockers(Stated(n)) \subseteq Blockers(Stated(m))
  BY <1>1, StatedIn
<1>4. Blockers(Stated(m)) = Blockers(Stated(n))
  BY <1>2, <1>3
<1> QED
  BY <1>4 DEF m, n

\* A bound draft is reported by its node, repository and blocker.
LEMMA ProjectBind ==
    ASSUME NEW drafts, NEW id, NEW repo
    PROVE  SU!Project(SU!Bind(drafts, id, repo))
             = {[node |-> id, repository |-> repo, blocker |-> b] : b \in Blockers(drafts)}
<1> DEFINE bound(d) == [node |-> id, repository |-> repo, blocker |-> d.blocker,
                        owner |-> d.owner, source |-> d.source]
           seen(y) == [node |-> y.node, repository |-> y.repository, blocker |-> y.blocker]
<1>1. \A d : seen(bound(d)) = [node |-> id, repository |-> repo, blocker |-> d.blocker]
  OBVIOUS
<1>2. SU!Bind(drafts, id, repo) = {bound(d) : d \in drafts} /\ \A S : SU!Project(S) = {seen(y) : y \in S}
  BY DEF SU!Bind, SU!Project
<1> HIDE DEF bound, seen
<1>3. SU!Project(SU!Bind(drafts, id, repo)) = {seen(bound(d)) : d \in drafts}
  BY <1>2
<1> QED
  BY <1>1, <1>3 DEF Blockers

\* The same gaps of a node.
LEMMA SameNodeGaps ==
    ASSUME NEW g, NEW h, Alike(g, h), Alike(h, g), \A n : Settled(g, n), NEW id \in DOMAIN g.nodes
    PROVE  SU!Project(SU!NodeGaps(g, id)) = SU!Project(SU!NodeGaps(h, id))
<1> DEFINE repo == SU!RepositoryOf(id)
           stated(y) == SU!Bind(Stated(y.nodes[id]), id, repo)
           covered(y) == IF SU!IsUsage(y, id) THEN SU!Bind(SU!CoverageGaps(y, id), id, repo) ELSE {}
           P(S) == SU!Project(S)
<1>1. P(stated(g)) = P(stated(h))
  <2>1. Blockers(Stated(g.nodes[id])) = Blockers(Stated(h.nodes[id]))
    BY SameStated
  <2> QED
    BY <2>1, ProjectBind
<1>2. P(covered(g)) = P(covered(h))
  <2>1. SU!IsUsage(g, id) = SU!IsUsage(h, id)
    BY SameAttr
  <2>2. Blockers(SU!CoverageGaps(g, id)) = Blockers(SU!CoverageGaps(h, id))
    BY SameCoverage
  <2>3. P(SU!Bind(SU!CoverageGaps(g, id), id, repo)) = P(SU!Bind(SU!CoverageGaps(h, id), id, repo))
    BY <2>2, ProjectBind
  <2> HIDE DEF P, repo
  <2> QED
    BY <2>1, <2>3
<1>3. SU!DependentGaps(g, id) = SU!DependentGaps(h, id) /\ SU!Absent(g, id) = SU!Absent(h, id)
  BY SameDependentGaps, SameAttr
<1>4. ASSUME NEW y
      PROVE  SU!NodeGaps(y, id) = IF SU!Absent(y, id) THEN {}
                                  ELSE stated(y) \cup SU!DependentGaps(y, id) \cup covered(y)
  BY DEF SU!NodeGaps, Stated
<1>5. \A A, B, C : P((A \cup B) \cup C) = (P(A) \cup P(B)) \cup P(C)
  BY DEF SU!Project
<1> HIDE DEF P, stated, covered
<1>6. P(SU!NodeGaps(g, id)) = P(SU!NodeGaps(h, id))
  <2>1. CASE SU!Absent(g, id)
    BY <1>3, <1>4, <2>1
  <2>2. CASE ~SU!Absent(g, id)
    <3>1. /\ SU!NodeGaps(g, id) = (stated(g) \cup SU!DependentGaps(g, id)) \cup covered(g)
          /\ SU!NodeGaps(h, id) = (stated(h) \cup SU!DependentGaps(g, id)) \cup covered(h)
      BY <1>3, <1>4, <2>2
    <3>2. /\ P(SU!NodeGaps(g, id)) = (P(stated(g)) \cup P(SU!DependentGaps(g, id))) \cup P(covered(g))
          /\ P(SU!NodeGaps(h, id)) = (P(stated(h)) \cup P(SU!DependentGaps(g, id))) \cup P(covered(h))
      BY <1>5, <3>1
    <3> QED
      BY <1>1, <1>2, <3>2
  <2> QED
    BY <2>1, <2>2
<1> QED
  BY <1>6 DEF P

\* Without conflicts the same gaps are reported.
LEMMA SameGaps ==
    ASSUME NEW g, NEW h, Alike(g, h), Alike(h, g), g.conflicts = {}
    PROVE  SU!Project(SU!Gaps(g)) = SU!Project(SU!Gaps(h))
<1>1. h.conflicts = {} /\ DOMAIN g.nodes = DOMAIN h.nodes /\ \A n : Settled(g, n)
  BY DEF Alike, Settled
<1>2. ASSUME NEW y, y.conflicts = {}
      PROVE  \A x : x \in SU!Project(SU!Gaps(y))
                      <=> \E id \in DOMAIN y.nodes : x \in SU!Project(SU!NodeGaps(y, id))
  BY <1>2 DEF SU!Gaps, SU!Project
<1>3. \A id \in DOMAIN g.nodes : SU!Project(SU!NodeGaps(g, id)) = SU!Project(SU!NodeGaps(h, id))
  BY <1>1, SameNodeGaps
<1>4. \A x : x \in SU!Project(SU!Gaps(g)) <=> x \in SU!Project(SU!Gaps(h))
  BY <1>1, <1>2, <1>3
<1> QED
  BY <1>4

\* Where the repository has no conflict, it is enabled in the same orchestrators.
LEMMA SameEnabled ==
    ASSUME NEW g, NEW h, Alike(g, h), Alike(h, g), NEW id, Settled(g, SU!RepositoryOf(id))
    PROVE  SU!EnabledEnrollments(g, id) = SU!EnabledEnrollments(h, id)
<1> DEFINE repo == SU!RepositoryOf(id)
<1>1. Settled(h, repo)
  BY SettledBoth
<1>2. \A i \in SU!Enrollments(g, repo, Orchestrator) : \E j \in SU!Enrollments(h, repo, Orchestrator) :
         h.edges[j].to = g.edges[i].to /\ SU!Enabled(h.edges[j]) = SU!Enabled(g.edges[i])
  BY SameEnrollment
<1>3. \A i \in SU!Enrollments(h, repo, Orchestrator) : \E j \in SU!Enrollments(g, repo, Orchestrator) :
         g.edges[j].to = h.edges[i].to /\ SU!Enabled(g.edges[j]) = SU!Enabled(h.edges[i])
  BY <1>1, SameEnrollment
<1>4. \A y, dest : dest \in SU!EnabledEnrollments(y, id)
        <=> \E i \in SU!Enrollments(y, repo, Orchestrator) : SU!Enabled(y.edges[i]) /\ dest = y.edges[i].to
  BY DEF SU!EnabledEnrollments
<1> HIDE DEF repo
<1>5. \A dest : dest \in SU!EnabledEnrollments(g, id) <=> dest \in SU!EnabledEnrollments(h, id)
  BY <1>2, <1>3, <1>4
<1> QED
  BY <1>5

\* What is not in dispute is settled...
LEMMA Undisputed ==
    ASSUME NEW g, NEW id
    PROVE  SU!Disputed(g, id) <=> \/ ~Settled(g, id) \/ ~Settled(g, SU!RepositoryOf(id))
                                  \/ \E dest \in SU!EnabledEnrollments(g, id) : ~Settled(g, dest)
  BY DEF SU!Disputed, Settled

\* ...and the same things are in dispute.
LEMMA SameDisputed ==
    ASSUME NEW g, NEW h, Alike(g, h), Alike(h, g), NEW id
    PROVE  SU!Disputed(g, id) <=> SU!Disputed(h, id)
<1>1. \A n : Settled(g, n) = Settled(h, n)
  BY SettledBoth
<1>2. CASE Settled(g, SU!RepositoryOf(id))
  <2>1. SU!EnabledEnrollments(g, id) = SU!EnabledEnrollments(h, id)
    BY <1>2, SameEnabled
  <2> QED
    BY <1>1, <2>1, Undisputed
<1>3. CASE ~Settled(g, SU!RepositoryOf(id))
  BY <1>1, <1>3, Undisputed
<1> QED
  BY <1>2, <1>3

\* The kinds of the nodes are the same.
KindsAlike(g, h) == \A id \in DOMAIN g.nodes : g.nodes[id].kind = h.nodes[id].kind

\* Then the same workflows are counted.
LEMMA SameWorkflows ==
    ASSUME NEW g, NEW h, Alike(g, h), Alike(h, g), KindsAlike(g, h), NEW pools
    PROVE  SU!Workflows(g, pools) = SU!Workflows(h, pools)
<1>1. /\ DOMAIN g.nodes = DOMAIN h.nodes
      /\ \A id \in DOMAIN g.nodes : /\ g.nodes[id].kind = h.nodes[id].kind
                                    /\ DOMAIN g.nodes[id].attrs = DOMAIN h.nodes[id].attrs
  BY DEF Alike, KindsAlike, NodesAlike, AttrsAlike
<1> DEFINE runs(y, i, id) == /\ y.edges[i].from = id /\ y.edges[i].kind = "runsOn"
                             /\ \E p \in pools : SU!Offers(Pools[p], y.edges[i].to)
           on(y, id) == \E i \in DOMAIN y.edges : runs(y, i, id)
<1>2. \A i \in DOMAIN g.edges : \E j \in DOMAIN h.edges : \A id : runs(g, i, id) => runs(h, j, id)
  BY DEF Alike, EdgesFound, EdgesAlike, SameEnds
<1>3. \A i \in DOMAIN h.edges : \E j \in DOMAIN g.edges : \A id : runs(h, i, id) => runs(g, j, id)
  BY DEF Alike, EdgesFound, EdgesAlike, SameEnds
<1>4. \A y, id : id \in SU!Workflows(y, pools)
        <=> /\ id \in DOMAIN y.nodes /\ y.nodes[id].kind = "workflow"
            /\ "observed" \in DOMAIN y.nodes[id].attrs /\ on(y, id)
  BY DEF SU!Workflows
<1> HIDE DEF runs
<1>5. \A id : on(g, id) <=> on(h, id)
  BY <1>2, <1>3
<1> HIDE DEF on
<1>6. \A id : id \in SU!Workflows(g, pools) <=> id \in SU!Workflows(h, pools)
  BY <1>1, <1>4, <1>5
<1> QED
  BY <1>6

\* What is forecast of an undisputed workflow is the same.
LEMMA SameFigures ==
    ASSUME NEW g, NEW h, Alike(g, h), Alike(h, g), NEW id \in DOMAIN g.nodes,
           "observed" \in DOMAIN g.nodes[id].attrs, ~SU!Disputed(g, id)
    PROVE  /\ SU!Misobserved(g, id) = SU!Misobserved(h, id)
           /\ SU!NegativeRuns(g, id) = SU!NegativeRuns(h, id)
           /\ SU!ObservedMinutes(g, id) = SU!ObservedMinutes(h, id)
           /\ SU!UpdaterMinutes(g, id) = SU!UpdaterMinutes(h, id)
<1>1. /\ Settled(g, id) /\ Settled(g, SU!RepositoryOf(id))
      /\ \A dest \in SU!EnabledEnrollments(g, id) : Settled(g, dest)
  BY Undisputed
<1>2. g.nodes[id].attrs["observed"] = h.nodes[id].attrs["observed"]
  BY <1>1 DEF Alike, NodesAlike, AttrsAlike
<1>3. SU!EnabledEnrollments(g, id) = SU!EnabledEnrollments(h, id)
  BY <1>1, SameEnabled
<1>4. \A dest \in SU!EnabledEnrollments(g, id) : SU!RunsPerUpdate(g, dest) = SU!RunsPerUpdate(h, dest)
  <2>1. ASSUME NEW dest \in SU!EnabledEnrollments(g, id)
        PROVE  SU!Attr(g, dest, "runsPerUpdate") = SU!Attr(h, dest, "runsPerUpdate")
    BY <1>1, SameAttr
  <2> QED
    BY <2>1 DEF SU!RunsPerUpdate
<1>5. SU!Misobserved(g, id) = SU!Misobserved(h, id) /\ SU!ObservedMinutes(g, id) = SU!ObservedMinutes(h, id)
  BY <1>2 DEF SU!Misobserved, SU!ObservedMinutes
<1>6. SU!NegativeRuns(g, id) = SU!NegativeRuns(h, id)
  BY <1>3, <1>4 DEF SU!NegativeRuns
<1>7. [dest \in SU!EnabledEnrollments(g, id) |-> SU!RunsPerUpdate(g, dest)]
        = [dest \in SU!EnabledEnrollments(h, id) |-> SU!RunsPerUpdate(h, dest)]
  BY <1>3, <1>4
<1>8. SU!UpdaterMinutes(g, id) = SU!UpdaterMinutes(h, id)
  <2> DEFINE f(y) == [dest \in SU!EnabledEnrollments(y, id) |-> SU!RunsPerUpdate(y, dest)]
             o(y) == y.nodes[id].attrs["observed"]
  <2>1. \A y : SU!UpdaterMinutes(y, id)
           = IF o(y).runs = 0 THEN 0 ELSE (SU!Total(f(y)) * o(y).minutes * Updates) \div o(y).runs
    BY DEF SU!UpdaterMinutes
  <2>2. f(g) = f(h) /\ o(g) = o(h)
    BY <1>2, <1>7
  <2> HIDE DEF f, o
  <2> QED
    BY <2>1, <2>2
<1> QED
  BY <1>5, <1>6, <1>8

\* A metered workflow is counted.
LEMMA MeteredCounted ==
    ASSUME NEW g, NEW pools
    PROVE  /\ SU!Workflows(g, SU!Metered(pools)) \subseteq SU!Workflows(g, pools)
           /\ \A id \in SU!Workflows(g, pools) :
                id \in DOMAIN g.nodes /\ "observed" \in DOMAIN g.nodes[id].attrs
  BY DEF SU!Workflows, SU!Metered

\* Why the forecast of a budget fails.
Fails(g, pools) ==
    \/ \E id \in SU!Workflows(g, pools) : SU!Disputed(g, id) \/ SU!Misobserved(g, id)
    \/ \E id \in SU!Workflows(g, SU!Metered(pools)) : SU!NegativeRuns(g, id)
Observed(g, pools) == [id \in SU!Workflows(g, pools) |-> SU!ObservedMinutes(g, id)]
Qualified(g, pools) == [id \in SU!Workflows(g, SU!Metered(pools)) |-> SU!UpdaterMinutes(g, id)]

\* The same figures of a budget, or the same failure.
LEMMA SameBudget ==
    ASSUME NEW g, NEW h, Alike(g, h), Alike(h, g), KindsAlike(g, h), NEW pools
    PROVE  /\ Fails(g, pools) <=> Fails(h, pools)
           /\ ~Fails(g, pools) => /\ Observed(g, pools) = Observed(h, pools)
                                  /\ Qualified(g, pools) = Qualified(h, pools)
<1> DEFINE W == SU!Workflows(g, pools)
           M == SU!Workflows(g, SU!Metered(pools))
<1>1. W = SU!Workflows(h, pools) /\ M = SU!Workflows(h, SU!Metered(pools))
  BY SameWorkflows
<1>2. M \subseteq W /\ \A id \in W : id \in DOMAIN g.nodes /\ "observed" \in DOMAIN g.nodes[id].attrs
  BY MeteredCounted
<1> HIDE DEF W, M
<1>3. \A id : SU!Disputed(g, id) <=> SU!Disputed(h, id)
  BY SameDisputed
<1>4. ASSUME NEW id \in W, ~SU!Disputed(g, id)
      PROVE  /\ SU!Misobserved(g, id) = SU!Misobserved(h, id)
             /\ SU!NegativeRuns(g, id) = SU!NegativeRuns(h, id)
             /\ SU!ObservedMinutes(g, id) = SU!ObservedMinutes(h, id)
             /\ SU!UpdaterMinutes(g, id) = SU!UpdaterMinutes(h, id)
  BY <1>2, <1>4, SameFigures
<1>5. /\ Fails(g, pools) <=> \/ \E id \in W : SU!Disputed(g, id) \/ SU!Misobserved(g, id)
                             \/ \E id \in M : SU!NegativeRuns(g, id)
      /\ Fails(h, pools) <=> \/ \E id \in W : SU!Disputed(h, id) \/ SU!Misobserved(h, id)
                             \/ \E id \in M : SU!NegativeRuns(h, id)
  BY <1>1 DEF Fails, W, M
<1>6. Fails(g, pools) <=> Fails(h, pools)
  <2>1. CASE \E id \in W : SU!Disputed(g, id)
    BY <1>3, <1>5, <2>1
  <2>2. CASE \A id \in W : ~SU!Disputed(g, id)
    BY <1>2, <1>3, <1>4, <1>5, <2>2
  <2> QED
    BY <2>1, <2>2
<1>7. ASSUME ~Fails(g, pools)
      PROVE  Observed(g, pools) = Observed(h, pools) /\ Qualified(g, pools) = Qualified(h, pools)
  <2>1. \A id \in W : ~SU!Disputed(g, id)
    BY <1>5, <1>7
  <2>2. /\ \A id \in W : SU!ObservedMinutes(g, id) = SU!ObservedMinutes(h, id)
        /\ \A id \in M : SU!UpdaterMinutes(g, id) = SU!UpdaterMinutes(h, id)
    BY <1>2, <1>4, <2>1
  <2>3. /\ Observed(g, pools) = [id \in W |-> SU!ObservedMinutes(g, id)]
        /\ Observed(h, pools) = [id \in W |-> SU!ObservedMinutes(h, id)]
        /\ Qualified(g, pools) = [id \in M |-> SU!UpdaterMinutes(g, id)]
        /\ Qualified(h, pools) = [id \in M |-> SU!UpdaterMinutes(h, id)]
    BY <1>1 DEF Observed, Qualified, W, M
  <2> QED
    BY <2>2, <2>3
<1> QED
  BY <1>6, <1>7

\* A forecast that is made is the same forecast.
LEMMA SameForecast ==
    ASSUME NEW g, NEW h, Alike(g, h), Alike(h, g), KindsAlike(g, h)
    PROVE  SU!Forecast(g) = SU!Forecast(h)
<1>1. ASSUME NEW y
      PROVE  SU!Forecast(y) = IF \E b \in DOMAIN Budgets : Fails(y, Budgets[b]) THEN {}
                              ELSE {[b \in DOMAIN Budgets |-> SU!Total(Observed(y, Budgets[b]))
                                                            + SU!Total(Qualified(y, Budgets[b]))]}
  BY DEF SU!Forecast, Fails, Observed, Qualified
<1>2. \A b \in DOMAIN Budgets :
        /\ Fails(g, Budgets[b]) <=> Fails(h, Budgets[b])
        /\ ~Fails(g, Budgets[b]) => /\ Observed(g, Budgets[b]) = Observed(h, Budgets[b])
                                    /\ Qualified(g, Budgets[b]) = Qualified(h, Budgets[b])
  BY SameBudget
<1>3. CASE \E b \in DOMAIN Budgets : Fails(g, Budgets[b])
  BY <1>1, <1>2, <1>3
<1>4. CASE \A b \in DOMAIN Budgets : ~Fails(g, Budgets[b])
  <2>1. [b \in DOMAIN Budgets |-> SU!Total(Observed(g, Budgets[b])) + SU!Total(Qualified(g, Budgets[b]))]
          = [b \in DOMAIN Budgets |-> SU!Total(Observed(h, Budgets[b])) + SU!Total(Qualified(h, Budgets[b]))]
    BY <1>2, <1>4
  <2>2. /\ ~\E b \in DOMAIN Budgets : Fails(g, Budgets[b])
        /\ ~\E b \in DOMAIN Budgets : Fails(h, Budgets[b])
    BY <1>2, <1>4
  <2>3. /\ SU!Forecast(g) = {[b \in DOMAIN Budgets |-> SU!Total(Observed(g, Budgets[b]))
                                                     + SU!Total(Qualified(g, Budgets[b]))]}
        /\ SU!Forecast(h) = {[b \in DOMAIN Budgets |-> SU!Total(Observed(h, Budgets[b]))
                                                     + SU!Total(Qualified(h, Budgets[b]))]}
    BY <1>1, <2>2
  <2> QED
    BY <2>1, <2>3
<1> QED
  BY <1>3, <1>4

\* The documents agree on the kinds of nodes.
AgreedKinds(D) ==
    \A c, d \in D : \A m \in DOMAIN c.nodes, n \in DOMAIN d.nodes :
        c.nodes[m].id = d.nodes[n].id => c.nodes[m].kind = d.nodes[n].kind

\* Documents that agree on the kinds of nodes make graphs that do.
LEMMA SameKinds ==
    ASSUME NEW g, NEW h, NEW D, Told(g, D), Told(h, D),
           AgreedKinds(D)
    PROVE  KindsAlike(g, h)
<1> DEFINE N == UNION {DocNodes(d) : d \in D}
<1>1. NodesTold(g.nodes, N) /\ NodesTold(h.nodes, N)
  BY DEF Told, GraphTold
<1>2. \A x, y \in N : x[2].id = y[2].id => x[2].kind = y[2].kind
  <2>1. SUFFICES ASSUME NEW x \in N, NEW y \in N, x[2].id = y[2].id PROVE x[2].kind = y[2].kind
    OBVIOUS
  <2>2. PICK c \in D : x \in DocNodes(c)
    OBVIOUS
  <2>3. PICK d \in D : y \in DocNodes(d)
    OBVIOUS
  <2>4. PICK m \in DOMAIN c.nodes : x[2] = c.nodes[m]
    BY <2>2 DEF DocNodes
  <2>5. PICK n \in DOMAIN d.nodes : y[2] = d.nodes[n]
    BY <2>3 DEF DocNodes
  <2> HIDE DEF N
  <2> QED
    BY <2>1, <2>4, <2>5 DEF AgreedKinds
<1> HIDE DEF N
<1>3. ASSUME NEW id \in DOMAIN g.nodes PROVE g.nodes[id].kind = h.nodes[id].kind
  <2>1. id \in DOMAIN h.nodes
    BY <1>1 DEF NodesTold
  <2>2. PICK x \in About(N, id) : x[2].kind = g.nodes[id].kind
    BY <1>1 DEF NodesTold, EntryTold, KindTold
  <2>3. PICK y \in About(N, id) : y[2].kind = h.nodes[id].kind
    BY <1>1, <2>1 DEF NodesTold, EntryTold, KindTold
  <2>4. x \in N /\ y \in N /\ x[2].id = y[2].id
    BY DEF About
  <2> QED
    BY <1>2, <2>2, <2>3, <2>4
<1> QED
  BY <1>3 DEF KindsAlike

\* The same is reported: the conflicts, without them the gaps, and if the kinds
\* agree the forecast.
SameReports(g, h, D) ==
    /\ g.conflicts = h.conflicts
    /\ g.conflicts = {} => SU!Project(SU!Gaps(g)) = SU!Project(SU!Gaps(h))
    /\ AgreedKinds(D) => SU!Forecast(g) = SU!Forecast(h)

\* What is reported is decided by what the documents state.
LEMMA ToldReports ==
    ASSUME NEW g, NEW h, NEW D, Told(g, D), Told(h, D)
    PROVE  SameReports(g, h, D)
<1>1. Alike(g, h) /\ Alike(h, g)
  BY SameAlike
<1>2. g.conflicts = h.conflicts
  BY <1>1 DEF Alike
<1>3. g.conflicts = {} => SU!Project(SU!Gaps(g)) = SU!Project(SU!Gaps(h))
  BY <1>1, SameGaps
<1>4. AgreedKinds(D) => SU!Forecast(g) = SU!Forecast(h)
  <2>1. AgreedKinds(D) => KindsAlike(g, h)
    BY SameKinds
  <2> QED
    BY <1>1, <2>1, SameForecast
<1> QED
  BY <1>2, <1>3, <1>4 DEF SameReports

\* Two lists of the same documents, in any order and however often each is
\* listed, make graphs with the same reports (supply.rs, build, gaps and
\* budget).
THEOREM DocumentsDecide ==
    ASSUME SU!ConstantsSound, NEW s \in Seq(Documents), NEW t \in Seq(Documents),
           Members(s) = Members(t)
    PROVE  SameReports(SU!Build(s), SU!Build(t), Members(s))
<1>1. Told(SU!Build(s), Members(s)) /\ Told(SU!Build(t), Members(s))
  BY BuildTold
<1> QED
  BY <1>1, ToldReports

\* At each moment the graph reports what the other order reports.
LEMMA GraphOrderFree == ASSUME SU!ConstantsSound, GraphInv PROVE SU!OrderFree
<1> DEFINE other == SU!Build(SU!Reverse(documents))
           D == Members(documents)
<1>1. Told(graph, D) /\ documents \in Seq(Documents)
  BY DEF GraphInv
<1>2. Told(other, D)
  BY <1>1, SameMembers, BuildTold
<1> HIDE DEF other
<1>3. SU!KindsAgree => AgreedKinds(D)
  BY DEF SU!KindsAgree, AgreedKinds, Members
<1> HIDE DEF D
<1>4. SameReports(graph, other, D)
  BY <1>1, <1>2, ToldReports
<1> QED
  BY <1>3, <1>4 DEF SameReports, SU!OrderFree, other

-----------------------------------------------------------------------------
(* The walk over a supply graph.                                           *)

\* The instance counts as the module does.
LEMMA SameSupplyCount == \A S : SU!Cardinality(S) = Cardinality(S)
  BY DEF SU!Cardinality, Cardinality

From(g, reverse, i) == SU!Source(g.edges[i], reverse)
To(g, reverse, i) == SU!Sink(g.edges[i], reverse)

\* A list of n nodes that were found: the ids are `seen`, each once, at its
\* distance, and nearer ones are first.
Found(g, root, reverse, depth, A, n, seen) ==
    LET reach == SU!Within(g, root, reverse, depth)
    IN /\ n \in Nat /\ A \in [1..n -> [id : SU!Ids(g), hops : 0..depth]]
       /\ seen = {A[i].id : i \in 1..n}
       /\ root \in seen
       /\ \A i, j \in 1..n : A[i].id = A[j].id => i = j
       /\ \A i, j \in 1..n : i <= j => A[i].hops <= A[j].hops
       /\ \A i \in 1..n : /\ A[i].id \in reach[A[i].hops]
                          /\ \A k \in 0..depth : A[i].id \in reach[k] => A[i].hops <= k

\* The edges that leave the first p of them, short of the depth.
Leaving(g, reverse, depth, A, p) ==
    {e \in DOMAIN g.edges : \E i \in 1..p : A[i].hops # depth /\ From(g, reverse, e) = A[i].id}

\* The neighbours of the first p of them were found, but for those over E.
Followed(g, reverse, depth, A, p, E, seen) ==
    \A e \in Leaving(g, reverse, depth, A, p) \ E : To(g, reverse, e) \in seen

\* What follows the first p of them, as a sequence.
Rest(A, p, n) == [i \in 1..(n - p) |-> A[p + i]]

\* The first p are listed with the edges that leave them, the others queued.
Lists(g, reverse, depth, w, A, n, p) ==
    w = [queue |-> Rest(A, p, n), seen |-> {A[i].id : i \in 1..n},
         nodes |-> Rest(A, 0, p), edges |-> Leaving(g, reverse, depth, A, p)]

\* After k turns p nodes are listed: as many, unless none is left.
Walking(g, root, reverse, depth, k, w, A, n, p) ==
    /\ p <= n /\ (p = k \/ p = n)
    /\ Lists(g, reverse, depth, w, A, n, p)
    /\ Found(g, root, reverse, depth, A, n, w.seen)
    /\ Followed(g, reverse, depth, A, p, {}, w.seen)
    /\ p < n => \A i \in 1..n : A[i].hops <= A[p + 1].hops + 1

WalkInv(g, root, reverse, depth, k, w) ==
    \E A : \E n, p \in Nat : Walking(g, root, reverse, depth, k, w, A, n, p)

\* In the turn of the node at p + 1, with m edges behind.
Pushing(g, root, reverse, depth, p, here, m, w, A, n) ==
    /\ p + 1 <= n /\ A[p + 1] = here
    /\ Lists(g, reverse, depth, w, A, n, p + 1)
    /\ Found(g, root, reverse, depth, A, n, w.seen)
    /\ Followed(g, reverse, depth, A, p, {}, w.seen)
    /\ Followed(g, reverse, depth, A, p + 1,
                {e \in SU!Taken(g, here, reverse, depth) : e > m}, w.seen)
    /\ \A i \in 1..n : A[i].hops <= here.hops + 1

PushInv(g, root, reverse, depth, p, here, m, w) ==
    \E A : \E n \in Nat : Pushing(g, root, reverse, depth, p, here, m, w, A, n)

\* Distance by definition is a function of the number of hops.
LEMMA WithinIs ==
    ASSUME NEW g, NEW root, NEW reverse, NEW depth \in Nat
    PROVE  /\ SU!Within(g, root, reverse, depth)[0] = {root}
           /\ \A k \in 1..depth :
                SU!Within(g, root, reverse, depth)[k] =
                  SU!Within(g, root, reverse, depth)[k - 1] \cup
                  {To(g, reverse, i) : i \in
                     {x \in DOMAIN g.edges :
                        From(g, reverse, x) \in SU!Within(g, root, reverse, depth)[k - 1]}}
<1> DEFINE Turn(R, k) == R \cup {To(g, reverse, i) : i \in
                                   {x \in DOMAIN g.edges : From(g, reverse, x) \in R}}
           First == {root}
           Is(f, m) == f = [k \in 0..m |-> IF k = 0 THEN First ELSE Turn(f[k - 1], k)]
           Some == {m \in Nat : \E f : Is(f, m)}
<1> HIDE DEF Turn, First
<1>1. 0 \in Some
  <2>1. Is([k \in 0..0 |-> First], 0)
    OBVIOUS
  <2> QED
    BY <2>1
<1>2. ASSUME NEW m \in Some PROVE m + 1 \in Some
  <2>1. PICK f : Is(f, m)
    BY <1>2
  <2>2. m \in Nat /\ m + 1 \in Nat
    OBVIOUS
  <2> DEFINE h == [k \in 0..(m + 1) |-> IF k <= m THEN f[k] ELSE Turn(f[m], k)]
  <2>3. ASSUME NEW k \in 0..(m + 1)
        PROVE  h[k] = IF k = 0 THEN First ELSE Turn(h[k - 1], k)
    <3>1. CASE k = 0
      BY <2>1, <2>2, <3>1
    <3>2. CASE k # 0 /\ k <= m
      BY <2>1, <2>2, <3>2
    <3>3. CASE k = m + 1
      BY <2>2, <3>3
    <3> QED
      BY <2>2, <3>1, <3>2, <3>3
  <2>4. Is(h, m + 1)
    BY <2>3
  <2>5. \E f2 : Is(f2, m + 1)
    BY <2>4
  <2> HIDE DEF Is
  <2> QED
    BY <2>2, <2>5
<1>3. Some = Nat
  <2> HIDE DEF Is
  <2> QED
    BY <1>1, <1>2, Upwards
<1>4. \E f : Is(f, depth)
  BY <1>3
<1>5. Is(SU!Within(g, root, reverse, depth), depth)
  BY <1>4 DEF SU!Within, Turn, First, To, From
<1>6. SU!Within(g, root, reverse, depth)[0] = First
  BY <1>5
<1>7. ASSUME NEW k \in 1..depth
      PROVE  SU!Within(g, root, reverse, depth)[k] = Turn(SU!Within(g, root, reverse, depth)[k - 1], k)
  BY <1>5
<1> QED
  BY <1>6, <1>7 DEF Turn, First

\* More hops reach no less.
LEMMA WithinGrows ==
    ASSUME NEW g, NEW root, NEW reverse, NEW depth \in Nat, NEW k \in 0..depth, NEW l \in k..depth
    PROVE  SU!Within(g, root, reverse, depth)[k] \subseteq SU!Within(g, root, reverse, depth)[l]
<1> DEFINE reach == SU!Within(g, root, reverse, depth)
           S == {m \in Nat : k + m <= depth => reach[k] \subseteq reach[k + m]}
<1>1. 0 \in S
  OBVIOUS
<1>2. ASSUME NEW m \in S PROVE m + 1 \in S
  <2>1. SUFFICES ASSUME k + (m + 1) <= depth PROVE reach[k] \subseteq reach[k + (m + 1)]
    OBVIOUS
  <2>2. k + (m + 1) \in 1..depth /\ (k + (m + 1)) - 1 = k + m /\ reach[k] \subseteq reach[k + m]
    BY <2>1
  <2> QED
    BY <2>2, WithinIs
<1>3. S = Nat
  <2> HIDE DEF S
  <2>1. S \in SUBSET Nat
    BY DEF S
  <2> QED
    BY <1>1, <1>2, <2>1, Upwards
<1>4. l - k \in S /\ k + (l - k) = l
  BY <1>3
<1> QED
  BY <1>4

\* When nothing nearer than h is left to be followed, all within h is found.
LEMMA NearFound ==
    ASSUME NEW g, NEW root, NEW reverse, NEW depth \in Nat, NEW A, NEW n, NEW p \in Nat,
           NEW seen, Found(g, root, reverse, depth, A, n, seen),
           Followed(g, reverse, depth, A, p, {}, seen),
           NEW h \in 0..depth, \A i \in 1..n : A[i].hops < h => i <= p
    PROVE  SU!Within(g, root, reverse, depth)[h] \subseteq seen
<1> DEFINE reach == SU!Within(g, root, reverse, depth)
           S == {m \in Nat : m <= h => reach[m] \subseteq seen}
<1>1. 0 \in S
  BY WithinIs DEF Found
<1>2. ASSUME NEW m \in S, m + 1 <= h PROVE reach[m + 1] \subseteq seen
  <2>1. m \in Nat /\ m + 1 \in 1..depth /\ (m + 1) - 1 = m /\ m \in 0..depth /\ reach[m] \subseteq seen
    BY <1>2
  <2>2. SUFFICES ASSUME NEW e \in DOMAIN g.edges, From(g, reverse, e) \in reach[m]
                 PROVE  To(g, reverse, e) \in seen
    BY <2>1, WithinIs
  <2>3. PICK i \in 1..n : A[i].id = From(g, reverse, e)
    BY <2>1, <2>2 DEF Found
  <2>4. A[i].hops <= m /\ A[i].hops \in Nat
    BY <2>1, <2>2, <2>3 DEF Found
  <2>5. i \in 1..p /\ A[i].hops # depth
    BY <1>2, <2>1, <2>3, <2>4 DEF Found
  <2> QED
    BY <2>2, <2>3, <2>5 DEF Followed, Leaving
<1>3. S = Nat
  <2>1. \A m \in S : m + 1 \in S
    BY <1>2
  <2> HIDE DEF S
  <2>2. S \in SUBSET Nat
    BY DEF S
  <2> QED
    BY <1>1, <2>1, <2>2, Upwards
<1> QED
  BY <1>3

\* The node at the front is listed with its edges...
Listed(g, w, reverse, depth) ==
    [w EXCEPT !.queue = Tail(@), !.nodes = Append(@, Head(w.queue)),
              !.edges = @ \cup SU!Taken(g, Head(w.queue), reverse, depth)]

\* ...and they are followed one by one, as far as it takes them.
Along(g, w, reverse, depth, x, i) ==
    IF i \in SU!Taken(g, Head(w.queue), reverse, depth)
    THEN SU!Follow(x, Head(w.queue), To(g, reverse, i)) ELSE x

\* A turn is a function of the edges behind...
LEMMA PushedIs ==
    ASSUME NEW g, NEW w, NEW reverse, NEW depth, Len(g.edges) \in Nat
    PROVE  /\ SU!Pushed(g, w, reverse, depth)[0] = Listed(g, w, reverse, depth)
           /\ \A i \in 1..Len(g.edges) :
                SU!Pushed(g, w, reverse, depth)[i] =
                  Along(g, w, reverse, depth, SU!Pushed(g, w, reverse, depth)[i - 1], i)
<1> DEFINE First == Listed(g, w, reverse, depth)
           Turn(x, i) == Along(g, w, reverse, depth, x, i)
           Is(f, m) == f = [i \in 0..m |-> IF i = 0 THEN First ELSE Turn(f[i - 1], i)]
           Some == {m \in Nat : \E f : Is(f, m)}
<1> HIDE DEF Turn, First
<1>1. 0 \in Some
  <2>1. Is([i \in 0..0 |-> First], 0)
    OBVIOUS
  <2> QED
    BY <2>1
<1>2. ASSUME NEW m \in Some PROVE m + 1 \in Some
  <2>1. PICK f : Is(f, m)
    BY <1>2
  <2>2. m \in Nat /\ m + 1 \in Nat
    OBVIOUS
  <2> DEFINE h == [i \in 0..(m + 1) |-> IF i <= m THEN f[i] ELSE Turn(f[m], i)]
  <2>3. ASSUME NEW i \in 0..(m + 1)
        PROVE  h[i] = IF i = 0 THEN First ELSE Turn(h[i - 1], i)
    <3>1. CASE i = 0
      BY <2>1, <2>2, <3>1
    <3>2. CASE i # 0 /\ i <= m
      BY <2>1, <2>2, <3>2
    <3>3. CASE i = m + 1
      BY <2>2, <3>3
    <3> QED
      BY <2>2, <3>1, <3>2, <3>3
  <2>4. Is(h, m + 1)
    BY <2>3
  <2>5. \E f2 : Is(f2, m + 1)
    BY <2>4
  <2> HIDE DEF Is
  <2> QED
    BY <2>2, <2>5
<1>3. \E f : Is(f, Len(g.edges))
  <2> HIDE DEF Is
  <2>1. Some = Nat
    BY <1>1, <1>2, Upwards
  <2> QED
    BY <2>1
<1>4. Is(SU!Pushed(g, w, reverse, depth), Len(g.edges))
  BY <1>3 DEF SU!Pushed, Turn, First, Along, Listed, To
<1>5. SU!Pushed(g, w, reverse, depth)[0] = First
  BY <1>4
<1>6. ASSUME NEW i \in 1..Len(g.edges)
      PROVE  SU!Pushed(g, w, reverse, depth)[i] = Turn(SU!Pushed(g, w, reverse, depth)[i - 1], i)
  BY <1>4
<1> QED
  BY <1>5, <1>6 DEF Turn, First

\* ...and one turn follows the other.
LEMMA WalkedIs ==
    ASSUME NEW g, NEW root, NEW reverse, NEW depth, Cardinality(SU!Ids(g)) \in Nat
    PROVE  /\ SU!Walked(g, root, reverse, depth)[0] =
                [queue |-> <<[id |-> root, hops |-> 0]>>, seen |-> {root},
                 nodes |-> <<>>, edges |-> {}]
           /\ \A k \in 1..Cardinality(SU!Ids(g)) :
                SU!Walked(g, root, reverse, depth)[k] =
                  SU!Visit(g, SU!Walked(g, root, reverse, depth)[k - 1], reverse, depth)
<1> DEFINE N == Cardinality(SU!Ids(g))
           First == [queue |-> <<[id |-> root, hops |-> 0]>>, seen |-> {root},
                     nodes |-> <<>>, edges |-> {}]
           Turn(x, k) == SU!Visit(g, x, reverse, depth)
           Is(f, m) == f = [k \in 0..m |-> IF k = 0 THEN First ELSE Turn(f[k - 1], k)]
           Some == {m \in Nat : \E f : Is(f, m)}
<1> HIDE DEF Turn, First
<1>1. 0 \in Some
  <2>1. Is([i \in 0..0 |-> First], 0)
    OBVIOUS
  <2> QED
    BY <2>1
<1>2. ASSUME NEW m \in Some PROVE m + 1 \in Some
  <2>1. PICK f : Is(f, m)
    BY <1>2
  <2>2. m \in Nat /\ m + 1 \in Nat
    OBVIOUS
  <2> DEFINE h == [k \in 0..(m + 1) |-> IF k <= m THEN f[k] ELSE Turn(f[m], k)]
  <2>3. ASSUME NEW k \in 0..(m + 1)
        PROVE  h[k] = IF k = 0 THEN First ELSE Turn(h[k - 1], k)
    <3>1. CASE k = 0
      BY <2>1, <2>2, <3>1
    <3>2. CASE k # 0 /\ k <= m
      BY <2>1, <2>2, <3>2
    <3>3. CASE k = m + 1
      BY <2>2, <3>3
    <3> QED
      BY <2>2, <3>1, <3>2, <3>3
  <2>4. Is(h, m + 1)
    BY <2>3
  <2>5. \E f2 : Is(f2, m + 1)
    BY <2>4
  <2> HIDE DEF Is
  <2> QED
    BY <2>2, <2>5
<1>3. \E f : Is(f, N)
  <2> HIDE DEF Is
  <2>1. Some = Nat
    BY <1>1, <1>2, Upwards
  <2> QED
    BY <2>1
<1>4. Is(SU!Walked(g, root, reverse, depth), N)
  BY <1>3, SameSupplyCount DEF SU!Walked, Turn, First
<1> HIDE DEF N
<1>5. N \in Nat
  BY DEF N
<1>6. SU!Walked(g, root, reverse, depth)[0] = First
  BY <1>4, <1>5
<1>7. ASSUME NEW k \in 1..N
      PROVE  SU!Walked(g, root, reverse, depth)[k] = Turn(SU!Walked(g, root, reverse, depth)[k - 1], k)
  BY <1>4, <1>5
<1> QED
  BY <1>6, <1>7 DEF Turn, First, N

\* The rest without its first...
LEMMA RestTail ==
    ASSUME NEW n \in Nat, NEW A, NEW p \in Nat, p < n
    PROVE  /\ Rest(A, p, n) # <<>>
           /\ Head(Rest(A, p, n)) = A[p + 1]
           /\ Tail(Rest(A, p, n)) = Rest(A, p + 1, n)
           /\ Append(Rest(A, 0, p), A[p + 1]) = Rest(A, 0, p + 1)
<1> DEFINE S == {A[i] : i \in 1..n}
<1>1. Rest(A, p, n) \in Seq(S) /\ Rest(A, 0, p) \in Seq(S)
  BY DEF Rest
<1>2. Len(Rest(A, p, n)) = n - p /\ Len(Rest(A, 0, p)) = p
  BY DEF Rest
<1>3. Rest(A, p, n) # <<>> /\ Head(Rest(A, p, n)) = A[p + 1]
  <2>1. Len(Rest(A, p, n)) # 0
    BY <1>2
  <2>2. Rest(A, p, n)[1] = A[p + 1]
    BY DEF Rest
  <2> QED
    BY <1>1, <2>1, <2>2
<1>4. Tail(Rest(A, p, n)) = Rest(A, p + 1, n)
  <2> DEFINE r == Rest(A, p, n)
             t == Tail(r)
  <2>1. r \in Seq(S) /\ r # <<>> /\ Len(r) = n - p
    BY <1>1, <1>2, <1>3
  <2>2. \A i \in 1..(n - (p + 1)) : r[i + 1] = A[(p + 1) + i]
    BY DEF Rest
  <2> HIDE DEF r
  <2>3. t \in Seq(S) /\ Len(t) = n - (p + 1)
    BY <2>1
  <2>4. \A i \in 1..(n - (p + 1)) : t[i] = r[i + 1]
    BY <2>1
  <2> HIDE DEF t
  <2>5. t = [i \in 1..(n - (p + 1)) |-> t[i]]
    BY <2>3
  <2> QED
    BY <2>2, <2>4, <2>5 DEF Rest, t, r
<1>5. Append(Rest(A, 0, p), A[p + 1]) = Rest(A, 0, p + 1)
  BY <1>1, <1>2 DEF Rest
<1> QED
  BY <1>3, <1>4, <1>5

\* B is A with one more behind.
Grown(A, n, e, B) == (\A i \in 1..n : B[i] = A[i]) /\ B[n + 1] = e

\* One more behind is the last of the rest.
LEMMA RestAppend ==
    ASSUME NEW n \in Nat, NEW A, NEW e, NEW B, Grown(A, n, e, B), NEW p \in 0..n
    PROVE  /\ Append(Rest(A, p, n), e) = Rest(B, p, n + 1)
           /\ Rest(B, 0, p) = Rest(A, 0, p)
<1> DEFINE l == n + 1
           S == {B[i] : i \in 1..l}
<1>1. Rest(A, p, n) \in Seq(S) /\ Len(Rest(A, p, n)) = n - p
  <2>1. \A i \in 1..(n - p) : A[p + i] = B[p + i] /\ p + i \in 1..l
    BY DEF Grown
  <2> QED
    BY <2>1 DEF Rest
<1>2. Rest(B, 0, p) = Rest(A, 0, p)
  BY DEF Rest, Grown
<1>3. Append(Rest(A, p, n), e) = Rest(B, p, l)
  <2> DEFINE r == Rest(A, p, n)
             t == Append(r, e)
  <2>1. \A i \in 1..(n - p) : r[i] = B[p + i]
    BY DEF Rest, Grown
  <2> HIDE DEF r
  <2>2. e \in S /\ e = B[l]
    BY DEF Grown
  <2> HIDE DEF S
  <2>3. t \in Seq(S) /\ Len(t) = l - p
    BY <1>1, <2>2 DEF r
  <2>4. ASSUME NEW i \in 1..(l - p) PROVE t[i] = B[p + i]
    <3>1. CASE i \in 1..(n - p)
      BY <1>1, <2>1, <2>2, <3>1 DEF r
    <3>2. CASE i = (n - p) + 1
      <4>1. p + i = l
        BY <3>2
      <4>2. Len(r) + 1 = i
        BY <1>1, <3>2 DEF r
      <4>3. t[Len(r) + 1] = e
        BY <1>1, <2>2 DEF r
      <4> HIDE DEF t
      <4> QED
        BY <2>2, <4>1, <4>2, <4>3
    <3> HIDE DEF t
    <3> QED
      BY <3>1, <3>2
  <2> HIDE DEF t
  <2>5. t = [i \in 1..(l - p) |-> t[i]]
    BY <2>3
  <2> QED
    BY <2>4, <2>5 DEF Rest, t, r
<1> QED
  BY <1>2, <1>3


\* A neighbour found in a turn is one hop farther, and no nearer.
LEMMA NextDistance ==
    ASSUME NEW g, NEW root, NEW reverse, NEW depth \in Nat,
           NEW p \in Nat, NEW here, NEW seen, NEW e \in SU!Taken(g, here, reverse, depth),
           NEW n \in Nat, NEW A, p + 1 <= n, A[p + 1] = here,
           Found(g, root, reverse, depth, A, n, seen),
           Followed(g, reverse, depth, A, p, {}, seen),
           To(g, reverse, e) \notin seen
    PROVE  /\ here.hops + 1 \in 1..depth
           /\ To(g, reverse, e) \in SU!Within(g, root, reverse, depth)[here.hops + 1]
           /\ \A k \in 0..depth :
                To(g, reverse, e) \in SU!Within(g, root, reverse, depth)[k] => here.hops + 1 <= k
<1> DEFINE next == To(g, reverse, e)
           reach == SU!Within(g, root, reverse, depth)
           S == [id : SU!Ids(g), hops : 0..depth]
<1>1. A \in [1..n -> S] /\ here \in S /\ p + 1 \in 1..n
  BY DEF Found
<1>2. here.hops # depth /\ From(g, reverse, e) = here.id /\ e \in DOMAIN g.edges
  BY DEF SU!Taken, From
<1>3. here.hops \in 0..depth /\ here.hops + 1 \in 1..depth /\ (here.hops + 1) - 1 = here.hops
  <2>1. here.hops \in 0..depth
    BY <1>1
  <2> QED
    BY <1>2, <2>1
<1>4. next \in reach[here.hops + 1]
  <2>1. here.id \in reach[here.hops]
    BY <1>1 DEF Found
  <2> QED
    BY <1>2, <1>3, <2>1, WithinIs
<1>5. ASSUME NEW k \in 0..depth, next \in reach[k] PROVE here.hops + 1 <= k
  <2>1. SUFFICES ASSUME k <= here.hops PROVE FALSE
    BY <1>3
  <2>2. reach[k] \subseteq reach[here.hops]
    BY <1>3, <2>1, WithinGrows
  <2>3. \A i \in 1..n : A[i].hops < here.hops => i <= p
    <3>1. SUFFICES ASSUME NEW i \in 1..n, i > p PROVE ~(A[i].hops < here.hops)
      OBVIOUS
    <3>2. p + 1 <= i
      BY <3>1
    <3>3. A[p + 1].hops <= A[i].hops
      BY <1>1, <3>2 DEF Found
    <3>4. A[i].hops \in Nat /\ A[p + 1].hops = here.hops /\ here.hops \in Nat
      BY <1>1
    <3> QED
      BY <3>3, <3>4
  <2>4. reach[here.hops] \subseteq seen
    BY <1>3, <2>3, NearFound
  <2> QED
    BY <1>5, <2>2, <2>4
<1> QED
  BY <1>3, <1>4, <1>5

\* It comes last: it is as far as a node can be then.
LEMMA FollowFinds ==
    ASSUME NEW g, NEW root, NEW reverse, NEW depth \in Nat, NEW n \in Nat, NEW A, NEW seen,
           Found(g, root, reverse, depth, A, n, seen),
           NEW l, l = n + 1, NEW B \in [1..l -> [id : SU!Ids(g), hops : 0..depth]],
           \A i \in 1..n : B[i] = A[i],
           NEW next, next \notin seen, NEW h \in 0..depth, B[l].id = next, B[l].hops = h,
           \A i \in 1..n : A[i].hops <= h,
           next \in SU!Within(g, root, reverse, depth)[h],
           \A k \in 0..depth : next \in SU!Within(g, root, reverse, depth)[k] => h <= k
    PROVE  Found(g, root, reverse, depth, B, l, seen \cup {next})
<1> DEFINE reach == SU!Within(g, root, reverse, depth)
<1>1. seen = {A[i].id : i \in 1..n} /\ root \in seen
  BY DEF Found
<1>2. \A i \in 1..l : i \in 1..n \/ i = l
  OBVIOUS
<1>3. l \in Nat /\ l \in 1..l /\ \A i \in 1..n : i \in 1..l /\ i # l
  OBVIOUS
<1>4. seen \cup {next} = {B[i].id : i \in 1..l}
  <2>1. ASSUME NEW i \in 1..l PROVE B[i].id \in seen \cup {next}
    BY <1>1, <1>2
  <2>2. ASSUME NEW i \in 1..n PROVE A[i].id \in {B[j].id : j \in 1..l}
    <3>1. B[i].id = A[i].id /\ i \in 1..l
      OBVIOUS
    <3> QED
      BY <3>1
  <2>3. next \in {B[j].id : j \in 1..l}
    BY <1>3
  <2> DEFINE T == {B[i].id : i \in 1..l}
  <2>4. T \subseteq seen \cup {next}
    BY <2>1
  <2>5. seen \subseteq T
    BY <1>1, <2>2
  <2> HIDE DEF T
  <2> QED
    BY <2>3, <2>4, <2>5 DEF T
<1>5. \A i, j \in 1..l : B[i].id = B[j].id => i = j
  <2>1. \A i \in 1..n : A[i].id \in seen
    BY <1>1
  <2>2. \A i, j \in 1..n : A[i].id = A[j].id => i = j
    BY DEF Found
  <2>3. SUFFICES ASSUME NEW i \in 1..l, NEW j \in 1..l, B[i].id = B[j].id PROVE i = j
    OBVIOUS
  <2>4. CASE i \in 1..n /\ j \in 1..n
    BY <2>2, <2>3, <2>4
  <2>5. CASE i = l /\ j \in 1..n
    BY <2>1, <2>3, <2>5
  <2>6. CASE i \in 1..n /\ j = l
    BY <2>1, <2>3, <2>6
  <2> QED
    BY <1>2, <2>4, <2>5, <2>6
<1>6. \A i, j \in 1..l : i <= j => B[i].hops <= B[j].hops
  <2>1. SUFFICES ASSUME NEW i \in 1..l, NEW j \in 1..l, i <= j
                 PROVE  B[i].hops <= B[j].hops
    OBVIOUS
  <2>2. CASE j \in 1..n
    <3>1. i \in 1..n
      BY <2>1, <2>2
    <3> QED
      BY <2>1, <2>2, <3>1 DEF Found
  <2>3. CASE j = l /\ i \in 1..n
    BY <2>3
  <2>4. CASE i = l /\ j = l
    BY <2>4
  <2> QED
    BY <1>2, <2>1, <2>2, <2>3, <2>4
<1>7. \A i \in 1..l : /\ B[i].id \in reach[B[i].hops]
                            /\ \A k \in 0..depth : B[i].id \in reach[k] => B[i].hops <= k
  <2>1. \A i \in 1..n : /\ A[i].id \in reach[A[i].hops]
                        /\ \A k \in 0..depth : A[i].id \in reach[k] => A[i].hops <= k
    BY DEF Found
  <2>2. TAKE i \in 1..l
  <2>3. CASE i \in 1..n
    BY <2>1, <2>3
  <2>4. CASE i = l
    BY <2>4
  <2> QED
    BY <1>2, <2>3, <2>4
<1> QED
  BY <1>1, <1>3, <1>4, <1>5, <1>6, <1>7 DEF Found

\* The edges of one more node.
LEMMA LeavingNext ==
    ASSUME NEW g, NEW reverse, NEW depth, NEW A, NEW p \in Nat
    PROVE  Leaving(g, reverse, depth, A, p + 1) =
             Leaving(g, reverse, depth, A, p) \cup SU!Taken(g, A[p + 1], reverse, depth)
<1>1. \A i \in 1..(p + 1) : i \in 1..p \/ i = p + 1
  OBVIOUS
<1>2. p + 1 \in 1..(p + 1) /\ \A i \in 1..p : i \in 1..(p + 1)
  OBVIOUS
<1> QED
  BY <1>1, <1>2 DEF Leaving, SU!Taken, From

\* One more edge of a turn.
LEMMA FollowKeeps ==
    ASSUME NEW g, Walkable(g), NEW root, NEW reverse, NEW depth \in Nat,
           NEW p \in Nat, NEW here, NEW m \in Nat, m + 1 <= Len(g.edges), NEW w,
           PushInv(g, root, reverse, depth, p, here, m, w)
    PROVE  PushInv(g, root, reverse, depth, p, here, m + 1,
                   IF m + 1 \in SU!Taken(g, here, reverse, depth)
                   THEN SU!Follow(w, here, To(g, reverse, m + 1)) ELSE w)
<1> DEFINE out == SU!Taken(g, here, reverse, depth)
           next == To(g, reverse, m + 1)
           E(l) == {e \in out : e > l}
<1>0. PICK A : \E n \in Nat : Pushing(g, root, reverse, depth, p, here, m, w, A, n)
  BY DEF PushInv
<1>1. PICK n \in Nat :
        /\ p + 1 <= n /\ A[p + 1] = here
        /\ Lists(g, reverse, depth, w, A, n, p + 1)
        /\ Found(g, root, reverse, depth, A, n, w.seen)
        /\ Followed(g, reverse, depth, A, p, {}, w.seen)
        /\ Followed(g, reverse, depth, A, p + 1, E(m), w.seen)
        /\ \A i \in 1..n : A[i].hops <= here.hops + 1
  BY <1>0 DEF Pushing
<1>2. \A e \in E(m) : e \in E(m + 1) \/ e = m + 1
  BY DEF Walkable, SU!Taken
<1>3. CASE m + 1 \notin out \/ next \in w.seen
  <2>1. Followed(g, reverse, depth, A, p + 1, E(m + 1), w.seen)
    BY <1>1, <1>2, <1>3 DEF Followed
  <2>2. PushInv(g, root, reverse, depth, p, here, m + 1, w)
    BY <1>1, <2>1 DEF PushInv, Pushing
  <2> QED
    BY <1>3, <2>2 DEF SU!Follow
<1>4. CASE m + 1 \in out /\ next \notin w.seen
  <2> DEFINE last == [id |-> next, hops |-> here.hops + 1]
             B == [i \in 1..(n + 1) |-> IF i <= n THEN A[i] ELSE last]
             S == [id : SU!Ids(g), hops : 0..depth]
             seen == w.seen \cup {next}
             x == SU!Follow(w, here, next)
  <2>1. A \in [1..n -> S] /\ p + 1 \in 1..n
    BY <1>1 DEF Found
  <2>2. last \in S
    <3>1. here \in S
      BY <1>1, <2>1
    <3>2. here.hops \in 0..depth /\ here.hops # depth
      BY <1>4, <3>1 DEF SU!Taken
    <3>3. here.hops + 1 \in 0..depth
      BY <3>2
    <3>4. next \in SU!Ids(g)
      BY <1>4 DEF SU!Taken, SU!Ids, To, SU!Sink
    <3> QED
      BY <3>3, <3>4
  <2>3. B \in [1..(n + 1) -> S] /\ B[n + 1] = last /\ \A i \in 1..n : B[i] = A[i]
    <3> HIDE DEF S, last
    <3> QED
      BY <2>1, <2>2
  <2>4. Found(g, root, reverse, depth, B, n + 1, seen)
    <3>1. B[n + 1].id = next /\ B[n + 1].hops = here.hops + 1
      BY <2>3
    <3>2. PICK e : e = m + 1
      OBVIOUS
    <3>3. /\ here.hops + 1 \in 1..depth
          /\ To(g, reverse, e) \in SU!Within(g, root, reverse, depth)[here.hops + 1]
          /\ \A k \in 0..depth :
               To(g, reverse, e) \in SU!Within(g, root, reverse, depth)[k] => here.hops + 1 <= k
      <4>1. e \in SU!Taken(g, here, reverse, depth) /\ To(g, reverse, e) \notin w.seen
        BY <1>4, <3>2
      <4> HIDE DEF B, last, seen, next, out, E, x
      <4> QED
        BY <1>1, <4>1, NextDistance
    <3>4. PICK h : h = here.hops + 1
      OBVIOUS
    <3>5. next = To(g, reverse, e) /\ next \notin w.seen
      BY <1>4, <3>2
    <3>6. PICK l : l = n + 1
      OBVIOUS
    <3> HIDE DEF B, last, next, E, x, out
    <3>7. /\ h \in 0..depth /\ next \in SU!Within(g, root, reverse, depth)[h]
          /\ \A k \in 0..depth : next \in SU!Within(g, root, reverse, depth)[k] => h <= k
      BY <3>3, <3>4, <3>5
    <3>8. /\ B \in [1..l -> [id : SU!Ids(g), hops : 0..depth]] /\ \A i \in 1..n : B[i] = A[i]
          /\ B[l].id = next /\ B[l].hops = h /\ \A i \in 1..n : A[i].hops <= h
      BY <1>1, <2>3, <3>1, <3>4, <3>6
    <3> HIDE DEF seen
    <3>9. Found(g, root, reverse, depth, B, l, w.seen \cup {next})
      BY <1>1, <3>5, <3>6, <3>7, <3>8, FollowFinds
    <3> QED
      BY <3>6, <3>9 DEF seen
  <2>5. /\ Append(Rest(A, p + 1, n), last) = Rest(B, p + 1, n + 1)
        /\ Rest(B, 0, p + 1) = Rest(A, 0, p + 1)
    <3>1. PICK q : q = p + 1
      OBVIOUS
    <3>2. q \in 0..n
      BY <2>1, <3>1
    <3> HIDE DEF B, last
    <3>3. Grown(A, n, last, B)
      BY <2>3 DEF Grown
    <3> QED
      BY <3>1, <3>2, <3>3, RestAppend
  <2>6. \A l \in 0..n : Leaving(g, reverse, depth, B, l) = Leaving(g, reverse, depth, A, l)
    <3>1. TAKE l \in 0..n
    <3>2. \A i \in 1..l : B[i] = A[i]
      BY <2>3
    <3> HIDE DEF B
    <3> QED
      BY <3>2 DEF Leaving
  <2>7. x = [queue |-> Append(w.queue, last), seen |-> seen, nodes |-> w.nodes,
             edges |-> w.edges]
    BY <1>1, <1>4 DEF SU!Follow, Lists
  <2>8. seen = {B[i].id : i \in 1..(n + 1)}
    BY <2>4 DEF Found
  <2>9. w.queue = Rest(A, p + 1, n) /\ w.nodes = Rest(A, 0, p + 1)
        /\ w.edges = Leaving(g, reverse, depth, A, p + 1)
    BY <1>1 DEF Lists
  <2>10. p + 1 \in 0..n /\ p \in 0..n /\ p + 1 \in 1..n
    BY <1>1
  <2>11. here.hops \in Nat
    BY <1>1, <2>1, <2>10
  <2>12. B[p + 1] = here /\ \A i \in 1..(n + 1) : B[i].hops <= here.hops + 1
    <3>1. \A i \in 1..(n + 1) : i \in 1..n \/ i = n + 1
      OBVIOUS
    <3>2. last.hops = here.hops + 1
      OBVIOUS
    <3> HIDE DEF B, last
    <3>3. B[p + 1] = here
      BY <1>1, <2>3, <2>10
    <3>4. \A i \in 1..n : B[i].hops <= here.hops + 1
      BY <1>1, <2>3
    <3>5. B[n + 1].hops <= here.hops + 1
      BY <2>3, <2>11, <3>2
    <3> QED
      BY <3>1, <3>3, <3>4, <3>5
  <2> HIDE DEF B, last, x, seen
  <2>13. Lists(g, reverse, depth, x, B, n + 1, p + 1)
    BY <2>5, <2>6, <2>7, <2>8, <2>9, <2>10 DEF Lists
  <2>14. x.seen = seen
    BY <2>7
  <2>15. Followed(g, reverse, depth, B, p, {}, seen)
    BY <1>1, <2>6, <2>10 DEF Followed, seen
  <2>16. Followed(g, reverse, depth, B, p + 1, E(m + 1), seen)
    BY <1>1, <1>2, <2>6, <2>10 DEF Followed, seen
  <2>17. p + 1 <= n + 1 /\ n + 1 \in Nat
    BY <1>1
  <2>18. PushInv(g, root, reverse, depth, p, here, m + 1, x)
    <3> HIDE DEF E
    <3> QED
      BY <2>4, <2>12, <2>13, <2>14, <2>15, <2>16, <2>17 DEF PushInv, Pushing, E
  <2> QED
    BY <1>4, <2>18 DEF x
<1> QED
  BY <1>3, <1>4

\* A turn lists one more node, if there is one left.
LEMMA VisitKeeps ==
    ASSUME NEW g, Walkable(g), NEW root, NEW reverse, NEW depth \in Nat,
           NEW k \in Nat, NEW w, WalkInv(g, root, reverse, depth, k, w)
    PROVE  WalkInv(g, root, reverse, depth, k + 1, SU!Visit(g, w, reverse, depth))
<1>0. PICK A : \E n, p \in Nat : Walking(g, root, reverse, depth, k, w, A, n, p)
  BY DEF WalkInv
<1>1. PICK n, p \in Nat :
        /\ p <= n /\ (p = k \/ p = n)
        /\ Lists(g, reverse, depth, w, A, n, p)
        /\ Found(g, root, reverse, depth, A, n, w.seen)
        /\ Followed(g, reverse, depth, A, p, {}, w.seen)
        /\ p < n => \A i \in 1..n : A[i].hops <= A[p + 1].hops + 1
  BY <1>0 DEF Walking
<1>2. CASE p = n
  <2>1. w.queue = <<>>
    BY <1>1, <1>2 DEF Lists, Rest
  <2>2. SU!Visit(g, w, reverse, depth) = w
    BY <2>1 DEF SU!Visit
  <2>3. WalkInv(g, root, reverse, depth, k + 1, w)
    BY <1>1, <1>2 DEF WalkInv, Walking
  <2> QED
    BY <2>2, <2>3
<1>3. CASE p < n
  <2> DEFINE S == [id : SU!Ids(g), hops : 0..depth]
             here == A[p + 1]
             out == SU!Taken(g, here, reverse, depth)
             after == SU!Pushed(g, w, reverse, depth)
             Inv(m) == PushInv(g, root, reverse, depth, p, here, m, after[m])
             M == {m \in Nat : m <= Len(g.edges) => Inv(m)}
  <2>1. A \in [1..n -> S] /\ p + 1 \in 1..n /\ p + 1 <= n
    BY <1>1, <1>3 DEF Found
  <2>2. w.queue # <<>> /\ Head(w.queue) = here /\ Tail(w.queue) = Rest(A, p + 1, n)
        /\ Append(w.nodes, here) = Rest(A, 0, p + 1)
    <3>1. w.queue = Rest(A, p, n) /\ w.nodes = Rest(A, 0, p)
      BY <1>1 DEF Lists
    <3>2. /\ Rest(A, p, n) # <<>>
          /\ Head(Rest(A, p, n)) = A[p + 1]
          /\ Tail(Rest(A, p, n)) = Rest(A, p + 1, n)
          /\ Append(Rest(A, 0, p), A[p + 1]) = Rest(A, 0, p + 1)
      BY <1>3, RestTail
    <3> QED
      BY <3>1, <3>2
  <2>3. Inv(0)
    <3>1. after[0] = [queue |-> Rest(A, p + 1, n), seen |-> w.seen,
                      nodes |-> Rest(A, 0, p + 1), edges |-> w.edges \cup out]
      <4>1. after[0] = [w EXCEPT !.queue = Tail(@), !.nodes = Append(@, here),
                                 !.edges = @ \cup out]
        <5>1. after[0] = Listed(g, w, reverse, depth)
          BY PushedIs DEF Walkable
        <5> HIDE DEF after, here
        <5> QED
          BY <2>2, <5>1 DEF Listed
      <4>2. w = [queue |-> w.queue, seen |-> w.seen, nodes |-> w.nodes, edges |-> w.edges]
        BY <1>1 DEF Lists
      <4> HIDE DEF here, out, after
      <4> QED
        BY <2>2, <4>1, <4>2
    <3>2. w.edges \cup out = Leaving(g, reverse, depth, A, p + 1)
      <4>1. w.edges = Leaving(g, reverse, depth, A, p)
        BY <1>1 DEF Lists
      <4> QED
        BY <4>1, LeavingNext
    <3>3. w.seen = {A[i].id : i \in 1..n}
      BY <1>1 DEF Lists
    <3> HIDE DEF after, out
    <3>4. Lists(g, reverse, depth, after[0], A, n, p + 1) /\ after[0].seen = w.seen
      <4>1. after[0].edges = w.edges \cup out /\ after[0].seen = w.seen
        BY <3>1
      <4> QED
        BY <3>1, <3>2, <3>3, <4>1 DEF Lists
    <3>5. {e \in out : e > 0} = out
      BY DEF out, SU!Taken, Walkable
    <3>6. Followed(g, reverse, depth, A, p + 1, {e \in out : e > 0}, w.seen)
      BY <1>1, <3>5, LeavingNext DEF Followed, out
    <3> QED
      BY <1>1, <1>3, <2>1, <3>4, <3>6 DEF PushInv, Pushing, out
  <2>4. ASSUME NEW m \in M, m + 1 <= Len(g.edges) PROVE Inv(m + 1)
    <3>1. m \in Nat /\ m <= Len(g.edges) /\ m + 1 \in 1..Len(g.edges) /\ (m + 1) - 1 = m
      BY <2>4 DEF Walkable
    <3>2. Inv(m)
      BY <2>4, <3>1
    <3>3. after[m + 1] = IF m + 1 \in out THEN SU!Follow(after[m], here, To(g, reverse, m + 1))
                         ELSE after[m]
      <4>1. \A i \in 1..Len(g.edges) :
              after[i] = Along(g, w, reverse, depth, after[i - 1], i)
        BY PushedIs DEF Walkable
      <4> HIDE DEF after
      <4> QED
        BY <2>2, <3>1, <4>1 DEF Along
    <3> HIDE DEF after, out, here
    <3> QED
      BY <3>1, <3>2, <3>3, FollowKeeps DEF out
  <2>5. Inv(Len(g.edges))
    <3>1. Len(g.edges) \in Nat
      BY DEF Walkable
    <3> HIDE DEF Inv
    <3>2. \A m \in M : m + 1 \in M
      BY <2>4
    <3>3. 0 \in M
      BY <2>3
    <3> HIDE DEF M
    <3>4. M \in SUBSET Nat
      BY DEF M
    <3>5. M = Nat
      BY <3>2, <3>3, <3>4, Upwards
    <3> QED
      BY <3>1, <3>5 DEF M
  <2> DEFINE x == after[Len(g.edges)]
  <2>6. SU!Visit(g, w, reverse, depth) = x
    BY <2>2 DEF SU!Visit
  <2> HIDE DEF x, after
  <2>7. WalkInv(g, root, reverse, depth, k + 1, x)
    <3>0. PICK B : \E n2 \in Nat : Pushing(g, root, reverse, depth, p, here, Len(g.edges), x, B, n2)
      BY <2>5 DEF PushInv, x
    <3>1. PICK n2 \in Nat :
            /\ p + 1 <= n2 /\ B[p + 1] = here
            /\ Lists(g, reverse, depth, x, B, n2, p + 1)
            /\ Found(g, root, reverse, depth, B, n2, x.seen)
            /\ Followed(g, reverse, depth, B, p + 1, {e \in out : e > Len(g.edges)}, x.seen)
            /\ \A i \in 1..n2 : B[i].hops <= here.hops + 1
      BY <3>0 DEF Pushing
    <3>2. {e \in out : e > Len(g.edges)} = {}
      BY DEF SU!Taken, Walkable
    <3>3. p + 1 < n2 => \A i \in 1..n2 : B[i].hops <= B[(p + 1) + 1].hops + 1
      <4>1. SUFFICES ASSUME p + 1 < n2, NEW i \in 1..n2
                     PROVE  B[i].hops <= B[(p + 1) + 1].hops + 1
        OBVIOUS
      <4>2. p + 1 \in 1..n2 /\ (p + 1) + 1 \in 1..n2
        BY <4>1
      <4>3. B[p + 1].hops <= B[(p + 1) + 1].hops
        BY <3>1, <4>2 DEF Found
      <4>4. B[i].hops \in Nat /\ B[p + 1].hops \in Nat /\ B[(p + 1) + 1].hops \in Nat
        BY <3>1, <4>2 DEF Found
      <4>5. B[i].hops <= here.hops + 1 /\ B[p + 1] = here
        BY <3>1
      <4> HIDE DEF here
      <4> QED
        BY <4>3, <4>4, <4>5
    <3>4. p + 1 = k + 1 /\ p + 1 \in Nat
      BY <1>1, <1>3
    <3> QED
      BY <3>1, <3>2, <3>3, <3>4 DEF WalkInv, Walking
  <2> QED
    BY <2>6, <2>7
<1> QED
  BY <1>1, <1>2, <1>3


\* At first the root alone was found.
LEMMA FirstWalk ==
    ASSUME NEW g, NEW root \in SU!Ids(g), NEW reverse, NEW depth \in Nat
    PROVE  WalkInv(g, root, reverse, depth, 0,
                   [queue |-> <<[id |-> root, hops |-> 0]>>, seen |-> {root},
                    nodes |-> <<>>, edges |-> {}])
<1> DEFINE start == [id |-> root, hops |-> 0]
           A == [i \in 1..1 |-> start]
           w == [queue |-> <<start>>, seen |-> {root}, nodes |-> <<>>, edges |-> {}]
<1>1. start \in [id : SU!Ids(g), hops : 0..depth] /\ start.id = root /\ start.hops = 0
  OBVIOUS
<1> HIDE DEF start
<1>2. A \in [1..1 -> [id : SU!Ids(g), hops : 0..depth]] /\ \A i \in 1..1 : A[i] = start /\ i = 1
  BY <1>1
<1>3. <<start>> = Rest(A, 0, 1) /\ <<>> = Rest(A, 0, 0)
  BY DEF Rest
<1> HIDE DEF A
<1>4. {root} = {A[i].id : i \in 1..1}
  BY <1>1, <1>2
<1>5. Found(g, root, reverse, depth, A, 1, {root})
  <2>1. root \in SU!Within(g, root, reverse, depth)[0]
    BY WithinIs
  <2> QED
    BY <1>1, <1>2, <1>4, <2>1 DEF Found
<1>6. Leaving(g, reverse, depth, A, 0) = {}
  BY DEF Leaving
<1>7. Lists(g, reverse, depth, w, A, 1, 0) /\ w.seen = {root}
  BY <1>3, <1>4, <1>6 DEF Lists
<1>8. Followed(g, reverse, depth, A, 0, {}, {root})
  BY <1>6 DEF Followed
<1>9. \A i \in 1..1 : A[i].hops <= A[0 + 1].hops + 1
  BY <1>1, <1>2
<1> HIDE DEF w
<1>10. WalkInv(g, root, reverse, depth, 0, w)
  BY <1>5, <1>7, <1>8, <1>9 DEF WalkInv, Walking
<1> QED
  BY <1>10 DEF w, start

\* Nobody is found twice, so there are no more than nodes.
LEMMA FoundFew ==
    ASSUME NEW g, IsFiniteSet(SU!Ids(g)), NEW root, NEW reverse, NEW depth \in Nat,
           NEW A, NEW n, NEW seen, Found(g, root, reverse, depth, A, n, seen)
    PROVE  Cardinality(seen) = n /\ n <= Cardinality(SU!Ids(g))
<1> DEFINE f == [i \in 1..n |-> A[i].id]
<1>1. n \in Nat /\ \A i \in 1..n : A[i].id \in SU!Ids(g)
  BY DEF Found
<1>2. IsFiniteSet(1..n) /\ Cardinality(1..n) = n
  BY <1>1, FS_Interval
<1>3. \A i, j \in 1..n : f[i] = f[j] => i = j
  BY DEF Found
<1>4. f \in Injection(1..n, SU!Ids(g))
  BY <1>1, <1>3 DEF Injection, IsInjective
<1>5. f \in Surjection(1..n, seen) /\ f \in Injection(1..n, seen)
  BY <1>1, <1>3 DEF Found, Surjection, Injection, IsInjective
<1>6. n <= Cardinality(SU!Ids(g))
  BY <1>2, <1>4, FS_Injection
<1>7. Cardinality(seen) = n
  BY <1>2, <1>5, FS_Surjection
<1> QED
  BY <1>6, <1>7

\* w lists what the depth reaches.
Exact(g, root, reverse, depth, w) ==
    LET reach == SU!Within(g, root, reverse, depth)
        listed == {w.nodes[i].id : i \in DOMAIN w.nodes}
    IN /\ listed = reach[depth]
       /\ Len(w.nodes) = Cardinality(listed)
       /\ \A i \in DOMAIN w.nodes : \A k \in 0..depth :
            w.nodes[i].id \in reach[k] <=> w.nodes[i].hops <= k
       /\ w.edges = {i \in DOMAIN g.edges : depth > 0
                       /\ SU!Source(g.edges[i], reverse) \in reach[depth - 1]}

\* A walk whose queue is empty has found what its depth reaches.
LEMMA WalkEnds ==
    ASSUME NEW g, Walkable(g), NEW root, NEW reverse, NEW depth \in Nat, NEW w,
           WalkInv(g, root, reverse, depth, Cardinality(SU!Ids(g)), w)
    PROVE  Exact(g, root, reverse, depth, w)
<1> DEFINE reach == SU!Within(g, root, reverse, depth)
           listed == {w.nodes[i].id : i \in DOMAIN w.nodes}
           N == Cardinality(SU!Ids(g))
<1>0. PICK A : \E n, p \in Nat : Walking(g, root, reverse, depth, N, w, A, n, p)
  BY DEF WalkInv
<1>1. PICK n, p \in Nat :
        /\ p <= n /\ (p = N \/ p = n)
        /\ Lists(g, reverse, depth, w, A, n, p)
        /\ Found(g, root, reverse, depth, A, n, w.seen)
        /\ Followed(g, reverse, depth, A, p, {}, w.seen)
  BY <1>0 DEF Walking
<1>2. Cardinality(w.seen) = n /\ n <= N /\ p = n
  <2>1. Cardinality(w.seen) = n /\ n <= N
    BY <1>1, FoundFew DEF Walkable
  <2>2. N \in Nat
    BY FS_CardinalityType DEF Walkable
  <2> HIDE DEF N
  <2> QED
    BY <1>1, <2>1, <2>2
<1>3. w.nodes = [i \in 1..n |-> A[i]] /\ w.edges = Leaving(g, reverse, depth, A, n)
      /\ w.seen = {A[i].id : i \in 1..n}
  BY <1>1, <1>2 DEF Lists, Rest
<1>4. listed = w.seen
  BY <1>3
<1>5. ASSUME NEW i \in 1..n
      PROVE  A[i].hops \in 0..depth /\ \A k \in 0..depth : A[i].id \in reach[k] <=> A[i].hops <= k
  <2>1. A[i].hops \in 0..depth
    BY <1>1 DEF Found
  <2>2. ASSUME NEW k \in 0..depth, A[i].hops <= k PROVE A[i].id \in reach[k]
    <3>1. reach[A[i].hops] \subseteq reach[k]
      BY <2>1, <2>2, WithinGrows
    <3>2. A[i].id \in reach[A[i].hops]
      BY <1>1 DEF Found
    <3> QED
      BY <3>1, <3>2
  <2>3. ASSUME NEW k \in 0..depth, A[i].id \in reach[k] PROVE A[i].hops <= k
    BY <1>1, <2>3 DEF Found
  <2> QED
    BY <2>1, <2>2, <2>3
<1>6. w.seen = reach[depth]
  <2>1. depth \in 0..depth
    OBVIOUS
  <2>2. \A i \in 1..n : A[i].hops < depth => i <= n
    OBVIOUS
  <2>3. reach[depth] \subseteq w.seen
    BY <1>1, <1>2, <2>1, <2>2, NearFound
  <2>4. \A i \in 1..n : A[i].id \in reach[depth]
    <3>1. TAKE i \in 1..n
    <3>2. A[i].hops <= depth /\ (A[i].id \in reach[depth] <=> A[i].hops <= depth)
      BY <1>5, <2>1
    <3> QED
      BY <3>2
  <2> QED
    BY <1>3, <2>3, <2>4
<1>7. Len(w.nodes) = Cardinality(listed)
  <2>1. Len(w.nodes) = n
    BY <1>3
  <2> QED
    BY <1>2, <1>4, <2>1
<1>8. \A i \in DOMAIN w.nodes : \A k \in 0..depth :
        w.nodes[i].id \in reach[k] <=> w.nodes[i].hops <= k
  BY <1>3, <1>5
<1>9. w.edges = {e \in DOMAIN g.edges : depth > 0 /\ From(g, reverse, e) \in reach[depth - 1]}
  <2>1. ASSUME NEW e \in w.edges
        PROVE  e \in DOMAIN g.edges /\ depth > 0 /\ From(g, reverse, e) \in reach[depth - 1]
    <3>1. PICK i \in 1..n : A[i].hops # depth /\ From(g, reverse, e) = A[i].id
      BY <1>3, <2>1 DEF Leaving
    <3>2. depth > 0 /\ depth - 1 \in 0..depth /\ A[i].hops <= depth - 1
      BY <1>5, <3>1
    <3>3. A[i].id \in reach[depth - 1]
      BY <1>5, <3>2
    <3>4. e \in DOMAIN g.edges
      BY <1>3, <2>1 DEF Leaving
    <3> QED
      BY <3>1, <3>2, <3>3, <3>4
  <2>2. ASSUME NEW e \in DOMAIN g.edges, depth > 0, From(g, reverse, e) \in reach[depth - 1]
        PROVE  e \in w.edges
    <3>1. depth - 1 \in 0..depth /\ depth \in (depth - 1)..depth /\ depth - 1 < depth
      BY <2>2
    <3>2. reach[depth - 1] \subseteq reach[depth]
      BY <3>1, WithinGrows
    <3>3. PICK i \in 1..n : From(g, reverse, e) = A[i].id
      BY <1>3, <1>6, <2>2, <3>2
    <3>4. A[i].hops <= depth - 1 /\ A[i].hops \in Nat
      BY <1>5, <2>2, <3>1, <3>3
    <3>5. A[i].hops # depth
      BY <3>1, <3>4
    <3> QED
      BY <1>3, <2>2, <3>3, <3>5 DEF Leaving
  <2> QED
    BY <2>1, <2>2
<1> QED
  BY <1>4, <1>6, <1>7, <1>8, <1>9 DEF Exact, From

\* A walk of any depth is exact.
LEMMA WalkIsExact ==
    ASSUME NEW g, Walkable(g), NEW root \in SU!Ids(g), NEW reverse, NEW depth \in Nat
    PROVE  Exact(g, root, reverse, depth, SU!Walk(g, root, reverse, depth))
<1> DEFINE N == Cardinality(SU!Ids(g))
           after == SU!Walked(g, root, reverse, depth)
           Inv(k) == WalkInv(g, root, reverse, depth, k, after[k])
           M == {k \in Nat : k <= N => Inv(k)}
<1>1. N \in Nat
  BY FS_CardinalityType DEF Walkable
<1>2. after[0] = [queue |-> <<[id |-> root, hops |-> 0]>>, seen |-> {root},
                  nodes |-> <<>>, edges |-> {}]
      /\ \A k \in 1..N : after[k] = SU!Visit(g, after[k - 1], reverse, depth)
  BY <1>1, WalkedIs
<1> HIDE DEF after
<1>3. Inv(0)
  BY <1>2, FirstWalk
<1> HIDE DEF N
<1>4. ASSUME NEW k \in M, k + 1 <= N PROVE Inv(k + 1)
  <2>1. k \in Nat /\ k <= N /\ k + 1 \in 1..N /\ (k + 1) - 1 = k /\ Inv(k)
    BY <1>1, <1>4
  <2>2. after[k + 1] = SU!Visit(g, after[k], reverse, depth)
    BY <1>2, <2>1
  <2> QED
    BY <2>1, <2>2, VisitKeeps
<1>5. Inv(N)
  <2> HIDE DEF Inv
  <2>1. \A k \in M : k + 1 \in M
    BY <1>4
  <2>2. 0 \in M
    BY <1>3
  <2> HIDE DEF M
  <2>3. M \in SUBSET Nat
    BY DEF M
  <2>4. M = Nat
    BY <2>1, <2>2, <2>3, Upwards
  <2> QED
    BY <1>1, <2>4 DEF M
<1>6. SU!Walk(g, root, reverse, depth) = after[N]
  BY SameSupplyCount DEF SU!Walk, after, N
<1> QED
  BY <1>5, <1>6, WalkEnds DEF N

-----------------------------------------------------------------------------
(* The components whose theorems stand in modules of their own.            *)

McpProved == INSTANCE McpProofs WITH run <- reconcile
CacheProved == INSTANCE SidecarProofs WITH run <- evaluation
TrustProved == INSTANCE TrustProofs WITH
        Procs <- Observers, Names <- Hosts, Keys <- HostKeys, Entries <- Lines

\* The reconciler of MCTools is the one that McpProofs is about.
LEMMA McpProvedSame ==
    /\ MC!ConstantsSound => McpProved!ConstantsSound
    /\ MC!Init => McpProved!Init
    /\ [MC!Next]_mc => [McpProved!Next]_McpProved!vars
    /\ (McpProved!KeepsOwner) = (MC!KeepsOwner)
    /\ (McpProved!KeepsForeign) = (MC!KeepsForeign)
    /\ (McpProved!TypeOK) = (MC!TypeOK)
  BY DEF MC!TypeOK, McpProved!TypeOK, mc, McpProved!vars, MC!ConstantsSound, McpProved!ConstantsSound, MC!Init, McpProved!Init, MC!Next,
         McpProved!Next, MC!KeepsOwner, McpProved!KeepsOwner, MC!Answered,
         McpProved!Answered, MC!Overwrites, McpProved!Overwrites, MC!KeepsForeign,
         McpProved!KeepsForeign, MC!Labels, McpProved!Labels, MC!Current, McpProved!Current,
         MC!Document, McpProved!Document, MC!Target, McpProved!Target, MC!Manifest,
         McpProved!Manifest, MC!Owned, McpProved!Owned, MC!Ledger, McpProved!Ledger,
         MC!Idle, McpProved!Idle, MC!ClientFiles, McpProved!ClientFiles, MC!At, McpProved!At, MC!Owns,
         McpProved!Owns, MC!Wants, McpProved!Wants, MC!WantedBy, McpProved!WantedBy,
         MC!Edited, McpProved!Edited, MC!Stripped, McpProved!Stripped, MC!Foreign,
         McpProved!Foreign, MC!After, McpProved!After, MC!Written, McpProved!Written,
         MC!Final, McpProved!Final, MC!Moved, McpProved!Moved, MC!Journalled,
         McpProved!Journalled, MC!Accepting, McpProved!Accepting, MC!Pending,
         McpProved!Pending, MC!Plan, McpProved!Plan, MC!Unchanged, McpProved!Unchanged,
         MC!Claims, McpProved!Claims, MC!SavePending, McpProved!SavePending, MC!CheckFile,
         McpProved!CheckFile, MC!Refuse, McpProved!Refuse, MC!StaysMine,
         McpProved!StaysMine, MC!Replace, McpProved!Replace, MC!SaveFinal,
         McpProved!SaveFinal, MC!Stop, McpProved!Stop, MC!ForeignEdit, McpProved!ForeignEdit

\* The trust observer of MCTools is the one that TrustProofs is about.
LEMMA TrustProvedSame ==
    /\ TR!ConstantsSound => TrustProved!ConstantsSound
    /\ TR!Init => TrustProved!Init
    /\ [TR!Next]_tr => [TrustProved!Next]_TrustProved!vars
    /\ (TrustProved!HostKeysStand) = (TR!HostKeysStand)
    /\ (TrustProved!LosesOnlyMissed) = (TR!LosesOnlyMissed)
    /\ (TrustProved!TypeOK) = (TR!TypeOK)
  BY DEF TR!TypeOK, TrustProved!TypeOK, tr, TrustProved!vars, TR!ConstantsSound, TrustProved!ConstantsSound, TR!Init, TrustProved!Init, TR!Next,
         TrustProved!Next, TR!HostKeysStand, TrustProved!HostKeysStand, TR!LosesOnlyMissed,
         TrustProved!LosesOnlyMissed, TR!Entry, TrustProved!Entry, TR!Decisions,
         TrustProved!Decisions, TR!Idle, TrustProved!Idle, TR!KeysFor, TrustProved!KeysFor,
         TR!Conflict, TrustProved!Conflict, TR!Proposed, TrustProved!Proposed, TR!Proposals,
         TrustProved!Proposals, TR!Supported, TrustProved!Supported, TR!Becomes,
         TrustProved!Becomes, TR!Goto, TrustProved!Goto, TR!Reads, TrustProved!Reads,
         TR!Ignored, TrustProved!Ignored, TR!Writes, TrustProved!Writes, TR!DecisionSteps, TrustProved!DecisionSteps,
         TR!PklSteps, TrustProved!PklSteps, TR!Onwards, TrustProved!Onwards, TR!Scan,
         TrustProved!Scan, TR!SaveBaseline, TrustProved!SaveBaseline, TR!Prompt,
         TrustProved!Prompt, TR!Prompted, TrustProved!Prompted, TR!Command,
         TrustProved!Command, TR!IgnoreLoad, TrustProved!IgnoreLoad, TR!SaveIgnore,
         TrustProved!SaveIgnore, TR!IntegrateCheck, TrustProved!IntegrateCheck,
         TR!PatchRead, TrustProved!PatchRead, TR!Patch, TrustProved!Patch, TR!ExportLoad,
         TrustProved!ExportLoad, TR!ExportWrite, TrustProved!ExportWrite, TR!ExportFails,
         TrustProved!ExportFails, TR!RestoreEmpty, TrustProved!RestoreEmpty, TR!Restore,
         TrustProved!Restore, TR!Abort, TrustProved!Abort, TR!Connect, TrustProved!Connect,
         TR!files, TrustProved!files

\* The cache of MCTools is the one that SidecarProofs is about.
LEMMA CacheProvedSame ==
    /\ SC!ConstantsSound => CacheProved!ConstantsSound
    /\ SC!Init => CacheProved!Init
    /\ [SC!Next]_sc => [CacheProved!Next]_CacheProved!vars
    /\ (CacheProved!EntrySound) = (SC!EntrySound)
    /\ (CacheProved!TypeOK) = (SC!TypeOK)
  BY DEF SC!TypeOK, CacheProved!TypeOK, sc, CacheProved!vars, SC!ConstantsSound, CacheProved!ConstantsSound, SC!Init, CacheProved!Init, SC!Next,
         CacheProved!Next, SC!EntrySound, CacheProved!EntrySound, SC!Calls,
         CacheProved!Calls, SC!World, CacheProved!World, SC!NoSnapshot,
         CacheProved!NoSnapshot, SC!Answer, CacheProved!Answer, SC!Fails, CacheProved!Fails,
         SC!Nix, CacheProved!Nix, SC!Rendering, CacheProved!Rendering, SC!Observe,
         CacheProved!Observe, SC!IsCurrent, CacheProved!IsCurrent, SC!Start,
         CacheProved!Start, SC!Call, CacheProved!Call, SC!CallFails, CacheProved!CallFails,
         SC!Evaluated, CacheProved!Evaluated, SC!WriteRendered, CacheProved!WriteRendered,
         SC!Put, CacheProved!Put, SC!Abort, CacheProved!Abort, SC!Edit, CacheProved!Edit

-----------------------------------------------------------------------------
\* A step of the composition is a step of the component or leaves it alone.
LEMMA ComponentSteps ==
    ASSUME [ToolsNext]_toolsVars
    PROVE  /\ [MC!Next]_mc /\ [SC!Next]_sc /\ [PR!Next]_pr
           /\ [TR!Next]_tr /\ [TO!Next]_to /\ [SU!Next]_su /\ [Next]_ro
  BY DEF ToolsNext, toolsVars

\* Through any runs of the reconciler, however many stop, an entry that it wrote
\* keeps an owner that accepts it, but for the journal of a move that overwrites
\* a retired record of the place (mcp.rs, reconcile).
THEOREM ToolsKeepOwners == ToolsSpec => OwnersKept
<1>1. McpProved!Spec => [][McpProved!KeepsOwner]_McpProved!vars
  BY ToolsAssumption, McpProvedSame, McpProved!OwnersStay DEF McpProved!OwnersKept
<1>2. ToolsInit => McpProved!Init
  BY McpProvedSame DEF ToolsInit
<1>3. [ToolsNext]_toolsVars => [McpProved!Next]_McpProved!vars
  BY ComponentSteps, McpProvedSame
<1>4. [McpProved!KeepsOwner]_McpProved!vars => [MC!KeepsOwner]_mc
  BY McpProvedSame DEF mc, McpProved!vars
<1> QED
  BY <1>1, <1>2, <1>3, <1>4, PTL DEF ToolsSpec, McpProved!Spec, OwnersKept

\* No run takes an entry of a configuration that the user wrote and did not
\* give up for adoption (mcp.rs, apply).
THEOREM ToolsKeepForeign == ToolsSpec => ForeignKept
<1>1. McpProved!Spec => [][McpProved!KeepsForeign]_McpProved!vars
  BY ToolsAssumption, McpProvedSame, McpProved!UsersKept DEF McpProved!ForeignKept
<1>2. ToolsInit => McpProved!Init
  BY McpProvedSame DEF ToolsInit
<1>3. [ToolsNext]_toolsVars => [McpProved!Next]_McpProved!vars
  BY ComponentSteps, McpProvedSame
<1>4. [McpProved!KeepsForeign]_McpProved!vars => [MC!KeepsForeign]_mc
  BY McpProvedSame DEF mc, McpProved!vars
<1> QED
  BY <1>1, <1>2, <1>3, <1>4, PTL DEF ToolsSpec, McpProved!Spec, ForeignKept

\* Whatever changes around an evaluation, an entry that the cache takes for
\* current renders the sources as they are (cache.rs).
THEOREM ToolsEntrySound == ToolsSpec => []EntrySound
<1>1. CacheProved!Spec => []CacheProved!EntrySound
  BY ToolsAssumption, CacheProvedSame, CacheProved!EntriesSound
<1>2. ToolsInit => CacheProved!Init
  BY CacheProvedSame DEF ToolsInit
<1>3. [ToolsNext]_toolsVars => [CacheProved!Next]_CacheProved!vars
  BY ComponentSteps, CacheProvedSame
<1>4. CacheProved!EntrySound => EntrySound
  BY CacheProvedSame DEF EntrySound
<1> QED
  BY <1>1, <1>2, <1>3, <1>4, PTL DEF ToolsSpec, CacheProved!Spec

\* A caller that is told of a pass is told of artifacts of a passed run
\* (preparation.rs, run).
THEOREM ToolsPassesProved == ToolsSpec => []PassedIsProved
<1>1. PR!Spec => []PR!PassedIsProved
  BY ToolsAssumption, PassesAreProved
<1>2. ToolsInit => PR!Init
  BY DEF ToolsInit
<1>3. [ToolsNext]_toolsVars => [PR!Next]_PR!vars
  BY ComponentSteps DEF pr, PR!vars
<1> QED
  BY <1>1, <1>2, <1>3, PTL DEF ToolsSpec, PR!Spec, PassedIsProved

\* However scans, integrations and rollbacks interleave, no other key stands
\* for a host of the fleet (trust/mod.rs).
THEOREM ToolsKeysStand == ToolsSpec => []HostKeysStand
<1>1. TrustProved!Spec => []TrustProved!HostKeysStand
  BY ToolsAssumption, TrustProvedSame, TrustProved!KeysStand
<1>2. ToolsInit => TrustProved!Init
  BY TrustProvedSame DEF ToolsInit
<1>3. [ToolsNext]_toolsVars => [TrustProved!Next]_TrustProved!vars
  BY ComponentSteps, TrustProvedSame
<1>4. TrustProved!HostKeysStand => HostKeysStand
  BY TrustProvedSame DEF HostKeysStand
<1> QED
  BY <1>1, <1>2, <1>3, <1>4, PTL DEF ToolsSpec, TrustProved!Spec

\* However readings, failed ones too, and writes interleave, a process takes
\* away only the decisions and declarations that it could not know of
\* (trust/state.rs, trust/patch.rs).
THEOREM ToolsLoseOnlyMissed == ToolsSpec => OnlyMissedLost
<1>1. TrustProved!Spec => [][TrustProved!LosesOnlyMissed]_TrustProved!vars
  BY ToolsAssumption, TrustProvedSame, TrustProved!TrustLosesOnlyMissed
     DEF TrustProved!OnlyMissedLost
<1>2. ToolsInit => TrustProved!Init
  BY TrustProvedSame DEF ToolsInit
<1>3. [ToolsNext]_toolsVars => [TrustProved!Next]_TrustProved!vars
  BY ComponentSteps, TrustProvedSame
<1>4. [TrustProved!LosesOnlyMissed]_TrustProved!vars => [TR!LosesOnlyMissed]_tr
  BY TrustProvedSame DEF tr, TrustProved!vars
<1> QED
  BY <1>1, <1>2, <1>3, <1>4, PTL DEF ToolsSpec, TrustProved!Spec, OnlyMissedLost

\* The topology's invariant holds in the composition.
LEMMA ToolsLoaded == ToolsSpec => []LoadInv
<1>1. TO!Spec => []LoadInv
  BY ToolsAssumption, LoadInvariant
<1>2. ToolsInit => TO!Init
  BY DEF ToolsInit
<1>3. [ToolsNext]_toolsVars => [TO!Next]_TO!vars
  BY ComponentSteps DEF to, TO!vars
<1> QED
  BY <1>1, <1>2, <1>3, PTL DEF ToolsSpec, TO!Spec

\* From every ingress host of a loaded site, what its routes proxy to can be
\* dialed over HTTP (validate.rs, validate_site).
THEOREM ToolsDialable == ToolsSpec => []Dialable
<1>1. LoadInv => Dialable
  BY ToolsAssumption, LoadedDials DEF Dialable
<1> QED
  BY <1>1, ToolsLoaded, PTL

\* Where no two loaded sites have one name, one kind of record claims each
\* name a site or a destination publishes (accessors.rs).
THEOREM ToolsOneWriter == ToolsSpec => []OneWriter
<1>1. LoadInv => OneWriter
  BY ToolsAssumption, LoadedNames DEF OneWriter
<1> QED
  BY <1>1, ToolsLoaded, PTL

\* What validation takes for an order of the service intents is one, and it
\* refuses no intents that have one (validate.rs, validate_deployment).
THEOREM ToolsStartOrder == ToolsSpec => []StartOrder
<1>1. LoadInv => StartOrder
  BY ToolsAssumption, LoadedStarts DEF StartOrder
<1> QED
  BY <1>1, ToolsLoaded, PTL

\* The supply graph is sound in the composition.
LEMMA ToolsSupplied == ToolsSpec => []GraphInv
<1>1. SU!Spec => []GraphInv
  BY ToolsAssumption, GraphInvariant
<1>2. ToolsInit => SU!Init
  BY DEF ToolsInit
<1>3. [ToolsNext]_toolsVars => [SU!Next]_SU!vars
  BY ComponentSteps DEF su, SU!vars
<1> QED
  BY <1>1, <1>2, <1>3, PTL DEF ToolsSpec, SU!Spec

\* The order of the documents decides whose value is kept, and nothing else: not
\* what is in conflict, nor without conflicts the gaps, nor, where the kinds
\* agree, whether a forecast is made and which (supply.rs, build).
THEOREM ToolsOrderFree == ToolsSpec => []OrderFree
<1>1. GraphInv => OrderFree
  BY ToolsAssumption, GraphOrderFree DEF OrderFree
<1> QED
  BY <1>1, ToolsSupplied, PTL

\* A walk lists exactly the nodes its depth reaches, each once and at its
\* distance, and exactly the edges it follows (supply.rs, walk).
THEOREM ToolsWalkExact == ToolsSpec => []WalkExact
<1>1. GraphInv => WalkExact
  <2>1. SUFFICES ASSUME Walkable(graph) PROVE SU!WalkExact
    BY DEF GraphInv, GraphSound, WalkExact
  <2>2. ASSUME NEW root \in SU!Ids(graph), NEW reverse \in BOOLEAN, NEW depth \in 0..3
        PROVE  LET w == SU!Walk(graph, root, reverse, depth)
                   reach == SU!Within(graph, root, reverse, depth)
                   listed == {w.nodes[i].id : i \in DOMAIN w.nodes}
               IN /\ listed = reach[depth]
                  /\ Len(w.nodes) = SU!Cardinality(listed)
                  /\ \A i \in DOMAIN w.nodes : \A k \in 0..depth :
                       w.nodes[i].id \in reach[k] <=> w.nodes[i].hops <= k
                  /\ w.edges = {i \in DOMAIN graph.edges : depth > 0
                                  /\ SU!Source(graph.edges[i], reverse) \in reach[depth - 1]}
    <3> DEFINE w == SU!Walk(graph, root, reverse, depth)
    <3>1. Exact(graph, root, reverse, depth, w)
      BY <2>1, WalkIsExact
    <3> HIDE DEF w
    <3>2. SU!Cardinality({w.nodes[i].id : i \in DOMAIN w.nodes}) =
            Cardinality({w.nodes[i].id : i \in DOMAIN w.nodes})
      BY SameSupplyCount
    <3> QED
      BY <3>1, <3>2 DEF Exact, w
  <2> QED
    BY <2>2, Zenon DEF SU!WalkExact
<1> QED
  BY <1>1, ToolsSupplied, PTL

\* Every component's variables stay in their types; in particular no null gets
\* into the supply graph (supply.rs) and the ledger keeps its form (mcp.rs).
THEOREM ToolsTyped == ToolsSpec => []ToolsTypeOK
<1>1. ToolsSpec => []TypeOK
  <2>1. ToolsInit => Init
    BY DEF ToolsInit
  <2>2. [ToolsNext]_toolsVars => [Next]_vars
    BY ComponentSteps DEF ro, vars, files
  <2> QED
    BY <2>1, <2>2, HandoverTyped, PTL DEF ToolsSpec, Spec
<1>2. ToolsSpec => []MC!TypeOK
  <2>1. McpProved!Spec => []McpProved!Typed
    BY ToolsAssumption, McpProvedSame, McpProved!ReconcilerTyped
  <2>2. ToolsInit => McpProved!Init
    BY McpProvedSame DEF ToolsInit
  <2>3. [ToolsNext]_toolsVars => [McpProved!Next]_McpProved!vars
    BY ComponentSteps, McpProvedSame
  <2>4. McpProved!Typed => MC!TypeOK
    BY McpProvedSame DEF McpProved!Typed
  <2> QED
    BY <2>1, <2>2, <2>3, <2>4, PTL DEF ToolsSpec, McpProved!Spec
<1>3. ToolsSpec => []SC!TypeOK
  <2>1. CacheProved!Spec => []CacheProved!TypeOK
    BY ToolsAssumption, CacheProvedSame, CacheProved!CacheTyped
  <2>2. ToolsInit => CacheProved!Init
    BY CacheProvedSame DEF ToolsInit
  <2>3. [ToolsNext]_toolsVars => [CacheProved!Next]_CacheProved!vars
    BY ComponentSteps, CacheProvedSame
  <2>4. CacheProved!TypeOK => SC!TypeOK
    BY CacheProvedSame
  <2> QED
    BY <2>1, <2>2, <2>3, <2>4, PTL DEF ToolsSpec, CacheProved!Spec
<1>4. ToolsSpec => []PR!TypeOK
  <2>1. PR!Spec => []TaskInv
    BY ToolsAssumption, TaskInvariant
  <2>2. ToolsInit => PR!Init
    BY DEF ToolsInit
  <2>3. [ToolsNext]_toolsVars => [PR!Next]_PR!vars
    BY ComponentSteps DEF pr, PR!vars
  <2>4. TaskInv => PR!TypeOK
    BY DEF TaskInv
  <2> QED
    BY <2>1, <2>2, <2>3, <2>4, PTL DEF ToolsSpec, PR!Spec
<1>5. ToolsSpec => []TR!TypeOK
  <2>1. TrustProved!Spec => []TrustProved!Typed
    BY ToolsAssumption, TrustProvedSame, TrustProved!TrustTyped
  <2>2. ToolsInit => TrustProved!Init
    BY TrustProvedSame DEF ToolsInit
  <2>3. [ToolsNext]_toolsVars => [TrustProved!Next]_TrustProved!vars
    BY ComponentSteps, TrustProvedSame
  <2>4. TrustProved!Typed => TR!TypeOK
    BY TrustProvedSame DEF TrustProved!Typed
  <2> QED
    BY <2>1, <2>2, <2>3, <2>4, PTL DEF ToolsSpec, TrustProved!Spec
<1>6. ToolsSpec => []SU!TypeOK
  <2>1. SU!Spec => []SU!TypeOK
    BY ToolsAssumption, SupplyTyped
  <2>2. ToolsInit => SU!Init
    BY DEF ToolsInit
  <2>3. [ToolsNext]_toolsVars => [SU!Next]_SU!vars
    BY ComponentSteps DEF su, SU!vars
  <2> QED
    BY <2>1, <2>2, <2>3, PTL DEF ToolsSpec, SU!Spec
<1>7. ToolsSpec => []TO!TypeOK
  <2>1. ToolsInit => TO!TypeOK
    BY DEF ToolsInit, TO!Init, TO!TypeOK
  <2>2. TO!TypeOK /\ [ToolsNext]_toolsVars => TO!TypeOK'
    BY ComponentSteps DEF to, TO!Next, TO!Load, TO!TypeOK
  <2> QED
    BY <2>1, <2>2, PTL DEF ToolsSpec
<1> QED
  BY <1>1, <1>2, <1>3, <1>4, <1>5, <1>6, <1>7, PTL DEF ToolsTypeOK
=============================================================================
