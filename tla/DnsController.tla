--------------------------- MODULE DnsController ---------------------------
(***************************************************************************)
(* The DNS controller (pkg/controller/ingress/dns/dns.go) with the record  *)
(* reconciliation it shares (pkg/controller/util/dns.go, EnsureDNSRrsets), *)
(* for one federated ingress and its names at zone, region and global      *)
(* level.                                                                  *)
(*                                                                         *)
(* The informer puts every version of the ingress object on a queue; one   *)
(* worker takes them in order, and for each cluster of the load balancer   *)
(* annotation, in no particular order, makes the records of the three      *)
(* names right through the DynDns module.  The IngressController writes    *)
(* the annotation and the status; it, the users, failing requests and      *)
(* restarts are the environment.                                           *)
(***************************************************************************)
EXTENDS DynDns

CONSTANTS
  Clusters,    \* members of the federation
  Zones,       \* Zones[c]: the zone names of cluster c's status, a sequence
  Region,      \* Region[c]: its region name
  Addresses,   \* IP addresses
  Lookup,      \* Lookup[h]: the addresses of a load balancer hostname h
  NoAddress,   \* a load balancer ingress without IP and hostname
  Reports,     \* [status, lb]: what the IngressController writes
  Prefix,      \* the common prefix: ingress, namespace, federation and suffix
  Domain,      \* the domain option
  DnsZones,    \* the zones of the provider's configuration
  None,        \* no annotation, no object, no cluster
  Malformed    \* an annotation that does not parse

Events == {"change", "delete", "create", "read", "fault", "crash"}

ASSUME DnsBudgetAssumption == Budget \in [Events -> Nat]

VARIABLES
  ing,      \* the federated ingress on the federation API server
  queue,    \* workQueue: versions of the object, oldest first
  dnsZone,  \* the zone chosen at start
  pc,       \* where the worker is
  item,     \* worker: the object taken from the queue
  todo,     \* worker: clusters of the annotation still to visit
  cluster,  \* worker: the cluster whose names are ensured
  level     \* worker: the name being ensured; 0 after an error, 4 when done

workerVars == <<pc, item, todo, cluster, level>>
vars == <<dynVars, budget, ing, queue, dnsZone, workerVars>>

\* Statuses of the annotation: absent, broken, or the addresses per cluster.
Endpoints == Addresses \cup DOMAIN Lookup \cup {NoAddress}
Statuses == {None, Malformed}
              \cup UNION {[C -> SUBSET Endpoints] : C \in SUBSET Clusters}

ASSUME ReportsAssumption == Reports \subseteq [status: BOOLEAN, lb: Statuses]

\* A lookup that succeeds has an address.
ASSUME LookupAssumption ==
  \A h \in DOMAIN Lookup : Lookup[h] # {} /\ Lookup[h] \subseteq Addresses

Levels == 1 .. 3

\* Clusters whose status lists a zone.
Located == {c \in Clusters : Zones[c] # <<>>}

\* dnsNames of ensureDNSRecords for cluster c, ll. 368-375: Name[c][level].
Name == [c \in Located |-> [l \in 1 .. 4 |->
           DnsName(Prefix, Zones[c][1], Region[c], Domain, l)]]

\* The fully qualified names of their records in zone z: FQDN[c][level][z].
FQDN == [c \in Located |-> [l \in Levels |-> [z \in DnsZones |->
           RecordName(Name[c][l], z).FQDN]]]
FQDNs == {FQDN[c][l][z] : c \in Located, l \in Levels, z \in DnsZones}

\* No name ends in its zone twice, so that the name GetRecordsFromDNSRRS rebuilds
\* to delete a listed record, or to add one of several addresses, is the same.
ASSUME RelistedAssumption ==
  \A c \in Located, l \in Levels, z \in DnsZones :
    Relisted(FQDN[c][l][z], z) = FQDN[c][l][z]

-----------------------------------------------------------------------------
(* getHealthyEndpoints *)

\* Cluster d shares a zone, the region or the federation with c, ll. 302-312.
Within(d, c, l) ==
  /\ l = 1 => \E i \in DOMAIN Zones[d], j \in DOMAIN Zones[c] : Zones[d][i] = Zones[c][j]
  /\ l = 2 => Region[d] = Region[c]

\* Mutant: the region names are not compared.
PeersAnywhere(c, lb, l) == {d \in DOMAIN lb : l = 1 => Within(d, c, 1)}

\* The clusters of the annotation whose addresses count for cluster c at level l.
Peers(c, lb, l) == {d \in DOMAIN lb : Within(d, c, l)}

\* Mutant: the deletion timestamp is not looked at.
HealthyEndpointsOfDeleted(c, o, l) == UNION {o.lb[d] : d \in Peers(c, o.lb, l)}

\* The endpoints of cluster c's name at level l; none when the ingress is deleted.
HealthyEndpoints(c, o, l) ==
  IF o.deleting THEN {} ELSE UNION {o.lb[d] : d \in Peers(c, o.lb, l)}

\* The errors of ll. 298-301 and 360-362.
Unusable(c, o) ==
  \/ c \notin Located
  \/ ~o.deleting /\ \E d \in DOMAIN o.lb : NoAddress \in o.lb[d]

\* GetResolvedEndpoints: hostnames replaced by their addresses.
Resolved(endpoints) ==
  (endpoints \cap Addresses) \cup UNION {Lookup[h] : h \in endpoints \cap DOMAIN Lookup}

\* What EnsureDNSRrsets wants at the name of cluster c at level l: the addresses,
\* or a CNAME to the next name up, if there is one.
Wanted(c, o, l, zone) ==
  LET endpoints == HealthyEndpoints(c, o, l) IN
  IF endpoints = {} THEN CNAMERecords(FQDN[c][l][zone], Name[c][l + 1])
  ELSE ARecords(FQDN[c][l][zone], Resolved(endpoints))

-----------------------------------------------------------------------------
(* The worker *)

\* workerFunction up to the loop, ll. 184-204.
TakeItem ==
  /\ pc = "idle" /\ queue # <<>>
  /\ queue' = Tail(queue)
  /\ LET o == Head(queue) IN
     IF o.status /\ o.lb \notin {None, Malformed}
     THEN pc' = "clusters" /\ item' = o /\ todo' = DOMAIN o.lb
     ELSE UNCHANGED <<pc, item, todo>>
  /\ UNCHANGED <<dynVars, budget, ing, dnsZone, cluster, level>>

\* ensureDNSRecords for a cluster of the annotation: it reads the cluster objects;
\* an error of it is dropped by the loop of ll. 204-206.
VisitCluster(c) ==
  /\ pc = "clusters" /\ c \in todo
  /\ todo' = todo \ {c} /\ cluster' = c
  /\ \/ ~Unusable(c, item) /\ pc' = "ensure" /\ level' = 1 /\ UNCHANGED budget
     \/ Unusable(c, item) /\ level' = 0 /\ UNCHANGED <<pc, budget>>
     \/ Spend("read") /\ level' = 0 /\ UNCHANGED pc
  /\ UNCHANGED <<dynVars, ing, queue, dnsZone, item>>

FinishItem ==
  /\ pc = "clusters" /\ todo = {}
  /\ pc' = "idle" /\ item' = None /\ cluster' = None /\ level' = 0
  /\ UNCHANGED <<dynVars, budget, ing, queue, dnsZone, todo>>

\* EnsureDNSRrsets returns nil: on to the next level, ll. 383-387.
Ensured ==
  /\ level' = level + 1
  /\ pc' = IF level = 3 THEN "clusters" ELSE "ensure"
  /\ UNCHANGED <<item, todo, cluster>>

EnsureFails ==
  /\ level' = 0 /\ pc' = "clusters"
  /\ UNCHANGED <<item, todo, cluster>>

\* Mutant: any wanted value that is listed will do.
FindRrsetPartly(list, wanted) == list \cap wanted # {}

\* findRrset: a listed set, which has one value, is the wanted one.
FindRrset(list, wanted) == \E r \in list : wanted = {r}

\* The same, or no records at all, will do; others are replaced.
EnsureWith(list) ==
  LET wanted == Wanted(cluster, item, level, dnsZone) IN
  \/ /\ FindRrset(list, wanted) \/ (list = {} /\ wanted = {})
     /\ Ensured /\ UNCHANGED dynVars
  \/ /\ ~FindRrset(list, wanted) /\ (list # {} \/ wanted # {})
     /\ StartApply(list, wanted)
     /\ pc' = "apply" /\ UNCHANGED <<item, todo, cluster, level>>

\* EnsureDNSRrsets up to the call of Apply; an error while resolving a hostname is
\* returned.
EnsureRrsets ==
  /\ pc = "ensure"
  /\ \/ LET n == FQDN[cluster][level][dnsZone] IN
        \E list \in {GetRecordByName(n), {}} : Get(n, list) /\ EnsureWith(list)
     \/ /\ HealthyEndpoints(cluster, item, level) \cap DOMAIN Lookup # {}
        /\ Spend("read") /\ EnsureFails /\ UNCHANGED dynVars
  /\ UNCHANGED <<ing, queue, dnsZone>>

ApplyChanges ==
  /\ pc = "apply" /\ Apply(dnsZone)
  /\ UNCHANGED <<ing, queue, dnsZone, workerVars>>

\* Mutant: the error of Apply is dropped.
ApplyDoneOrFailed ==
  /\ pc = "apply" /\ applied \in {"done", "failed"}
  /\ applied' = "idle" /\ Ensured
  /\ UNCHANGED <<zoneVars, changes, budget, ing, queue, dnsZone>>

ApplyDone ==
  /\ pc = "apply" /\ applied \in {"done", "failed"}
  /\ applied' = "idle" /\ IF applied = "done" THEN Ensured ELSE EnsureFails
  /\ UNCHANGED <<zoneVars, changes, budget, ing, queue, dnsZone>>

-----------------------------------------------------------------------------
(* The process and the environment *)

\* New*DNSController: the provider logs in, the zone is found, the informer lists
\* the ingresses.  Without a domain or a zone the process exits, ll. 224 and 248.
Start ==
  /\ pc = "down" /\ Domain # <<>> /\ dnsZone' \in GetDNSZone(Domain, DnsZones)
  /\ pc' = "idle" /\ NewSession
  /\ queue' = IF ing = None THEN <<>> ELSE <<ing>>
  /\ UNCHANGED <<changes, applied, budget, ing, item, todo, cluster, level>>

\* The process ends, with its queue and the worker's state.
Crash ==
  /\ pc # "down" /\ Spend("crash")
  /\ pc' = "down" /\ queue' = <<>> /\ dnsZone' = None
  /\ item' = None /\ todo' = {} /\ cluster' = None /\ level' = 0
  /\ changes' = NoChanges /\ applied' = "idle"
  /\ UNCHANGED <<zoneVars, ing>>

\* The informer hands the changed (or, for a removal, the last) object on.
Notify(o) == queue' = IF pc = "down" THEN queue ELSE Append(queue, o)

NewIngress == [status |-> FALSE, lb |-> None, deleting |-> FALSE]

UserCreate ==
  /\ ing = None /\ Spend("create")
  /\ ing' = NewIngress /\ Notify(NewIngress)
  /\ UNCHANGED <<dynVars, dnsZone, workerVars>>

\* The IngressController updates the annotation or the status.
ReportStatus(rep) ==
  LET o == [status |-> rep.status, lb |-> rep.lb, deleting |-> FALSE] IN
  /\ ing # None /\ ~ing.deleting /\ o # ing /\ Spend("change")
  /\ ing' = o /\ Notify(o)
  /\ UNCHANGED <<dynVars, dnsZone, workerVars>>

\* The finalizers keep the object until the IngressController has handled them.
UserDelete ==
  /\ ing # None /\ ~ing.deleting /\ Spend("delete")
  /\ ing' = [ing EXCEPT !.deleting = TRUE] /\ Notify([ing EXCEPT !.deleting = TRUE])
  /\ UNCHANGED <<dynVars, dnsZone, workerVars>>

RemoveIngress ==
  /\ ing # None /\ ing.deleting
  /\ ing' = None /\ Notify(ing)
  /\ UNCHANGED <<dynVars, budget, dnsZone, workerVars>>

-----------------------------------------------------------------------------
Init ==
  /\ draft = {} /\ published = {} /\ changes = NoChanges /\ applied = "idle"
  /\ budget = Budget /\ ing = None /\ queue = <<>> /\ dnsZone = None
  /\ pc = "down" /\ item = None /\ todo = {} /\ cluster = None /\ level = 0

Worker ==
  \/ TakeItem \/ FinishItem \/ EnsureRrsets \/ ApplyChanges \/ ApplyDone
  \/ \E c \in Clusters : VisitCluster(c)

Environment ==
  \/ UserCreate \/ UserDelete \/ RemoveIngress \/ Crash
  \/ \E rep \in Reports : ReportStatus(rep)

Next == Worker \/ Start \/ Environment

Spec == Init /\ [][Next]_vars

\* The worker goroutine is never starved, and an ended process is started again.
FairSpec == Spec /\ WF_vars(Worker) /\ WF_vars(Start)

-----------------------------------------------------------------------------
(* Properties *)

\* The objects the informer may hand on.
Versions == [status: BOOLEAN, lb: {rep.lb : rep \in Reports} \cup {None},
             deleting: BOOLEAN]

\* Those the worker goes on with.
Annotated == {o \in Versions : o.lb \notin {None, Malformed}}

Records == [fqdn: FQDNs, type: {"A", "CNAME"},
            value: Addresses \cup {Name[c][l] : c \in Located, l \in Levels}]

\* Every variable has its type.
TypeOK ==
  /\ draft \subseteq Records /\ published \subseteq Records
  /\ changes.remove \subseteq Records /\ changes.add \subseteq Records
  /\ applied \in {"idle", "running", "done", "failed"}
  /\ budget \in [Events -> Nat]
  /\ ing \in Versions \cup {None} /\ item \in Versions \cup {None}
  /\ queue \in Seq(Versions)
  /\ dnsZone \in DnsZones \cup {None}
  /\ pc \in {"down", "idle", "clusters", "ensure", "apply"}
  /\ todo \subseteq Clusters /\ cluster \in Clusters \cup {None} /\ level \in 0 .. 4

\* No request has failed or been lost, and the process has not ended.
NoReadFailed == budget.read = Budget.read
NoFault == NoReadFailed /\ budget.fault = Budget.fault /\ budget.crash = Budget.crash

\* A set of records in which a CNAME has its name for itself.
CnameFree(S) == \A r, q \in S : r.fqdn = q.fqdn /\ r.type = "CNAME" => q = r

\* An address and a CNAME never share a name, in the draft or in public, whatever
\* requests of a changeset fail and wherever the process ends, as long as Get
\* has not swallowed an error (EnsureDNSRrsets, Apply).
CnameAlone == NoReadFailed => CnameFree(draft) /\ CnameFree(published)

\* When EnsureDNSRrsets returns nil, the zone has the records it wanted.
EnsuredIsThere ==
  [][(level \in Levels /\ level' = level + 1)
       => Wanted(cluster, item, level, dnsZone) \subseteq draft']_vars

\* Listable[c]: the addresses cluster c may ever have listed.
Listable == [c \in Clusters |-> UNION {Resolved(rep.lb[c]) : rep \in
               {p \in Reports : p.lb \notin {None, Malformed} /\ c \in DOMAIN p.lb}}]

\* Record r is at the name of a cluster and leads to the next name up, or has an
\* address that a cluster of its zones, its region or the federation has listed.
Explained(r) ==
  \E c \in Located, l \in Levels, z \in DnsZones :
    /\ r.fqdn = FQDN[c][l][z]
    /\ \/ r.type = "CNAME" /\ l < 3 /\ r.value = Name[c][l + 1]
       \/ r.type = "A" /\ \E d \in Clusters : Within(d, c, l) /\ r.value \in Listable[d]

\* A name of a zone or region only ever has addresses of clusters there (ll.
\* 302-311), and a CNAME only ever leads from a name to the next one up, through
\* failed requests, swallowed errors and restarts.
Locality == \A r \in draft \cup published : Explained(r)

\* The name being ensured, and what the zone should have there.
Current == FQDN[cluster][level][dnsZone]
Goal == Wanted(cluster, item, level, dnsZone)
HereIn(S) == {r \in S : r.fqdn = Current}
Elsewhere(S) == {r \in S : r.fqdn # Current}

\* What the worker knows at each point of its code.
WorkerKnows ==
  /\ pc # "down" => dnsZone \in DnsZones
  /\ pc \in {"clusters", "ensure", "apply"} => item \in Annotated
  /\ pc \in {"ensure", "apply"} =>
       cluster \in Located /\ level \in Levels
  /\ applied # "idle" => pc = "apply"

\* While a changeset is applied, what is not left to add is there.
ApplyAdds ==
  /\ applied = "running" => /\ changes.add \subseteq Goal
                            /\ Goal \ changes.add \subseteq draft
                            /\ changes.remove # {} => changes.add = Goal
  /\ applied = "done" => Goal \subseteq draft

\* The name has what is left to remove, or else what has been added; what is not
\* published yet is at that name only.
ApplyReplaces ==
  NoReadFailed =>
    /\ CnameFree(draft) /\ CnameFree(published)
    /\ applied = "running" =>
         IF changes.remove # {} THEN HereIn(draft) = changes.remove
         ELSE HereIn(draft) = Goal \ changes.add
    /\ NoFault => IF applied = "running" THEN Elsewhere(published) = Elsewhere(draft)
                  ELSE published = draft

\* The inductive invariant behind CnameAlone, EnsuredIsThere and
\* ZoneFileSpec: Apply removes what was listed before it adds, and nobody
\* else changes the draft.
DnsInv ==
  /\ budget \in [Events -> Nat] /\ \A e \in Events : budget[e] <= Budget[e]
  /\ ing \in Versions \cup {None} /\ queue \in Seq(Versions)
  /\ todo \subseteq Clusters /\ draft \cup published \subseteq Records
  /\ WorkerKnows /\ ApplyAdds /\ ApplyReplaces

\* EnsureDNSRrsets may want the records S at name n.
WholeAt(n, S) ==
  \E c \in Located, l \in Levels, z \in DnsZones :
    /\ n = FQDN[c][l][z]
    /\ \E o \in Annotated : S = Wanted(c, o, l, z)

ZF == INSTANCE ZoneFile WITH Names <- FQDNs, Whole <- WholeAt, zone <- published

\* Resolvers never see a part of a changeset: the provider implements ZoneFile,
\* as long as nothing fails.
ZoneFileSpec == ZF!Spec

-----------------------------------------------------------------------------
(* What resolvers see *)

\* The records of cluster c's name at level l that a resolver gets.
Response(c, l) ==
  LET n == TrimSuffix(Name[c][l], Dot) IN {r \in published : r.fqdn = n}

\* A query for cluster c's zone level name is passed on to the name at level l.
PassedOn(c, l) ==
  \A k \in 1 .. l - 1 : \E r \in Response(c, k) :
    r.type = "CNAME" /\ r.value = Name[c][k + 1]

\* The addresses it is answered with.
Answer(c) ==
  {r.value : r \in {q \in UNION {Response(c, l) : l \in {k \in Levels : PassedOn(c, k)}} :
                     q.type = "A"}}

\* The nearest addresses to cluster c: of its zone, else its region, else any.
Nearest(c) ==
  LET levels == {l \in Levels : HealthyEndpoints(c, ing, l) # {}} IN
  IF levels = {} THEN {}
  ELSE Resolved(HealthyEndpoints(c, ing, CHOOSE l \in levels : \A k \in levels : l <= k))

\* The ingress has addresses the controller can publish.
Serving ==
  /\ ing # None /\ ~ing.deleting /\ ing.status /\ ing.lb \notin {None, Malformed}
  /\ \A c \in DOMAIN ing.lb : ~Unusable(c, ing)

\* Once the annotation is left alone, a query for a cluster's name comes to be
\* answered with all the nearest addresses (ll. 338-347), if nothing fails.
AddressesServed ==
  <>[](Serving => \A c \in DOMAIN ing.lb : Nearest(c) \subseteq Answer(c))

\* "All other addresses are removed." (l. 333): a query for the name of any
\* cluster, of the annotation or not, comes to be answered with no others.
OthersRemoved ==
  <>[](Serving => \A c \in Located : Answer(c) \subseteq Nearest(c))

\* "If federated ingress is deleted, return empty endpoints, so that DNS records
\* are removed" (l. 274): its clusters' names lose their addresses.
DeletedIsRemoved ==
  <>[]((ing # None /\ ing.deleting /\ ing.status /\ ing.lb \notin {None, Malformed})
         => \A c \in DOMAIN ing.lb \cap Located : Answer(c) = {})
=============================================================================
