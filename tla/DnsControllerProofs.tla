------------------------ MODULE DnsControllerProofs ------------------------
(***************************************************************************)
(* Proofs about DnsController, for all clusters, zones, reports and        *)
(* budgets: the records of a changeset replace those of one name only, so  *)
(* that a CNAME never shares a name with an address, an ensured name has   *)
(* what was wanted, and what resolvers see implements ZoneFile.            *)
(***************************************************************************)
EXTENDS DnsController, TLAPS

\* Every record that EnsureDNSRrsets wants is at the name it is ensuring.
LEMMA WantedHere ==
  ASSUME NEW c \in Located, NEW o \in Annotated, NEW l \in Levels, NEW z \in DnsZones
  PROVE  \A r \in Wanted(c, o, l, z) : r.fqdn = FQDN[c][l][z]
  BY DEF Wanted, CNAMERecords, ARecords

\* It wants addresses, or one CNAME, and not both.
LEMMA WantedCnameFree ==
  ASSUME NEW c \in Located, NEW o \in Annotated, NEW l \in Levels, NEW z \in DnsZones
  PROVE  CnameFree(Wanted(c, o, l, z))
  BY DEF Wanted, CNAMERecords, ARecords, CnameFree

\* What it wants are records of the zone.
LEMMA WantedRecords ==
  ASSUME NEW c \in Located, NEW o \in Annotated, NEW l \in Levels, NEW z \in DnsZones
  PROVE  Wanted(c, o, l, z) \subseteq Records
<1> DEFINE n == FQDN[c][l][z]
<1>1. n \in FQDNs
  BY DEF FQDNs
<1>2. CASE HealthyEndpoints(c, o, l) = {}
  <2>1. Wanted(c, o, l, z) = CNAMERecords(n, Name[c][l + 1])
    BY <1>2 DEF Wanted
  <2>2. l = 3 => Name[c][l + 1] = <<>>
    BY DEF Name, DnsName, Levels
  <2>3. l # 3 => l + 1 \in Levels
    BY DEF Levels
  <2>4. Name[c][l + 1] # <<>> => Name[c][l + 1] \in {Name[d][k] : d \in Located, k \in Levels}
    BY <2>2, <2>3
  <2> QED
    BY <1>1, <2>1, <2>4 DEF CNAMERecords, Records
<1>3. CASE HealthyEndpoints(c, o, l) # {}
  <2>1. Wanted(c, o, l, z) = ARecords(n, Resolved(HealthyEndpoints(c, o, l)))
    BY <1>3 DEF Wanted
  <2>2. Resolved(HealthyEndpoints(c, o, l)) \subseteq Addresses
    BY LookupAssumption DEF Resolved
  <2> QED
    BY <1>1, <2>1, <2>2 DEF ARecords, Records
<1> QED
  BY <1>2, <1>3

\* The clusters of an annotation are clusters of the federation.
LEMMA AnnotatedClusters ==
  ASSUME NEW o \in Annotated
  PROVE  DOMAIN o.lb \subseteq Clusters
<1>1. o.lb \in Statuses
  BY ReportsAssumption DEF Annotated, Versions, NewIngress, Statuses
<1>2. PICK C \in SUBSET Clusters : o.lb \in [C -> SUBSET Endpoints]
  BY <1>1 DEF Annotated, Statuses
<1> QED
  BY <1>2

-----------------------------------------------------------------------------
(* Steps that leave the provider alone *)

\* A step of the environment budget: nothing is spent, or one event.
BudgetStep == UNCHANGED budget \/ \E e \in Events : Spend(e)

\* The budget stays a budget, and failures are not forgotten.
LEMMA BudgetFacts ==
  ASSUME DnsInv, BudgetStep
  PROVE  /\ budget' \in [Events -> Nat] /\ \A e \in Events : budget'[e] <= Budget[e]
         /\ NoReadFailed' => NoReadFailed
         /\ NoFault' => NoFault
<1>1. CASE UNCHANGED budget
  BY <1>1 DEF DnsInv, NoReadFailed, NoFault
<1>2. CASE \E e \in Events : Spend(e)
  <2>1. PICK e \in Events : budget[e] > 0 /\ budget' = [budget EXCEPT ![e] = @ - 1]
    BY Zenon, <1>2 DEF Spend
  <2>2. budget \in [Events -> Nat] /\ \A d \in Events : budget[d] <= Budget[d]
    BY DEF DnsInv
  <2>3. \A d \in Events : budget'[d] = IF d = e THEN budget[d] - 1 ELSE budget[d]
    BY <2>1, <2>2
  <2>4. budget' \in [Events -> Nat] /\ \A d \in Events : budget'[d] <= budget[d]
    BY <2>1, <2>2, <2>3
  <2>5. \A d \in Events : Budget[d] \in Nat
    BY DnsBudgetAssumption
  <2>6. \A d \in Events : budget'[d] <= Budget[d] /\ (budget'[d] = Budget[d] => budget[d] = Budget[d])
    BY <2>2, <2>4, <2>5
  <2>7. {"read", "fault", "crash"} \subseteq Events
    BY DEF Events
  <2> QED
    BY <2>4, <2>6, <2>7 DEF NoReadFailed, NoFault
<1> QED
  BY <1>1, <1>2 DEF BudgetStep

\* An event that is spent shows.
LEMMA SpendShows ==
  ASSUME DnsInv, NEW e \in Events, Spend(e)
  PROVE  budget'[e] # Budget[e] /\ BudgetStep
<1>1. budget \in [Events -> Nat] /\ budget[e] <= Budget[e] /\ Budget[e] \in Nat
  BY DnsBudgetAssumption DEF DnsInv
<1>2. budget'[e] = budget[e] - 1
  BY <1>1 DEF Spend
<1> QED
  BY <1>1, <1>2 DEF BudgetStep

\* What the invariant says of the zone and the changeset.
ZoneInv == draft \cup published \subseteq Records /\ ApplyAdds /\ ApplyReplaces

\* A step that does not touch the zone or the changeset keeps what is known of
\* them, if the worker stays at its name or no changeset is being applied.
LEMMA ZoneFrame ==
  ASSUME DnsInv, BudgetStep, UNCHANGED dynVars,
         applied = "idle" \/ UNCHANGED <<cluster, item, level, dnsZone>>
  PROVE  ZoneInv'
<1> USE DEF dynVars, zoneVars
<1>1. (NoReadFailed' => NoReadFailed) /\ (NoFault' => NoFault)
  BY BudgetFacts
<1>2. CASE applied = "idle"
  BY <1>1, <1>2 DEF DnsInv, ZoneInv, ApplyAdds, ApplyReplaces, CnameFree
<1>3. CASE UNCHANGED <<cluster, item, level, dnsZone>>
  BY <1>1, <1>3 DEF DnsInv, ZoneInv, ApplyAdds, ApplyReplaces, CnameFree, Goal, HereIn,
                    Elsewhere, Current
<1> QED
  BY <1>2, <1>3

\* The rest of the invariant, for a step of the worker that keeps the others' state.
WorkerInv == todo \subseteq Clusters /\ WorkerKnows

\* The parts make up the invariant.
LEMMA DnsInvParts ==
  ASSUME DnsInv, BudgetStep, ZoneInv', WorkerInv',
         ing' \in Versions \cup {None}, queue' \in Seq(Versions)
  PROVE  DnsInv'
BY BudgetFacts DEF DnsInv, ZoneInv, WorkerInv

\* Taking an object from the queue keeps the invariant.
LEMMA TakeItemStep == DnsInv /\ TakeItem => DnsInv'
<1> SUFFICES ASSUME DnsInv, TakeItem PROVE DnsInv'
  OBVIOUS
<1> DEFINE o == Head(queue)
<1>1. queue \in Seq(Versions) /\ queue # <<>>
  BY DEF DnsInv, TakeItem
<1>2. o \in Versions /\ Tail(queue) \in Seq(Versions)
  BY <1>1
<1> HIDE DEF o
<1>3. UNCHANGED <<dynVars, budget, ing, dnsZone, cluster, level>> /\ queue' = Tail(queue)
      /\ pc = "idle"
  BY DEF TakeItem
<1>4. applied = "idle"
  BY <1>3 DEF DnsInv, WorkerKnows
<1>5. ZoneInv'
  BY <1>3, <1>4, ZoneFrame DEF BudgetStep
<1>6. CASE o.status /\ o.lb \notin {None, Malformed}
  <2>1. pc' = "clusters" /\ item' = o /\ todo' = DOMAIN o.lb
    BY <1>6 DEF TakeItem, o
  <2>2. o \in Annotated
    BY <1>2, <1>6 DEF Annotated
  <2>3. todo' \subseteq Clusters
    BY <2>1, <2>2, AnnotatedClusters
  <2> QED
    BY <1>2, <1>3, <1>4, <1>5, <2>1, <2>2, <2>3, DnsInvParts
    DEF DnsInv, WorkerInv, WorkerKnows, BudgetStep, dynVars
<1>7. CASE ~(o.status /\ o.lb \notin {None, Malformed})
  <2>1. UNCHANGED <<pc, item, todo>>
    BY <1>7 DEF TakeItem, o
  <2> QED
    BY <1>2, <1>3, <1>4, <1>5, <2>1, DnsInvParts
    DEF DnsInv, WorkerInv, WorkerKnows, BudgetStep, dynVars
<1> QED
  BY <1>6, <1>7

\* Visiting a cluster, and being done with all, keep the invariant.
LEMMA VisitStep ==
  ASSUME DnsInv, NEW c \in Clusters, VisitCluster(c) \/ FinishItem
  PROVE  DnsInv'
<1>1. pc = "clusters" /\ UNCHANGED <<dynVars, ing, queue, dnsZone>> /\ BudgetStep
      /\ todo' \subseteq todo
  BY DEF VisitCluster, FinishItem, BudgetStep, Events
<1>2. applied = "idle"
  BY <1>1 DEF DnsInv, WorkerKnows
<1>3. ZoneInv'
  BY <1>1, <1>2, ZoneFrame
<1>4. CASE VisitCluster(c)
  <2>1. pc' \in {"clusters", "ensure"} /\ item' = item /\ cluster' = c
        /\ (pc' = "ensure" => ~Unusable(c, item) /\ level' = 1)
    BY <1>1, <1>4 DEF VisitCluster
  <2>2. pc' = "ensure" => c \in Located /\ level' \in Levels
    BY <2>1 DEF Unusable, Levels
  <2> QED
    BY <1>1, <1>2, <1>3, <2>1, <2>2, DnsInvParts DEF DnsInv, WorkerInv, WorkerKnows, dynVars
<1>5. CASE FinishItem
  BY <1>1, <1>2, <1>3, <1>5, DnsInvParts DEF FinishItem, DnsInv, WorkerInv,
     WorkerKnows, dynVars
<1> QED
  BY <1>4, <1>5

\* The users, the IngressController and the API server keep the invariant.
LEMMA UserStep ==
  ASSUME DnsInv,
         UserCreate \/ UserDelete \/ RemoveIngress \/ \E rep \in Reports : ReportStatus(rep)
  PROVE  DnsInv'
<1>1. UNCHANGED <<dynVars, dnsZone, workerVars>> /\ BudgetStep
  BY Zenon DEF UserCreate, UserDelete, RemoveIngress, ReportStatus, BudgetStep, Events
<1>2. PICK o \in Versions : ing' \in {o, None} /\ Notify(o)
  <2>1. CASE UserCreate
    <3>1. NewIngress \in Versions
      BY DEF NewIngress, Versions
    <3> QED
      BY <2>1, <3>1 DEF UserCreate
  <2>2. CASE UserDelete
    <3>1. ing \in Versions
      BY <2>2 DEF UserDelete, DnsInv
    <3>2. [ing EXCEPT !.deleting = TRUE] \in Versions
      BY Zenon, <3>1 DEF Versions
    <3> QED
      BY <2>2, <3>2 DEF UserDelete
  <2>3. CASE RemoveIngress
    BY <2>3 DEF RemoveIngress, DnsInv
  <2>4. CASE \E rep \in Reports : ReportStatus(rep)
    <3>1. PICK rep \in Reports : ReportStatus(rep)
      BY <2>4
    <3>2. [status |-> rep.status, lb |-> rep.lb, deleting |-> FALSE] \in Versions
      BY ReportsAssumption DEF Versions
    <3> QED
      BY <3>1, <3>2 DEF ReportStatus
  <2> QED
    BY <2>1, <2>2, <2>3, <2>4
<1>3. queue' \in Seq(Versions)
  BY <1>2 DEF Notify, DnsInv
<1>4. ZoneInv'
  BY <1>1, ZoneFrame DEF workerVars
<1> QED
  BY <1>1, <1>2, <1>3, <1>4, DnsInvParts DEF DnsInv, WorkerInv, WorkerKnows,
     workerVars, dynVars

\* The end of the process keeps the invariant.
LEMMA CrashStep == DnsInv /\ Crash => DnsInv'
<1> SUFFICES ASSUME DnsInv, Crash PROVE DnsInv'
  OBVIOUS
<1>1. BudgetStep /\ ~NoFault'
  BY SpendShows DEF Crash, Events, NoFault
<1>2. NoReadFailed' => NoReadFailed
  BY <1>1, BudgetFacts
<1>3. ZoneInv'
  BY <1>1, <1>2 DEF Crash, zoneVars, DnsInv, ZoneInv, ApplyAdds, ApplyReplaces, CnameFree
<1> QED
  BY <1>1, <1>3, DnsInvParts DEF Crash, DnsInv, WorkerInv, WorkerKnows

\* So does its start, in a session that may lack what was not published.
LEMMA StartStep == DnsInv /\ Start => DnsInv'
<1> SUFFICES ASSUME DnsInv, Start PROVE DnsInv'
  OBVIOUS
<1>1. BudgetStep /\ (NoReadFailed' => NoReadFailed) /\ (NoFault' => NoFault)
  BY DEF Start, BudgetStep, NoReadFailed, NoFault
<1>2. applied = "idle" /\ UNCHANGED <<applied, changes>> /\ pc' = "idle"
  BY DEF Start, DnsInv, WorkerKnows
<1>3. draft' \in {draft, published} /\ published' = published
  BY DEF Start, NewSession
<1>4. draft' \subseteq Records
  BY <1>3 DEF DnsInv
<1>5. ZoneInv'
  BY <1>1, <1>2, <1>3, <1>4 DEF DnsInv, ZoneInv, ApplyAdds, ApplyReplaces, CnameFree
<1>6. dnsZone' \in DnsZones
  BY DEF Start, GetDNSZone, MatchingZones
<1>7. queue' \in Seq(Versions)
  BY DEF Start, DnsInv
<1> QED
  BY <1>1, <1>2, <1>5, <1>6, <1>7, DnsInvParts DEF Start, DnsInv, WorkerInv, WorkerKnows

-----------------------------------------------------------------------------
(* EnsureDNSRrsets and Apply *)

\* What is known while a name is ensured: it is one of the zone's, and what is
\* wanted there are its records, addresses or one CNAME.
LEMMA GoalFacts ==
  ASSUME DnsInv, pc \in {"ensure", "apply"}
  PROVE  /\ cluster \in Located /\ level \in Levels /\ dnsZone \in DnsZones /\ item \in Annotated
         /\ Goal \subseteq Records /\ CnameFree(Goal)
         /\ \A r \in Goal : r.fqdn = Current
         /\ \A r \in Records : r.fqdn = Current => Deleted(r, dnsZone) = r
<1>1. cluster \in Located /\ level \in Levels /\ dnsZone \in DnsZones /\ item \in Annotated
  BY DEF DnsInv, WorkerKnows
<1>2. Goal \subseteq Records /\ CnameFree(Goal) /\ \A r \in Goal : r.fqdn = Current
  BY <1>1, WantedHere, WantedCnameFree, WantedRecords DEF Goal, Current
<1>3. ASSUME NEW r \in Records, r.fqdn = Current PROVE Deleted(r, dnsZone) = r
  <2>1. Relisted(r.fqdn, dnsZone) = r.fqdn
    BY <1>1, <1>3, RelistedAssumption DEF Current
  <2> QED
    BY <2>1 DEF Deleted, Records
<1> QED
  BY <1>1, <1>2, <1>3

\* The worker moves on to another level, or to the next cluster.
LEMMA WorkerMoves ==
  ASSUME DnsInv, pc \in {"ensure", "apply"}, Ensured \/ EnsureFails,
         applied' = "idle", dnsZone' = dnsZone
  PROVE  WorkerInv'
<1>1. cluster \in Located /\ level \in Levels /\ dnsZone \in DnsZones /\ item \in Annotated
      /\ todo \subseteq Clusters
  BY DEF DnsInv, WorkerKnows
<1>2. UNCHANGED <<item, todo, cluster>>
      /\ (pc' = "clusters" \/ (pc' = "ensure" /\ level' \in Levels))
  BY <1>1 DEF Ensured, EnsureFails, Levels
<1> QED
  BY <1>1, <1>2 DEF WorkerInv, WorkerKnows

\* Listing the records and starting a changeset keep the invariant.
LEMMA EnsureRrsetsStep == DnsInv /\ EnsureRrsets => DnsInv'
<1> SUFFICES ASSUME DnsInv, EnsureRrsets PROVE DnsInv'
  OBVIOUS
<1>1. pc = "ensure" /\ applied = "idle" /\ UNCHANGED <<ing, queue, dnsZone>>
  BY DEF EnsureRrsets, DnsInv, WorkerKnows
<1>2. BudgetStep
  BY SpendShows DEF EnsureRrsets, Get, BudgetStep, Events
<1>3. ing' \in Versions \cup {None} /\ queue' \in Seq(Versions)
  BY <1>1 DEF DnsInv
<1>4. CASE (Ensured \/ EnsureFails) /\ UNCHANGED dynVars
  <2>1. ZoneInv'
    BY <1>1, <1>2, <1>4, ZoneFrame
  <2>2. WorkerInv'
    BY <1>1, <1>4, WorkerMoves DEF dynVars
  <2> QED
    BY <1>2, <1>3, <2>1, <2>2, DnsInvParts
<1>5. CASE \E list : /\ list = HereIn(draft) \/ ~NoReadFailed'
                     /\ StartApply(list, Goal)
                     /\ pc' = "apply" /\ UNCHANGED <<item, todo, cluster, level>>
  <2>1. PICK list : /\ list = HereIn(draft) \/ ~NoReadFailed'
                    /\ StartApply(list, Goal)
                    /\ pc' = "apply" /\ UNCHANGED <<item, todo, cluster, level>>
    BY <1>5
  <2>2. Goal' = Goal /\ Current' = Current
    BY <1>1, <2>1 DEF Goal, Current
  <2>3. changes'.remove = list /\ changes'.add = Goal /\ applied' = "running"
        /\ UNCHANGED <<draft, published>>
    BY <2>1 DEF StartApply, zoneVars
  <2>4. (NoReadFailed' => NoReadFailed) /\ (NoFault' => NoFault)
    BY <1>2, BudgetFacts
  <2>5. ApplyAdds'
    BY <2>2, <2>3 DEF ApplyAdds
  <2>6. ApplyReplaces'
    BY <1>1, <2>1, <2>2, <2>3, <2>4 DEF DnsInv, ApplyReplaces, CnameFree, HereIn, Elsewhere
  <2>7. ZoneInv'
    BY <2>3, <2>5, <2>6 DEF ZoneInv, DnsInv
  <2>8. WorkerInv'
    BY <1>1, <2>1 DEF WorkerInv, WorkerKnows, DnsInv
  <2> QED
    BY <1>2, <1>3, <2>7, <2>8, DnsInvParts
<1>6. ASSUME NEW list, EnsureWith(list), list = HereIn(draft) \/ ~NoReadFailed'
      PROVE  DnsInv'
  BY <1>4, <1>5, <1>6 DEF EnsureWith, Goal
<1>7. CASE EnsureWith(GetRecordByName(Current))
  <2>1. GetRecordByName(Current) = HereIn(draft)
    BY DEF GetRecordByName, HereIn
  <2> QED
    BY <1>6, <1>7, <2>1
<1>8. CASE Spend("read") /\ EnsureWith({})
  <2>1. ~NoReadFailed'
    BY <1>8, SpendShows DEF Events, NoReadFailed
  <2> QED
    BY <1>6, <1>8, <2>1
<1> QED
  BY <1>4, <1>7, <1>8 DEF EnsureRrsets, Get, Current

\* An Apply that ends with an error after a failed request keeps what is known.
LEMMA ApplyFails ==
  ASSUME DnsInv, pc = "apply", UNCHANGED <<ing, queue, dnsZone, workerVars>>,
         ApplyReturns("failed"), Spend("fault"),
         draft' \cup published' \subseteq Records,
         NoReadFailed => CnameFree(draft') /\ CnameFree(published')
  PROVE  DnsInv'
<1>1. BudgetStep /\ ~NoFault'
  BY SpendShows DEF Events, NoFault
<1>2. NoReadFailed' => NoReadFailed
  BY <1>1, BudgetFacts
<1>3. ZoneInv'
  BY <1>1, <1>2 DEF ApplyReturns, ZoneInv, ApplyAdds, ApplyReplaces, CnameFree
<1> QED
  BY <1>1, <1>3, DnsInvParts DEF DnsInv, WorkerInv, WorkerKnows, workerVars, ApplyReturns

\* A refused request ends Apply without a fault only if a list has failed before.
LEMMA ApplyRefused ==
  ASSUME DnsInv, pc = "apply", UNCHANGED <<ing, queue, dnsZone, workerVars>>,
         ApplyReturns("failed"), UNCHANGED <<draft, published, budget>>, ~NoReadFailed
  PROVE  DnsInv'
<1>1. ZoneInv'
  BY DEF DnsInv, ApplyReturns, ZoneInv, ApplyAdds, ApplyReplaces, NoReadFailed
<1> QED
  BY <1>1, DnsInvParts DEF DnsInv, WorkerInv, WorkerKnows, workerVars, ApplyReturns, BudgetStep

\* A step of Apply keeps the worker where it is.
LEMMA ApplyGoesOn ==
  ASSUME DnsInv, pc = "apply", UNCHANGED <<ing, queue, dnsZone, workerVars, budget>>, ZoneInv'
  PROVE  DnsInv'
BY DnsInvParts DEF DnsInv, WorkerInv, WorkerKnows, workerVars, BudgetStep

\* Deleting a listed record keeps the invariant.
LEMMA DeleteRecordStep ==
  ASSUME DnsInv, pc = "apply", UNCHANGED <<ing, queue, dnsZone, workerVars>>,
         NEW r \in changes.remove, DeleteRecord(r, dnsZone)
  PROVE  DnsInv'
<1> DEFINE q == Deleted(r, dnsZone)
<1>1. applied = "running" /\ published' = published
  BY DEF DeleteRecord
<1>2. NoReadFailed => r \in draft /\ q = r
  <2>1. NoReadFailed => r \in HereIn(draft)
    BY <1>1 DEF DnsInv, ApplyReplaces
  <2> QED
    BY <2>1, GoalFacts DEF HereIn, DnsInv
<1> HIDE DEF q
<1>3. draft' \subseteq draft
  BY DEF DeleteRecord
<1>4. draft' \cup published' \subseteq Records
      /\ (NoReadFailed => CnameFree(draft') /\ CnameFree(published'))
  BY <1>1, <1>3 DEF DnsInv, ApplyReplaces, CnameFree
<1>5. CASE Spend("fault") /\ ApplyReturns("failed")
  BY <1>4, <1>5, ApplyFails
<1>6. CASE /\ q \in draft /\ draft' = draft \ {q}
           /\ changes' = [changes EXCEPT !.remove = @ \ {r}] /\ UNCHANGED <<applied, budget>>
  <2>1. changes'.remove = changes.remove \ {r} /\ changes'.add = changes.add
    BY <1>6
  <2>2. Goal' = Goal /\ Current' = Current
    BY DEF Goal, Current, workerVars
  <2>3. changes.add = Goal
    BY <1>1 DEF DnsInv, ApplyAdds
  <2>4. ApplyAdds'
    BY <1>1, <1>6, <2>1, <2>2, <2>3 DEF ApplyAdds
  <2>5. (NoReadFailed' <=> NoReadFailed) /\ (NoFault' <=> NoFault)
    BY <1>6 DEF NoReadFailed, NoFault
  <2>6. ASSUME NoReadFailed PROVE HereIn(draft)' = changes'.remove
    <3>1. HereIn(draft) = changes.remove
      BY <1>1, <2>6 DEF DnsInv, ApplyReplaces
    <3> QED
      BY <1>2, <1>6, <2>1, <2>2, <2>6, <3>1 DEF HereIn
  <2>7. ASSUME NoFault PROVE Elsewhere(published)' = Elsewhere(draft)'
    <3>1. NoReadFailed /\ Elsewhere(published) = Elsewhere(draft)
      BY <1>1, <2>7 DEF NoFault, DnsInv, ApplyReplaces
    <3>2. q \in HereIn(draft)
      BY <1>1, <1>2, <3>1 DEF DnsInv, ApplyReplaces
    <3> QED
      BY <1>1, <1>6, <2>2, <3>1, <3>2 DEF Elsewhere, HereIn
  <2>8. ApplyReplaces'
    BY Zenon, <1>1, <1>4, <1>6, <2>1, <2>2, <2>3, <2>5, <2>6, <2>7 DEF ApplyReplaces, CnameFree
  <2> QED
    BY <1>4, <1>6, <2>4, <2>8, ApplyGoesOn DEF ZoneInv
<1>7. CASE q \notin draft /\ ApplyReturns("failed") /\ UNCHANGED <<draft, budget>>
  BY <1>1, <1>2, <1>7, ApplyRefused
<1> QED
  BY <1>5, <1>6, <1>7 DEF DeleteRecord, GetRecordID, q

\* So does creating a wanted one.
LEMMA CreateRecordStep ==
  ASSUME DnsInv, pc = "apply", UNCHANGED <<ing, queue, dnsZone, workerVars>>,
         NEW r \in changes.add, CreateRecord(r)
  PROVE  DnsInv'
<1>1. applied = "running" /\ published' = published /\ changes.remove = {}
  BY DEF CreateRecord
<1>2. r \in Goal /\ r \in Records /\ r.fqdn = Current /\ changes.add \subseteq Goal
  BY <1>1, GoalFacts DEF DnsInv, ApplyAdds
<1>3. NoReadFailed => HereIn(draft) = Goal \ changes.add
  BY <1>1 DEF DnsInv, ApplyReplaces
<1>4. draft' \subseteq draft \cup {r}
  BY DEF CreateRecord
<1>5. draft' \cup published' \subseteq Records
  BY <1>1, <1>2, <1>4 DEF DnsInv
<1>6. ASSUME NoReadFailed PROVE CnameFree(draft') /\ CnameFree(published')
  <2>1. \A q \in draft : q.fqdn = r.fqdn => q \in Goal
    BY <1>2, <1>3, <1>6 DEF HereIn
  <2>2. CnameFree(draft) /\ CnameFree(published)
    BY <1>6 DEF DnsInv, ApplyReplaces
  <2>3. CnameFree(draft \cup {r})
    BY <1>2, <2>1, <2>2, GoalFacts DEF CnameFree
  <2> QED
    BY <1>1, <1>4, <2>2, <2>3 DEF CnameFree
<1>7. CASE Spend("fault") /\ ApplyReturns("failed")
  BY <1>5, <1>6, <1>7, ApplyFails
<1>8. CASE /\ r \notin draft /\ draft' = draft \cup {r}
           /\ changes' = [changes EXCEPT !.add = @ \ {r}] /\ UNCHANGED <<applied, budget>>
  <2>1. changes'.remove = {} /\ changes'.add = changes.add \ {r}
    BY <1>1, <1>8
  <2>2. Goal' = Goal /\ Current' = Current
    BY DEF Goal, Current, workerVars
  <2>3. Goal \ changes.add \subseteq draft
    BY <1>1 DEF DnsInv, ApplyAdds
  <2>4. ApplyAdds'
    BY <1>1, <1>2, <1>8, <2>1, <2>2, <2>3 DEF ApplyAdds
  <2>5. (NoReadFailed' <=> NoReadFailed) /\ (NoFault' <=> NoFault)
    BY <1>8 DEF NoReadFailed, NoFault
  <2>6. ASSUME NoReadFailed PROVE HereIn(draft)' = Goal' \ changes'.add
    BY <1>2, <1>3, <1>8, <2>1, <2>2, <2>6 DEF HereIn
  <2>7. ASSUME NoFault PROVE Elsewhere(published)' = Elsewhere(draft)'
    <3>1. Elsewhere(published) = Elsewhere(draft)
      BY <1>1, <2>7 DEF NoFault, DnsInv, ApplyReplaces
    <3> QED
      BY <1>1, <1>2, <1>8, <2>2, <3>1 DEF Elsewhere
  <2>8. ApplyReplaces'
    BY Zenon, <1>1, <1>6, <1>8, <2>1, <2>5, <2>6, <2>7 DEF ApplyReplaces, CnameFree
  <2> QED
    BY <1>5, <1>8, <2>4, <2>8, ApplyGoesOn DEF ZoneInv
<1>9. CASE r \in draft /\ ApplyReturns("failed") /\ UNCHANGED <<draft, budget>>
  <2>1. ~NoReadFailed
    BY <1>2, <1>3, <1>9 DEF HereIn
  <2> QED
    BY <1>1, <1>9, <2>1, ApplyRefused
<1> QED
  BY <1>7, <1>8, <1>9 DEF CreateRecord

\* A changeset with nothing left has made the name what was wanted.
LEMMA ReadyToPublish ==
  ASSUME DnsInv, PublishZone
  PROVE  /\ applied = "running" /\ Goal \subseteq draft
         /\ NoReadFailed => HereIn(draft) = Goal
         /\ NoFault => Elsewhere(published) = Elsewhere(draft)
<1>1. applied = "running" /\ changes.remove = {} /\ changes.add = {}
  BY DEF PublishZone, NoChanges
<1> QED
  BY <1>1 DEF DnsInv, ApplyAdds, ApplyReplaces, NoFault

\* Publishing the zone keeps the invariant.
LEMMA PublishZoneStep ==
  ASSUME DnsInv, pc = "apply", UNCHANGED <<ing, queue, dnsZone, workerVars>>, PublishZone
  PROVE  DnsInv'
<1>1. draft' = draft /\ published' \in {draft, published}
  BY DEF PublishZone
<1>2. draft' \cup published' \subseteq Records
      /\ (NoReadFailed => CnameFree(draft') /\ CnameFree(published'))
  BY <1>1 DEF DnsInv, ApplyReplaces, CnameFree
<1>3. CASE Spend("fault") /\ ApplyReturns("failed")
  BY <1>2, <1>3, ApplyFails
<1>4. CASE published' = draft /\ ApplyReturns("done") /\ UNCHANGED budget
  <2>1. applied' = "done" /\ Goal' = Goal
    BY <1>4 DEF ApplyReturns, Goal, workerVars
  <2>2. ApplyAdds'
    BY <1>1, <2>1, ReadyToPublish DEF ApplyAdds
  <2>3. ApplyReplaces'
    BY <1>1, <1>2, <1>4, <2>1 DEF ApplyReplaces, CnameFree, NoReadFailed
  <2> QED
    BY <1>2, <1>4, <2>2, <2>3, ApplyGoesOn DEF ZoneInv
<1> QED
  BY <1>3, <1>4 DEF PublishZone

\* The return of Apply keeps the invariant.
LEMMA ApplyDoneStep == DnsInv /\ ApplyDone => DnsInv'
<1> SUFFICES ASSUME DnsInv, ApplyDone PROVE DnsInv'
  OBVIOUS
<1>1. /\ pc = "apply" /\ applied \in {"done", "failed"} /\ applied' = "idle"
      /\ UNCHANGED <<draft, published, changes, budget, ing, queue, dnsZone>>
      /\ Ensured \/ EnsureFails
  BY DEF ApplyDone, zoneVars
<1>2. ZoneInv'
  BY <1>1 DEF DnsInv, ZoneInv, ApplyAdds, ApplyReplaces, CnameFree, NoReadFailed, NoFault
<1>3. WorkerInv'
  BY <1>1, WorkerMoves
<1> QED
  BY <1>1, <1>2, <1>3, DnsInvParts DEF DnsInv, BudgetStep

-----------------------------------------------------------------------------
(* The theorems *)

\* DnsInv is inductive.
LEMMA DnsInvStep == DnsInv /\ [Next]_vars => DnsInv'
<1> SUFFICES ASSUME DnsInv, [Next]_vars PROVE DnsInv'
  OBVIOUS
<1>1. CASE TakeItem \/ FinishItem \/ \E c \in Clusters : VisitCluster(c)
  <2>1. CASE FinishItem
    BY <2>1 DEF FinishItem, DnsInv, WorkerKnows, ApplyAdds, ApplyReplaces, CnameFree, dynVars,
                zoneVars, NoReadFailed, NoFault
  <2> QED
    BY <1>1, <2>1, TakeItemStep, VisitStep
<1>2. CASE EnsureRrsets
  BY <1>2, EnsureRrsetsStep
<1>3. CASE ApplyChanges
  <2>1. pc = "apply" /\ UNCHANGED <<ing, queue, dnsZone, workerVars>> /\ Apply(dnsZone)
    BY <1>3 DEF ApplyChanges
  <2>2. CASE \E r \in changes.remove : DeleteRecord(r, dnsZone)
    BY <2>1, <2>2, DeleteRecordStep
  <2>3. CASE \E r \in changes.add : CreateRecord(r)
    BY <2>1, <2>3, CreateRecordStep
  <2>4. CASE PublishZone
    BY <2>1, <2>4, PublishZoneStep
  <2> QED
    BY <2>1, <2>2, <2>3, <2>4 DEF Apply
<1>4. CASE ApplyDone
  BY <1>4, ApplyDoneStep
<1>5. CASE Start
  BY <1>5, StartStep
<1>6. CASE Environment
  BY <1>6, CrashStep, UserStep DEF Environment
<1>7. CASE UNCHANGED vars
  BY <1>7 DEF vars, workerVars, dynVars, zoneVars, DnsInv, WorkerKnows, ApplyAdds,
              ApplyReplaces, CnameFree, NoReadFailed, NoFault, Goal, Current, HereIn, Elsewhere
<1> QED
  BY <1>1, <1>2, <1>3, <1>4, <1>5, <1>6, <1>7 DEF Next, Worker

\* It holds at the start.
LEMMA DnsInvInit == Init => DnsInv
BY DnsBudgetAssumption DEF Init, DnsInv, WorkerKnows, ApplyAdds, ApplyReplaces, CnameFree

\* The invariant of the worker, the changeset and the zone holds throughout: Apply
\* replaces the records of one name, whichever request fails.
THEOREM DnsInvariant == Spec => []DnsInv
BY DnsInvInit, DnsInvStep, PTL DEF Spec

\* A CNAME never shares its name with an address, in the session or in public, as
\* long as Get has not swallowed an error.
THEOREM CnameAloneHolds == Spec => []CnameAlone
<1>1. DnsInv => CnameAlone
  BY DEF DnsInv, ApplyReplaces, CnameAlone
<1> QED
  BY <1>1, DnsInvariant, PTL

\* When EnsureDNSRrsets returns nil, the wanted records are there, through any
\* failures and restarts.
THEOREM EnsuredIsThereHolds == Spec => EnsuredIsThere
<1> DEFINE Returned == level \in Levels /\ level' = level + 1
<1>1. ASSUME DnsInv, [Next]_vars, Returned PROVE Goal \subseteq draft'
  <2>1. level' # level
    BY <1>1 DEF Levels
  <2>2. level' # 0 /\ level' # 1
    BY <1>1 DEF Levels
  <2>3. (EnsureRrsets /\ Ensured) \/ (ApplyDone /\ Ensured)
    BY Zenon, <1>1, <2>1, <2>2
    DEF Next, Worker, Environment, TakeItem, VisitCluster, FinishItem, EnsureRrsets, EnsureWith,
        EnsureFails, ApplyChanges, ApplyDone, Start, Crash, UserCreate, UserDelete, RemoveIngress,
        ReportStatus, workerVars, vars
  <2>4. CASE EnsureRrsets
    <3>1. pc' # "apply" /\ UNCHANGED draft
      BY <2>1, <2>4 DEF EnsureRrsets, EnsureWith, Ensured,
         EnsureFails, dynVars, zoneVars, StartApply
    <3>2. PICK list \in {GetRecordByName(Current), {}} : FindRrset(list, Goal) \/ Goal = {}
      BY <2>1, <2>2, <2>4, <3>1 DEF EnsureRrsets, EnsureWith, EnsureFails, Goal, Current
    <3> QED
      BY <3>1, <3>2 DEF FindRrset, GetRecordByName
  <2>5. CASE ApplyDone
    <3>1. applied = "done" /\ draft' = draft
      BY <2>2, <2>5 DEF ApplyDone, EnsureFails, zoneVars
    <3> QED
      BY <1>1, <3>1 DEF DnsInv, ApplyAdds
  <2> QED
    BY <2>3, <2>4, <2>5
<1>2. DnsInv /\ [Next]_vars => [Returned => Goal \subseteq draft']_vars
  BY <1>1
<1> QED
  BY <1>2, DnsInvariant, PTL DEF Spec, EnsuredIsThere, Goal

-----------------------------------------------------------------------------
(* Types, and where records come from *)

\* What TypeOK says beyond DnsInv.
RestOK ==
  /\ changes.remove \subseteq Records /\ changes.add \subseteq Records
  /\ applied \in {"idle", "running", "done", "failed"}
  /\ item \in Versions \cup {None} /\ dnsZone \in DnsZones \cup {None}
  /\ pc \in {"down", "idle", "clusters", "ensure", "apply"}
  /\ cluster \in Clusters \cup {None} /\ level \in 0 .. 4

\* A step of the worker, or another, keeps the types.
LEMMA RestOKStep == DnsInv /\ RestOK /\ [Next]_vars => RestOK'
<1> SUFFICES ASSUME DnsInv, RestOK, [Next]_vars PROVE RestOK'
  OBVIOUS
<1>1. CASE TakeItem
  <2>1. queue \in Seq(Versions) /\ queue # <<>>
    BY <1>1 DEF DnsInv, TakeItem
  <2>2. Head(queue) \in Versions
    BY <2>1
  <2> QED
    BY <1>1, <2>2 DEF TakeItem, RestOK, dynVars
<1>2. CASE FinishItem \/ \E c \in Clusters : VisitCluster(c)
  BY <1>2 DEF FinishItem, VisitCluster, RestOK, dynVars
<1>3. ASSUME pc \in {"ensure", "apply"}, Ensured \/ EnsureFails
      PROVE  /\ item' = item /\ cluster' = cluster /\ level' \in 0 .. 4
             /\ pc' \in {"clusters", "ensure"}
  BY <1>3, GoalFacts DEF Ensured, EnsureFails, Levels
<1>4. CASE EnsureRrsets
  <2>1. pc = "ensure" /\ dnsZone' = dnsZone
    BY <1>4 DEF EnsureRrsets
  <2>2. CASE (Ensured \/ EnsureFails) /\ UNCHANGED dynVars
    BY <1>3, <2>1, <2>2 DEF RestOK, dynVars
  <2>3. CASE \E list \in {GetRecordByName(Current), {}} :
               StartApply(list, Goal) /\ pc' = "apply" /\ UNCHANGED <<item, todo, cluster, level>>
    <3>1. GetRecordByName(Current) \subseteq Records
      BY DEF GetRecordByName, DnsInv
    <3> QED
      BY <2>1, <2>3, <3>1, GoalFacts DEF StartApply, RestOK
  <2> QED
    BY <1>4, <2>2, <2>3 DEF EnsureRrsets, EnsureWith, Goal, Current
<1>5. CASE ApplyChanges
  <2>1. UNCHANGED <<dnsZone, pc, item, cluster, level>>
    BY <1>5 DEF ApplyChanges, workerVars
  <2>2. /\ changes'.remove \subseteq changes.remove /\ changes'.add \subseteq changes.add
        /\ applied' \in {applied, "done", "failed"}
    <3>1. CASE \E res \in {"done", "failed"} : ApplyReturns(res)
      BY <3>1 DEF ApplyReturns, NoChanges
    <3>2. CASE /\ UNCHANGED applied
               /\ \E r : changes' = [changes EXCEPT !.remove = @ \ {r}]
      BY <3>2
    <3>3. CASE /\ UNCHANGED applied
               /\ \E r : changes' = [changes EXCEPT !.add = @ \ {r}]
      BY <3>3
    <3> QED
      BY <1>5, <3>1, <3>2, <3>3 DEF ApplyChanges, Apply, DeleteRecord, CreateRecord,
         PublishZone
  <2> QED
    BY <2>1, <2>2 DEF RestOK
<1>6. CASE ApplyDone
  BY <1>3, <1>6 DEF ApplyDone, RestOK
<1>7. CASE Start
  BY <1>7 DEF Start, GetDNSZone, MatchingZones, RestOK
<1>8. CASE Crash
  BY <1>8 DEF Crash, NoChanges, RestOK
<1>9. CASE UserCreate \/ UserDelete \/ RemoveIngress \/ \E rep \in Reports : ReportStatus(rep)
  BY Zenon, <1>9 DEF UserCreate, UserDelete, RemoveIngress, ReportStatus, RestOK,
     dynVars, workerVars
<1>10. CASE UNCHANGED vars
  BY <1>10 DEF vars, dynVars, workerVars, RestOK
<1> QED
  BY <1>1, <1>2, <1>4, <1>5, <1>6, <1>7, <1>8, <1>9, <1>10 DEF Next, Worker, Environment

\* Every variable of the DNS controller keeps its type.
THEOREM TypeCorrect == Spec => []TypeOK
<1>1. Init => RestOK
  BY DEF Init, RestOK, NoChanges
<1>2. DnsInv /\ RestOK => TypeOK
  BY DEF DnsInv, RestOK, TypeOK
<1> QED
  BY <1>1, <1>2, RestOKStep, DnsInvariant, PTL DEF Spec

\* Every record that EnsureDNSRrsets wants is explained by the cluster it is for.
LEMMA WantedExplained ==
  ASSUME NEW c \in Located, NEW o \in Annotated, NEW l \in Levels, NEW z \in DnsZones,
         NEW r \in Wanted(c, o, l, z)
  PROVE  Explained(r)
<1>1. r.fqdn = FQDN[c][l][z]
  BY WantedHere
<1>2. CASE HealthyEndpoints(c, o, l) = {}
  <2>1. r \in CNAMERecords(FQDN[c][l][z], Name[c][l + 1])
    BY <1>2 DEF Wanted
  <2>2. r.type = "CNAME" /\ r.value = Name[c][l + 1] /\ Name[c][l + 1] # <<>>
    BY <2>1 DEF CNAMERecords
  <2>3. l = 3 => Name[c][l + 1] = <<>>
    BY DEF Name, DnsName, Levels
  <2>4. l < 3
    BY <2>2, <2>3 DEF Levels
  <2> QED
    BY <1>1, <2>2, <2>4 DEF Explained
<1>3. CASE HealthyEndpoints(c, o, l) # {}
  <2>1. r.type = "A" /\ r.value \in Resolved(HealthyEndpoints(c, o, l))
    BY <1>3 DEF Wanted, ARecords
  <2>2. HealthyEndpoints(c, o, l) = UNION {o.lb[d] : d \in Peers(c, o.lb, l)}
    BY <1>3 DEF HealthyEndpoints
  <2>3. PICK d \in Peers(c, o.lb, l) : r.value \in Resolved(o.lb[d])
    BY <2>1, <2>2 DEF Resolved
  <2>4. d \in DOMAIN o.lb /\ d \in Clusters /\ Within(d, c, l)
    BY AnnotatedClusters DEF Peers
  <2>5. PICK rep \in Reports : rep.lb = o.lb
    BY DEF Annotated, Versions
  <2>6. r.value \in Listable[d]
    BY <2>3, <2>4, <2>5 DEF Listable, Annotated
  <2> QED
    BY <1>1, <2>1, <2>4, <2>6 DEF Explained
<1> QED
  BY <1>2, <1>3

\* A name of a zone or region only ever has addresses of clusters there, and a
\* CNAME only leads to the next name up, through any failures and restarts.
THEOREM LocalityHolds == Spec => []Locality
<1>1. Init => Locality
  BY DEF Init, Locality
<1>2. ASSUME DnsInv, Locality, [Next]_vars PROVE Locality'
  <2>1. CASE ApplyChanges
    <3>1. pc = "apply"
      BY <2>1 DEF ApplyChanges
    <3>2. applied = "running" => changes.add \subseteq Goal
      BY <1>2 DEF DnsInv, ApplyAdds
    <3>3. draft' \cup published' \subseteq draft \cup published \cup Goal
      BY <2>1, <3>2 DEF ApplyChanges, Apply, DeleteRecord, CreateRecord, PublishZone
    <3>4. \A r \in Goal : Explained(r)
      BY <1>2, <3>1, GoalFacts, WantedExplained DEF Goal
    <3> QED
      BY <1>2, <3>3, <3>4 DEF Locality
  <2>2. CASE draft' \in {draft, published} /\ published' = published
    BY <1>2, <2>2 DEF Locality
  <2> QED
    BY Zenon, <1>2, <2>1, <2>2
    DEF Next, Worker, Environment, TakeItem, VisitCluster, FinishItem, EnsureRrsets, EnsureWith,
        StartApply, ApplyDone, Start, NewSession, Crash, UserCreate, UserDelete, RemoveIngress,
        ReportStatus, dynVars, zoneVars, vars
<1> QED
  BY <1>1, <1>2, DnsInvariant, PTL DEF Spec

-----------------------------------------------------------------------------
(* What resolvers see *)

\* No request fails and the process does not end.
FaultFree == Budget.read = 0 /\ Budget.fault = 0 /\ Budget.crash = 0

\* Without failures, resolvers see the records of one name change at a time, from
\* one whole set to another: PublishZone implements ZoneFile.
THEOREM ZoneFileRefinement == ASSUME FaultFree PROVE Spec => ZoneFileSpec
<1>1. Init => ZF!Init
  BY DEF Init, ZF!Init
<1>2. ASSUME DnsInv, [Next]_vars PROVE [ZF!Next]_published
  <2>1. budget.read = 0 /\ budget.fault = 0 /\ budget.crash = 0
    BY <1>2, FaultFree DEF DnsInv, FaultFree, Events
  <2>2. NoReadFailed /\ NoFault /\ ~Spend("fault")
    BY <2>1, FaultFree DEF NoReadFailed, NoFault, FaultFree, Spend
  <2>3. CASE ApplyChanges /\ PublishZone
    <3>1. pc = "apply" /\ published' = draft
      BY <2>2, <2>3 DEF ApplyChanges, PublishZone
    <3>2. /\ cluster \in Located /\ level \in Levels /\ dnsZone \in DnsZones /\ item \in Annotated
      BY <1>2, <3>1, GoalFacts
    <3>3. Current \in FQDNs
      BY <3>2 DEF Current, FQDNs
    <3>4. ZF!At(published', Current) = Goal
      BY <1>2, <2>2, <2>3, <3>1, ReadyToPublish DEF ZF!At, HereIn
    <3>5. ZF!Elsewhere(published', Current) = ZF!Elsewhere(published, Current)
      BY <1>2, <2>2, <2>3, <3>1, ReadyToPublish DEF ZF!Elsewhere, Elsewhere
    <3>6. WholeAt(Current, Goal)
      BY <3>2 DEF WholeAt, Current, Goal
    <3> QED
      BY <3>3, <3>4, <3>5, <3>6 DEF ZF!Next, ZF!Replace
  <2>4. CASE UNCHANGED published
    BY <2>4
  <2> QED
    BY Zenon, <1>2, <2>3, <2>4
    DEF Next, Worker, Environment, TakeItem, VisitCluster, FinishItem, EnsureRrsets, EnsureWith,
        StartApply, ApplyChanges, Apply, DeleteRecord, CreateRecord, ApplyDone, Start, NewSession,
        Crash, UserCreate, UserDelete, RemoveIngress, ReportStatus, dynVars, zoneVars, vars
<1> QED
  BY <1>1, <1>2, DnsInvariant, PTL DEF Spec, ZoneFileSpec, ZF!Spec
=============================================================================
