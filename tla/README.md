# A TLA+ model of the federated ingress controller

This directory specifies the federated ingress controller in TLA+, model-checks
it with TLC on small instances, and proves its central safety properties with
TLAPS for every instance. Line numbers without a file name are those of
`pkg/controller/ingress/ingress_controller.go`.

## The system

| Part | Source | Here |
|---|---|---|
| Reconciliation of federated ingresses | `ingress_controller.go` 396-477, 690-997 | `IngressController` |
| Election and propagation of the ingress UID | `ingress_controller.go` 408-423, 484-683 | `UidElection` |
| Construction and start of the controller | `ingress_controller.go` 133-389 | the informer and handler actions of both modules |
| Deletion helper, federated updater, federated informer, cluster selector, metadata comparison | `vendor/k8s.io/kubernetes/federation/pkg/federation-controller/util` | part of both modules |
| Delaying deliverer and back-off | same, `delaying_deliverer.go`, `backoff.go`; `flowcontrol/backoff.go` of client-go; `ingress_controller.go` 391-423 | `DelayingDeliverer`, `Deliverer` |
| DNS controller | `pkg/controller/ingress/dns/dns.go` | `DnsController` |
| Record set reconciliation, choice of zone | `pkg/controller/util/dns.go` | `DnsController`, `DnsNames` |
| DynDNS provider and Dynect client | `pkg/dnsprovider/providers/dyndns` | `DynDns`, `DnsNames` |
| Stubs, flags, process start | `stubs/`, `cmd/`, `options/` | not modelled: test doubles and sequential set-up |

A user writes a federated ingress to the federation API server. The controller
sees it through an informer, adds finalizers, elects a first cluster, creates
the ingress there and then in the other clusters, copies back the static IP name
and the load balancer status that clusters report, and writes an annotation with
all addresses. The DNS controller turns that annotation into records. Besides,
clusters must share one ingress UID: it is kept as an annotation of the cluster
objects and pushed to a ConfigMap in each cluster.

The two controllers share a process and nothing else: what passes from one to the
other is the federated ingress on the API server. The ingress controller's keys go
through two delaying deliverers, the DNS controller's objects through a work queue.

Everything the controllers decide is decided on caches that lag behind the API
servers. What protects them is the resource version check of updates, the
redelivery of keys and the level-triggered style. The hazards listed in
`PROJECT.json` are the places where one of the three is missing or could be; the
DNS controller has neither versions nor redelivery.

## Modules

| Module | Contents |
|---|---|
| `IngressController` | state machine of one federated ingress in any number of clusters, its properties, and the mutants that show the properties can fail |
| `IngressDeletion` | the same with a history variable: which clusters a deletion could see in full when it read their stores |
| `MCIngressController`, `MCIngressDeletion` | instances for TLC |
| `IngressControllerProofs` | inductive invariant and theorems |
| `ClusterIngressProofs` | that updates keep what a cluster wrote on its ingress |
| `QuiescenceProofs` | that the controller goes quiet only when there is nothing left to do, and a deletion ends only after the stores showed nothing |
| `OneIncarnationProofs` | that one cluster allocates the IP and orphaned ingresses stay, during the life of one federated ingress |
| `UidElection` | state machine of the UID election |
| `MCUidElection` | instances for TLC |
| `UidElectionProofs` | inductive invariant and theorems |
| `UidRestProofs` | that the handlers leave a cluster alone only when its ConfigMap is right |
| `Deliverer` | what the controllers rely on when they deliver a key: an abstract specification |
| `DelayingDeliverer` | the deliverer with its goroutines and channels; run by TLC as it is |
| `DelayingDelivererProofs` | inductive invariant, refinement of `Deliverer` |
| `DnsNames` | names and zones as operators on sequences of characters |
| `DynDns` | the provider's changesets and the zone they change |
| `DnsController` | queue, worker and record reconciliation on top of `DynDns` |
| `ZoneFile` | what resolvers may see: an abstract specification |
| `MCDnsController` | instances for TLC |
| `DnsControllerProofs` | inductive invariant, theorems, refinement of `ZoneFile` |

Definitions whose comment begins with "Mutant" are faulty versions of the
definition that follows. No specification uses them. They are listed in
`PROJECT.json` with the property each of them breaks.

### IngressController

State: the federated ingress (`fed`) and each cluster's (`cl`) on their API
servers, as an object with a resource version; the watch events not delivered
yet (`fedWatch`, `clWatch`, handed over in version order); the stores
(`fedCache`, `clCache`); which clusters are ready and have a listed target
informer (`ready`, `synced`); the deliverers (`queued`, `clusterQueued`); the
handler goroutine (`pc`, `base`, `todo`, `lbStat`, `ops`); and the operations that
outlived their `Update` call (`detached`). `intent` and `owner` are history: what
the user last wrote, and for which federated ingress a cluster ingress was made.

| Code | Actions |
|---|---|
| `reconcileIngress` up to the finalizers, 710-757 | `Start`, `EnsureFinalizers` |
| the loop over clusters, 761-945, one cluster per step | `GetReadyClusters`, then `SelectorError`, `ElectFirstCluster`, `QueueCreate`, `QueueRemove`, `TransferIP`, `TransferStatus`, `QueueUpdate` |
| after the loop, 947-976 | `PublishLBStatus`, `Dispatch` |
| `federatedUpdater.Update` | `OpSucceeds`, `OpFails`, `UpdateTimeout`, `DetachedOp` |
| `delete` and `HandleObjectInUnderlyingClusters` | `HandleDeletion`, `DeleteFromClusters`, `RemoveDeleteFinalizer`, `DeleteByName` |
| informers and cluster life cycle | `DeliverFed`, `DeliverCluster`, `SyncInformer`, `ClusterFlips`, `ReconcileOnClusterChange` |
| environment | users, cluster load balancers and IPs, restart |

A step of the handler has at most one request, and the stores it reads are read in one step.
A read and the request that depends on it are separate where a property relates the two, as in a deletion:
the stores are read at 141 of `deletion_helper.go` (`DeleteFromClusters`) and the finalizer goes
with the `Update` of 181 and 205 (`RemoveDeleteFinalizer`), and by then
events may have been delivered, late requests may have arrived and clusters may have turned unready. In the loop,
`ElectFirstCluster`, `TransferIP` and `TransferStatus` read one cluster's store and send the
`Update` of the federated ingress in one step. Nothing is lost there: that request looks at no
cluster and no store, so whatever happens to these between the read and the request can as well
happen after both, and what others write to the federated ingress can be written before both (the
handler has read it in `Start`). The same goes for the several stores read by one step.

Failed requests come in three kinds: rejected, lost on the
way, and applied with the answer lost. Names, hosts, rules and addresses are model
values; the annotations are those the code reads or writes. A static IP is named
after the cluster that allocated it. `isSynced` is a guard of `Start`, because an
unsynced delivery does nothing but deliver the key again. It stands for the ingress informer's checks, 427-440;
the ConfigMap informer's, 441-453, are left out here and belong to `UidElection`. They can only make the code
wait where the model goes on, which the safety properties allow for; `Convergence` and `DeletionFinishes`
assume that the ConfigMap informers get listed in the end. The queues are deliverers
in the sense of `Deliverer` whose requests are all due: a queued key is handed out
at some time. The 30 s resync of the ingress
informers (74, 176, 198) has no action, because `NewTriggerOnAllChanges` drops
updates whose old and new object are equal. Clusters neither join nor leave.

### UidElection

State: the cluster objects (UID annotation, Ready condition), their watch and
store; the ConfigMaps, their watches and stores; the target informers; the two
deliverers and the two handler goroutines; updates that timed out.

`Take`, `Get` and the actions under `Lock` are the three parts of
`reconcileConfigMapForCluster` and `reconcileConfigMap`: the cluster object is read
(505), then the ConfigMap (512), then the lock is taken (559). `Known`, `Follow`,
`SelfMaster`, `ElectSelf` and `NoFallback` are the paths under the lock, and
`UpdateConfigMap` is the call to the updater. The code changes the ConfigMap that
the informer's store holds (594-595). The model keeps track of that object by its
version and the informer it belongs to (`inst`), so that the change shows in the
store and in the other handler when they hold the same object.

Left out: the ingress informer's half of `isSynced`; the `allClustersKey` branch
(492-503), a key that nothing delivers; a ConfigMap without `Data`. The payload of
a late update is fixed when the call is made.

### DelayingDeliverer

`Deliver`, or `DeliverFailed` and `GetBackoff`, are `deliverIngress` and
`deliverConfigMap`; the second is two steps, because the back-off is locked by each
call and not across them. `SendUpdate` is `DeliverAt`. `TakeUpdate` and `WakeUp` are
the two cases of the `select` of `run`, `SendTarget` the send of `deliver`; `HandOut` and
`HandlerReturns` are the loop of `StartWithHandler`. Only sends and receives are steps
of their own, since nobody else sees the heap. A send to a full channel waits.

`Deliverer` knows requests, the clock and the key being handled. A request is dropped
only when its key is handed out, not before its time, or when an earlier one for the
same key is there. Under the refinement mapping (`Pending`) the requests are all items
that a caller is sending, that are in a channel, in the heap or in the hands of `run`.

`run` and the handler can wait for each other: `run` for room in the target channel, and
the handler, in the middle of a redelivery, for room in the update channel. With the
capacities of the code, 100 and 1000, that takes more than 1100 deliveries at about the
same time, as when a cluster changes in a federation of as many ingresses (471-476).
`Jammed` names that state, `Delivered` says that nothing else stops a delivery, and
`JamIsForever` that nothing ends it.

Abstractions: an entry of the back-off expires at some time after its retry is due;
the hourly wake-up of an empty heap is left out; `stopChannel` is never closed, because
`main.go` passes `wait.NeverStop`.

### DnsController, DynDns and DnsNames

State: the federated ingress (`ing`: whether its status has an address, the load balancer
annotation, the deletion timestamp), the work queue of object versions, the zone chosen
at start, the worker's position (`pc`, `item`, `todo`, `cluster`, `level`), and the zone
itself: the `draft` of the provider's session, what is `published`, the rest of the
changeset being applied and the result of `Apply`.

| Code | Actions and operators |
|---|---|
| construction and start, `dns.go` 79-161, 220-260; login, `dyndns.go` 97-119 | `Start`, `NewSession`, `GetDNSZone` |
| informer and queue, `dns.go` 143-158 | `Notify` |
| `workerFunction`, 183-209 | `TakeItem`, `VisitCluster`, `FinishItem` |
| `getHealthyEndpoints`, 262-318; `GetResolvedEndpoints` | `HealthyEndpoints`, `Unusable`, `Resolved` |
| `ensureDNSRecords`, 335-389 | `VisitCluster`, `Ensured`, `EnsureFails`, `DnsName` |
| `EnsureDNSRrsets`, `findRrset`, `util/dns.go` 105-228 | `EnsureRrsets`, `FindRrset`, `Wanted`, `ApplyDone` |
| `Get`, `rrsets.go` 56-77; `GetRecordByName`, `GetRecordID` | `Get`, `GetRecordByName`, `GetRecordID` |
| `Apply`, `rrchangeset.go` 75-112 | `DeleteRecord`, `CreateRecord`, `PublishZone`, one request each |
| `populateRecordWithName`, `GetRecordsFromDNSRRS` | `RecordName`, `Relisted` |
| environment | `ReportStatus` and `RemoveIngress` (the ingress controller), users, `Crash` |

A request to the zone may be refused, be lost, or take effect and have its answer lost
(`fault`); a read of cluster objects, of records or of a hostname may fail (`read`). Names
are sequences of characters because the code cuts and joins them; everything else is a
model value. The order in which Go walks the annotation's map is left open.

External, modelled from how the code uses it: the session of the Dyn service, in which
changes wait for `PublishZone`. Whether a new login sees unpublished changes of an older
one is left open (`NewSession`).

`ZoneFile` says what resolvers may see: the records of one name are replaced at a time,
by a set that `EnsureDNSRrsets` wants for some version of the ingress.

Left out: the 30 s resync, for the reason given above; other ingresses, whose names
are disjoint from this one's and whose `Apply` would publish what a failed one left.

## Runs

`tlc -config X.cfg M` with the module and file `PROJECT.json` gives. Deadlock is not
checked, because a quiet system stops. Every kind of environment event has a
budget (`Max...` in the `.cfg`), which keeps versions and uids finite. The proofs
do not depend on it.

| Run | Instance | Shows |
|---|---|---|
| `IC_recreate` | 1 cluster; 1 edit, 1 delete, 2 creates, fault, timeout, restart | `TypeOK`, `NoLostEdit`, and `FinalizerCoversClusters`, `DeletionSeesAll` (module `MCIngressDeletion`) and `QuietIsConverged` across incarnations |
| `IC_global` | 2 clusters, global ingress; 1 delete, flip, fault | `OneAllocator`, `OrphansKept`, `IPNeverChanges`, `ClusterAnnotationKept`, `QuietIsConverged` |
| `IC_converge` | 1 cluster, selectors that match, do not match or are broken; 1 edit, 1 delete, address change, fault, timeout | `Convergence`, `DeletionFinishes`, and the inductive invariant `IInv` |
| `IC_converge_clusters` | 2 clusters, global ingress or a plain one for one cluster; flip, fault, restart | `Convergence` |
| `UID_events` | 1 cluster; up to 3 of heartbeat or flip, foreign write, fault, restart | `TypeOK`, the inductive invariant `UidInv`, `RestIsSettled` and `ConfigMapsFollow` |
| `UID_settle` | 2 clusters; no event | `UidStable`, `Settles` |
| `DNS_converge` | 3 clusters, 2 regions, a hostname; 3 annotations, 1 delete | `TypeOK`, the inductive invariant `DnsInv`, `ZoneFileSpec`, `AddressesServed`, `DeletedIsRemoved` |
| `DNS_faults` | 3 clusters, two of them in one zone, 2 regions; 2 annotations, failed read, fault, restart | `CnameAlone`, `Locality`, `EnsuredIsThere` |
| `DLV_deliver` | 2 keys, an informer and the handler, channels of 1, 5 deliveries, 2 of them after failures | the inductive invariant `DelivererInv`, `DelivererSpec`, `JamIsForever`, `Delivered` |

Two clusters are enough for what the properties compare: a first cluster and
another one, a master and a follower, an operation that fails and one that goes
on. The DNS runs need a third, for a neighbour in the region and one outside it. The neighbours
share a zone that gives its name to only one of them (`dns.go` 371). `DNS_faults` has no
deletion: to the worker it is a list without addresses, which the second annotation has. One
event of a kind is enough to make one handler stale; two creates are needed to
have a second incarnation under the same name. Channels of one place and five
deliveries suffice to fill both and block both goroutines. Where a run has one cluster, the property
concerns a single cluster and the events that matter multiply the states.
Clusters are permuted (symmetry) only in `IC_global`, a safety run in which no manifest
names one.

`OneAllocator` speaks of behaviours without a flip: with one the code's own comment
(823-826) announces a second first cluster. It also speaks of one incarnation
(`OneIncarnation`), since an orphaning deletion leaves a cluster ingress with its own IP to
the next. So does `OrphansKept`: a delete that outlived its call can hit an ingress of a
later one. It leaves out clusters that a selector may exclude, where the ingress goes for
another reason. `DeletionFinishes` is checked without flips, because a deletion waits for a
cluster that is not ready.

`QuietIsConverged` and `RestIsSettled` are the safety half of `Convergence` and
`ConfigMapsFollow`: when nothing is queued, watched or under way, nothing is left to do. They
hold in every state, so they say of each early return, lost answer and dropped event that
something still remembers the work, and they need no fairness. `AwaitsIP` is the one way to stop
early: the other clusters wait for the first one's IP (833). A global ingress whose first cluster
has written the IP annotation never becomes equivalent to the federated one, because 905 compares
with the base and not with the merged object; the controller then repeats an update without effect
and does not go quiet.

### Where code and documentation disagree

These runs end with a counterexample to what a comment says.

| Run | Property | What happens |
|---|---|---|
| `IC_orphaned` | `DeletionComplete` (979) | the stores do not show a cluster ingress that was just created, so deletion takes it for gone |
| `UID_split` | `SingleUid` (614) | the lock does not refresh the store; two clusters elect themselves |
| `DNS_stale` | `OthersRemoved` (`dns.go` 333) | a name had several addresses and one remains: `findRrset` finds that one among the listed records, and the others are never removed |

Two more behaviours of the code shape the statements of properties. The delete by name
at 987 can meet an ingress created in between (`DeleteByName`). The change of 594 to an
object of the informer's store makes a failed update look done, so a foreign UID stays in
the ConfigMap; `ConfigMapsFollow` and `RestIsSettled` are therefore stated for behaviours
without failed requests. `CnameAlone` and `AddressesServed` have similar premises: an error of `Get` is
taken for an empty list (`rrsets.go` 66-69), and an error of `ensureDNSRecords` is dropped
(`dns.go` 205) with nothing to bring the ingress back.

### Fairness

The fair specifications assume weak fairness of each goroutine of the controller
(handlers, informers, updater operations): they block only on requests that
return and on a lock that is released by `defer`. They also assume that each
cluster's own ingress controller reports its IP and creates its ConfigMap, that the DNS
worker goes on and an ended process is started again, and for the deliverer that its
goroutines run, time passes and a handler returns unless it blocks in a delivery of
its own. Nothing is assumed of users, faults, timeouts, restarts and cluster health, nor of the order
in which a deliverer hands out keys. Since budgets are finite, `<>[]` properties
speak of the time after the last outside event.

`Settles` is checked without outside events. It does not hold with a heartbeat: an
election whose `Update` conflicts with it is not delivered again (576), in spite of
the message at 672, and waits for the next change of the cluster or its ConfigMap.
A ConfigMap can also be emptied for a while, when a handler that read the cluster
before its annotation appeared finds the cluster itself as master (661).
`Convergence` asks for the LB status annotation and not for the status itself,
which is copied while there is none (869) and not refreshed.

## Proofs

`tlapm M.tla` checks the proofs of each of the eight `...Proofs` modules. The assumptions
are those named in the modules: budgets are natural numbers, `Contents` are well-formed
manifests and `None` is neither an ingress, a cluster nor the type "global"; the annotations (`Reports`) are well-formed, a lookup
that succeeds has an address, and no name ends in its zone twice; channels have room for
one item at least and delays do not exceed the maximal back-off. Sets of clusters, keys,
specs and addresses are arbitrary, also infinite.

`IngressControllerProofs`:

* `EditsAreKept`, `FinalizerCovers`, `RecordedIPStays`, `TypeCorrect` from `Invariance`.
* Neither `NoLostEdit` nor `FinalizerCoversClusters` is inductive: both depend on
  what the handler's stale copy may contain. `IInv` adds that a copy with the current
  version is the current object (`VersionsAgree`), what the handler knows of `base`
  at each point (`HandlerKnows`), and that the delete finalizer, once seen, stays and
  covers every cluster ingress stored, cached, watched or about to be written
  (`FinalizersStay`).
* `GoodStep` describes what any step may do: the federated ingress is left alone, or
  gets the next version with uid, delete finalizer and IP kept, or is removed, or is
  new with a fresh uid; copies come from copies or the API server; operations
  carry covered objects. One lemma per action shows that it is a good step, and
  `GoodStepKeepsIInv` that good steps keep `IInv`.

`ClusterIngressProofs` builds on `IInv` and proves `ClusterAnnotationStays`. The property is
a statement about steps, and what makes it true lies further back: the update was made from a
store, perhaps long ago and by a call that has returned since. `ClusterInv` says that a version in
a store or on a watch is the one on the cluster's API server or an older one, and that an update
under way whose resource version is still the current one carries an IP annotation if the object
has one. `KeepingStep` plays the part of `GoodStep`; the two actions that matter are `QueueUpdate`
(`Merge` keeps the annotation of the version it was made from) and the success of an operation
(`ResultKeeps`).

`QuiescenceProofs` proves `QuietMeansConverged` and `DeletionSeesStores`. `StoreInv` (`StoresFollow`)
says that a store with nothing on its watch shows the API server's object, and that otherwise the
current version is still on the watch; no watch is open on a cluster that is not synced, without
which the list of a new informer would not restore it. `DeletionSeesAll` is about `IngressDeletion`, whose
history variable `clear` holds, from the read of the stores to the `Update`, the clusters that
had caught up at the read: synced, no event on its way and no late create either. `HistoryIsSpec` says that
it restricts nothing. `ReadStep` shows with `StoreInv` that these clusters have no ingress when the
read finds none, and `EmptyStays` that nothing gives them one before the `Update`, since
creates come from the handler itself or from a call that has ended before (`ClearInv`); `RemovalStep` shows that
no other step ends a cascading deletion. The same statement about the stores as they are at the `Update`
does not hold: a store that lagged at the read may have caught up by then.

For `QuietIsConverged` one has to know what a reconciliation has
established when it ends without an operation. `PassInv` (`PassHolds`) says it half-way: as long as
nothing has been delivered since it began, `base` is the stored ingress and the clusters
visited so far match it (`LoopKnows`). Every other way to return delivers the key again, and a delivery
makes the premise false; there is one lemma for each action that it does so.

`OneIncarnationProofs` proves `AtMostOneAllocator` and `OrphansAreKept`, in which stale data matters
most: a create may be decided on one version of the ingress, be sent when there is another, and
arrive after its call and even the process have ended. `OrphanInv` says that no copy of the federated
ingress and no delete under way would cascade unless the ingress itself does. `AllocatorInv` says that there
is one cluster that every annotation of every copy, stored ingress and operation agrees on as the first one,
or none yet. The existential makes one choice serve for all of them: it is made when the first
cluster is elected, when no other annotation exists yet, and `BudgetInv` adds that nothing at all exists
before the first creation. `FedDetail`, `OpsDetail` and `ClusterDetail` summarise what a step writes,
as `GoodStep` does for `IInv`.

`UidElectionProofs` has the same shape as `IngressControllerProofs`: `RecordedUidStays` and `TypeCorrect` from
`UidInv`, which says that a copy of a cluster object with the current resource
version is that object, so that the check of `Clusters().Update` protects an
annotation that the handler has not seen.

`UidRestProofs` proves `RestMeansSettled`. The difficulty is that the store is not what the API
server sent: 594 changes the object in place, for the store and for whoever holds it. So
`StoreView` compares versions only, `TaskView` says that the object a handler holds is the store's
(and then equal to it) or an older one, and `Followed` that a difference between store and cluster is being sent
by a handler at its update, and that a difference between store and annotation is queued or in the
hands of a handler that has read the annotation of the store. A handler that read the cluster
before the annotation appeared is not such a handler; the informer's restart has queued the cluster
again by then.

`DnsControllerProofs`: `DnsInv` describes `Apply` half-way. What is not left to add is in the
draft (`ApplyAdds`); as long as no list has failed, the name has exactly what is left to
remove, or else what has been added so far; and while nothing at all has failed, the draft
differs from the public zone at that name only (`ApplyReplaces`). From it follow
`EnsuredIsThereHolds`, `CnameAloneHolds`, and `ZoneFileRefinement`: if no failures are
allowed for (`FaultFree`), `PublishZone` is a step of `ZoneFile` and every other step
stutters. The last fails with failures, because an `Apply` publishes what an earlier one
left behind. `TypeCorrect` adds the types of the variables that `DnsInv` does not mention
(`RestOK`). `LocalityHolds` needs `DnsInv` to know that what `Apply` adds is wanted at the name
being ensured, and `WantedExplained` that wanted records are explained by the cluster visited.
`Locality` explains a record by some cluster that has its name. Clusters with the same first zone
and different zone lists share a name, and the one visited last decides what it has.

`DelayingDelivererProofs`: `DelivererInv` says that what `run` or the target channel holds is
due. `DelivererRefinement` shows for each action that `Pending` changes as `Deliverer`
allows; `JamIsForeverHolds` that no action leaves `Jammed`.

Only model-checked is liveness (`Convergence`, `DeletionFinishes`, `Settles`, `ConfigMapsFollow`,
`AddressesServed`, `DeletedIsRemoved`, `Delivered`), which is out of the prover's reach because it
rests on fairness. The inductive invariants that are defined in proof modules (`StoreInv`, `PassInv`, `ClearInv`, `IncarnationInv`,
`RestInv`) are not properties of a run; TLC confirmed them on the instances of the runs
before they were proved.

## Not modelled

* Flags and process start (`cmd`, `options`), the parsing of the provider's configuration,
  event recording: sequential set-up without state that the properties are about.
* HTTP requests and URLs of the Dynect client, of which only the results are modelled;
  `List`, `Upsert`, `GetAllRecordList` and the zone operations that return
  "OperationNotSupported", which the controller does not call; the stubs, which are
  test doubles.
* Stopping: the program runs with `wait.NeverStop` and ends by being killed.
* Clusters joining and leaving the federation, and global ingresses with selectors. The
  first changes the sets that every loop runs over; the second has the hazard noted in
  `PROJECT.json` for line 833.
* The two controllers as one state machine. They meet in the annotation and the status
  only, which `ReportStatus` writes in any order the ingress controller could; the product
  of both state spaces is out of TLC's reach.
