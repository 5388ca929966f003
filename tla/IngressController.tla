------------------------- MODULE IngressController -------------------------
(***************************************************************************)
(* The reconciliation of one federated ingress                             *)
(* (pkg/controller/ingress/ingress_controller.go, reconcileIngress and     *)
(* delete, with the vendored deletion helper, updater and federated        *)
(* informer they call).                                                    *)
(*                                                                         *)
(* The federation API server holds the federated ingress, each cluster's   *)
(* API server holds that cluster's ingress.  The controller reads both     *)
(* through informer caches that lag behind, runs one reconciliation at a   *)
(* time, and writes with optimistic concurrency (updates carry a resource  *)
(* version, creates fail on an existing object, deletes name the object    *)
(* only).  Users, the clusters' own ingress controllers, cluster health    *)
(* and request failures are the environment; Budget bounds how often each  *)
(* of its events happens.                                                  *)
(***************************************************************************)
EXTENDS Naturals

CONSTANTS
  Clusters,   \* members of the federation
  Specs,      \* values of ingress.Spec
  Addrs,      \* load balancer addresses a cluster may report
  Contents,   \* what users write: [spec, type, selector] records
  None,       \* absent annotation, field or object
  Malformed,  \* a cluster selector annotation that does not parse
  Budget      \* Budget[e]: how many times environment event e may happen

\* The environment events, each bounded by Budget.
Events == {"edit", "delete", "create", "lb", "flip", "fault", "timeout", "crash"}

\* A selector annotation is absent (all clusters), a set of clusters, or broken.
Selectors == {None, Malformed} \cup SUBSET Clusters

ASSUME BudgetAssumption == Budget \in [Events -> Nat]

ASSUME ContentsAssumption ==
  Contents \subseteq [spec: Specs, type: {None, "global"}, selector: Selectors]

Finalizers == {"delete", "orphan"}

\* The annotations the controller reads or writes, by constants ll. 52-75:
\* type, lbstat, ip (staticIPNameKeyWritable), static (staticIPNameKeyReadonly),
\* first; and the cluster selector.  A static IP is named after the cluster
\* whose ingress controller allocated it.
LBStats == [Clusters -> Addrs \cup {None}]
Annotations == [type: {None, "global"}, selector: Selectors,
                first: Clusters \cup {None}, ip: Clusters \cup {None},
                static: Clusters \cup {None}, lbstat: LBStats \cup {None}]

FedIngresses == [uid: Nat, deleting: BOOLEAN, finalizers: SUBSET Finalizers,
                 spec: Specs, ann: Annotations, status: Addrs \cup {None}]

\* owner is a history field: the uid of the federated ingress it was made for.
ClusterIngresses == [owner: Nat, spec: Specs, ann: Annotations,
                     lb: Addrs \cup {None}]

ASSUME NoneAssumption == None \notin FedIngresses \cup ClusterIngresses
ASSUME NoneIsNoCluster == None \notin Clusters
ASSUME NoneIsNoType == None # "global"

\* A stored object with its resource version; obj = None once it is removed.
FedVersions == [rv: Nat, obj: FedIngresses \cup {None}]
ClusterVersions == [rv: Nat, obj: ClusterIngresses \cup {None}]
NoVersion == [rv |-> 0, obj |-> None]

\* Operations given to the federated updater; rv is used by updates only.
Operations ==
  [kind: {"add", "update"}, cluster: Clusters, rv: Nat, obj: ClusterIngresses]
    \cup [kind: {"delete"}, cluster: Clusters, rv: Nat, obj: {None}]

VARIABLES
  fed,            \* the federated ingress on the federation API server
  fedWatch,       \* its versions the informer has not delivered yet
  fedCache,       \* ingressInformerStore
  cl,             \* cl[c]: the ingress on cluster c's API server
  clWatch,        \* clWatch[c]: versions c's target informer still has to deliver
  clCache,        \* clCache[c]: the target informer's store
  ready,          \* clusters whose Ready condition is true in the cluster store
  synced,         \* clusters whose target informer exists and has listed
  queued,         \* the ingress is in ingressDeliverer
  clusterQueued,  \* some cluster is in clusterDeliverer
  pc,             \* where the ingressDeliverer handler is
  base,           \* handler: baseIngress and its resource version
  todo,           \* handler: clusters still to visit (or the unready ones)
  lbStat,         \* handler: globalLbStat
  ops,            \* handler: operations, then those not yet finished
  detached,       \* operations of an Update call that has already returned
  budget,         \* environment events left
  intent          \* history: the content of the last user write

apiVars == <<fed, fedWatch, cl, clWatch>>
cacheVars == <<fedCache, clCache, ready, synced>>
handlerVars == <<pc, base, todo, lbStat, ops>>
vars == <<apiVars, cacheVars, handlerVars, queued, clusterQueued, detached,
          budget, intent>>

PCs == {"idle", "finalize", "list", "visit", "wait", "delete", "gather", "remove",
        "apiDelete"}

NoLB == [c \in Clusters |-> None]

\* Every variable has its type.
TypeOK ==
  /\ fed \in FedVersions /\ fedCache \in FedVersions /\ fedWatch \subseteq FedVersions
  /\ cl \in [Clusters -> ClusterVersions]
  /\ clCache \in [Clusters -> ClusterVersions]
  /\ clWatch \in [Clusters -> SUBSET ClusterVersions]
  /\ ready \subseteq Clusters /\ synced \subseteq Clusters
  /\ queued \in BOOLEAN /\ clusterQueued \in BOOLEAN
  /\ pc \in PCs /\ base \in FedVersions /\ todo \subseteq Clusters
  /\ lbStat \in LBStats /\ ops \subseteq Operations /\ detached \subseteq Operations
  /\ budget \in [Events -> Nat] /\ intent \in Contents

-----------------------------------------------------------------------------
(* The API servers *)

\* The annotations of a freshly written user manifest.
UserAnn(content) ==
  [type |-> content.type, selector |-> content.selector, first |-> None,
   ip |-> None, static |-> None, lbstat |-> None]

NewFed(content, uid) ==
  [uid |-> uid, deleting |-> FALSE, finalizers |-> {}, spec |-> content.spec,
   ann |-> UserAnn(content), status |-> None]

\* A deleted object stays until its last finalizer is gone.
Stored(o) == IF o.deleting /\ o.finalizers = {} THEN None ELSE o

\* Store o (or None) as the federated ingress; a write that changes nothing
\* keeps the resource version and sends no event.
FedWrite(o) ==
  IF o = fed.obj THEN UNCHANGED <<fed, fedWatch>>
  ELSE /\ fed' = [rv |-> fed.rv + 1, obj |-> o]
       /\ fedWatch' = fedWatch \cup {[rv |-> fed.rv + 1, obj |-> o]}

\* The same for cluster c; only a running informer has a watch open.
ClusterWrite(c, o) ==
  IF o = cl[c].obj THEN UNCHANGED <<cl, clWatch>>
  ELSE /\ cl' = [cl EXCEPT ![c] = [rv |-> cl[c].rv + 1, obj |-> o]]
       /\ clWatch' = [clWatch EXCEPT ![c] = IF c \in synced
                        THEN @ \cup {[rv |-> cl[c].rv + 1, obj |-> o]} ELSE {}]

Spend(e) ==
  /\ budget[e] > 0
  /\ budget' = [budget EXCEPT ![e] = @ - 1]

\* The handler's Update of the federated ingress to o succeeds: base is current.
UpdateOK(o) ==
  /\ fed.rv = base.rv
  /\ FedWrite(Stored(o))
  /\ UNCHANGED budget

\* It returns an error: a conflict, a request that failed, or one that was
\* applied but whose answer was lost.
UpdateFails(o) ==
  \/ fed.rv # base.rv /\ UNCHANGED <<fed, fedWatch, budget>>
  \/ Spend("fault") /\ UNCHANGED <<fed, fedWatch>>
  \/ Spend("fault") /\ fed.rv = base.rv /\ FedWrite(Stored(o))

-----------------------------------------------------------------------------
(* reconcileIngress *)

\* isSynced, ll. 427-440: every ready cluster has a listed target informer.  The
\* same checks of the ConfigMap informer, ll. 441-453, are in UidElection.
isSynced == synced = ready

\* The handler returns; deliver: the key is put back in the deliverer.
Return(deliver) ==
  /\ pc' = "idle" /\ base' = NoVersion /\ todo' = {} /\ lbStat' = NoLB /\ ops' = {}
  /\ queued' = (queued \/ deliver)

\* Delivery of the key while the stores are synced (otherwise the key is
\* redelivered).  A second delivery may already sit in the target channel.
Start ==
  /\ pc = "idle" /\ queued /\ isSynced
  /\ queued' \in BOOLEAN
  /\ IF fedCache.obj = None
     THEN UNCHANGED <<pc, base>>
     ELSE /\ base' = fedCache
          /\ pc' = IF fedCache.obj.deleting THEN "delete" ELSE "finalize"
  /\ UNCHANGED <<apiVars, cacheVars, todo, lbStat, ops, clusterQueued,
                 detached, budget, intent>>

\* Mutant: the finalizers are not added before the clusters are visited.
EnsureFinalizersSkipped ==
  /\ pc = "finalize" /\ pc' = "list"
  /\ UNCHANGED <<apiVars, cacheVars, base, todo, lbStat, ops, queued, clusterQueued,
                 detached, budget, intent>>

\* deletionHelper.EnsureFinalizers: an Update unless both are there already.
EnsureFinalizers ==
  LET o == [base.obj EXCEPT !.finalizers = Finalizers] IN
  /\ pc = "finalize"
  /\ \/ /\ base.obj.finalizers = Finalizers
        /\ pc' = "list"
        /\ UNCHANGED <<fed, fedWatch, budget, base, todo, lbStat, ops, queued>>
     \/ /\ base.obj.finalizers # Finalizers
        /\ UpdateOK(o)
        /\ pc' = "list" /\ base' = fed'
        /\ UNCHANGED <<todo, lbStat, ops, queued>>
     \/ /\ base.obj.finalizers # Finalizers
        /\ UpdateFails(o)
        /\ Return(TRUE)
  /\ UNCHANGED <<cl, clWatch, cacheVars, clusterQueued, detached, intent>>

\* GetReadyClusters, l. 761.
GetReadyClusters ==
  /\ pc = "list"
  /\ pc' = "visit" /\ todo' = ready
  /\ UNCHANGED <<apiVars, cacheVars, base, lbStat, ops, queued, clusterQueued,
                 detached, budget, intent>>

\* GetTargetStore().GetByKey: not found while c has no listed informer.
Cached(c) == IF c \in synced THEN clCache[c] ELSE NoVersion

\* clusterselector.SendToCluster for a well-formed selector.
Send(c, ann) == IF ann.selector = None THEN TRUE ELSE c \in ann.selector

\* One iteration of the loop over clusters is under way for c.
Visiting(c) == pc = "visit" /\ c \in todo

Selected(c) == base.obj.ann.selector # Malformed /\ Send(c, base.obj.ann)

\* The iteration for c ends with newOps queued.
Continue(c, newOps) ==
  /\ todo' = todo \ {c}
  /\ ops' = ops \cup newOps
  /\ UNCHANGED <<apiVars, cacheVars, pc, base, queued, clusterQueued, detached,
                 budget, intent>>

\* Mutant: the update is repeated without the resource version after a conflict.
UpdateAndReturnOverwrites(o) ==
  /\ fed.obj # None /\ FedWrite(Stored(o)) /\ UNCHANGED budget
  /\ Return(TRUE)
  /\ UNCHANGED <<cl, clWatch, cacheVars, clusterQueued, detached, intent>>

\* Mutant: the key is not delivered again after an error.
UpdateAndReturnNoRetry(o) ==
  /\ \/ UpdateOK(o) /\ Return(TRUE)
     \/ UpdateFails(o) /\ Return(FALSE)
  /\ UNCHANGED <<cl, clWatch, cacheVars, clusterQueued, detached, intent>>

\* updateAnnotationOnIngress and the status update, ll. 692-708 and 879-888:
\* the handler writes o and returns; the key is delivered again either way.
UpdateAndReturn(o) ==
  /\ UpdateOK(o) \/ UpdateFails(o)
  /\ Return(TRUE)
  /\ UNCHANGED <<cl, clWatch, cacheVars, clusterQueued, detached, intent>>

\* A malformed selector ends the reconciliation; the key is not redelivered.
SelectorError(c) ==
  /\ Visiting(c) /\ base.obj.ann.selector = Malformed
  /\ Return(FALSE)
  /\ UNCHANGED <<apiVars, cacheVars, clusterQueued, detached, budget, intent>>

HaveFirstCluster ==
  base.obj.ann.first # None /\ base.obj.ann.first \in ready

\* Mutant: with a new first cluster the IP is allocated anew.
ElectFirstClusterAnew(c) ==
  /\ Visiting(c) /\ Selected(c) /\ Cached(c).obj = None
  /\ ~HaveFirstCluster
  /\ UpdateAndReturn([base.obj EXCEPT !.ann.first = c, !.ann.ip = None])

\* No ingress in c and no available first cluster: c becomes the first, ll. 828-832.
ElectFirstCluster(c) ==
  /\ Visiting(c) /\ Selected(c) /\ Cached(c).obj = None
  /\ ~HaveFirstCluster
  /\ UpdateAndReturn([base.obj EXCEPT !.ann.first = c])

\* Mutant: the first cluster need not have allocated the IP yet.
MayCreateAnywhere(c) == TRUE

\* Whether the missing ingress of c may be created now, l. 833.
MayCreate(c) ==
  \/ base.obj.ann.ip # None
  \/ base.obj.ann.type = None
  \/ base.obj.ann.first = c

\* Mutant: the spec of the new ingress is not copied.
QueueCreateWithoutSpec(c) ==
  /\ Visiting(c) /\ Selected(c) /\ Cached(c).obj = None
  /\ HaveFirstCluster
  /\ Continue(c, {[kind |-> "add", cluster |-> c, rv |-> 0,
                   obj |-> [owner |-> base.obj.uid, spec |-> None,
                            ann |-> base.obj.ann, lb |-> None]]})
  /\ UNCHANGED lbStat

QueueCreate(c) ==
  /\ Visiting(c) /\ Selected(c) /\ Cached(c).obj = None
  /\ HaveFirstCluster
  /\ Continue(c, IF MayCreate(c)
                 THEN {[kind |-> "add", cluster |-> c, rv |-> 0,
                        obj |-> [owner |-> base.obj.uid, spec |-> base.obj.spec,
                                 ann |-> base.obj.ann, lb |-> None]]}
                 ELSE {})
  /\ UNCHANGED lbStat

DeleteOp(c) == [kind |-> "delete", cluster |-> c, rv |-> 0, obj |-> None]

\* The selector does not match c: its ingress, if it has one, is removed.
QueueRemove(c) ==
  /\ Visiting(c) /\ base.obj.ann.selector # Malformed /\ ~Selected(c)
  /\ Continue(c, IF Cached(c).obj # None THEN {DeleteOp(c)} ELSE {})
  /\ UNCHANGED lbStat

MustTransferIP(c) == base.obj.ann.ip = None /\ Cached(c).obj.ann.static # None

MustTransferStatus(c) == base.obj.status = None /\ Cached(c).obj.lb # None

\* The IP name a cluster allocated is recorded on the federated ingress.
TransferIP(c) ==
  /\ Visiting(c) /\ Selected(c) /\ Cached(c).obj # None
  /\ MustTransferIP(c)
  /\ UpdateAndReturn([base.obj EXCEPT !.ann.ip = Cached(c).obj.ann.static])

\* The first load balancer status seen is copied to the federated ingress.
TransferStatus(c) ==
  /\ Visiting(c) /\ Selected(c) /\ Cached(c).obj # None
  /\ ~MustTransferIP(c) /\ MustTransferStatus(c)
  /\ UpdateAndReturn([base.obj EXCEPT !.status = Cached(c).obj.lb])

Over(b, a) == IF b # None THEN b ELSE a

\* Mutant: the annotations of the federated ingress replace the cluster's.
MergeReplaces(b, a) == b

\* Annotations of the federated ingress laid over those of the cluster's, ll. 920-933.
Merge(b, a) ==
  [type |-> Over(b.type, a.type), selector |-> Over(b.selector, a.selector),
   first |-> Over(b.first, a.first), ip |-> Over(b.ip, a.ip),
   static |-> Over(b.static, a.static), lbstat |-> Over(b.lbstat, a.lbstat)]

\* ObjectMetaAndSpecEquivalent.
Equivalent(b, o) == b.ann = o.ann /\ b.spec = o.spec

\* Collect c's load balancer status and bring its ingress up to date, ll. 893-943.
QueueUpdate(c) ==
  LET v == Cached(c)
      want == [v.obj EXCEPT !.spec = base.obj.spec,
                            !.ann = Merge(base.obj.ann, v.obj.ann)]
  IN /\ Visiting(c) /\ Selected(c) /\ v.obj # None
     /\ ~MustTransferIP(c) /\ ~MustTransferStatus(c)
     /\ lbStat' = [lbStat EXCEPT ![c] = v.obj.lb]
     /\ Continue(c, IF Equivalent(base.obj, v.obj) THEN {}
                    ELSE {[kind |-> "update", cluster |-> c, rv |-> v.rv, obj |-> want]})

Visit(c) ==
  \/ SelectorError(c) \/ ElectFirstCluster(c) \/ QueueCreate(c) \/ QueueRemove(c)
  \/ TransferIP(c) \/ TransferStatus(c) \/ QueueUpdate(c)

\* After the loop: the LB status annotation is out of date, ll. 947-961.
PublishLBStatus ==
  /\ pc = "visit" /\ todo = {}
  /\ base.obj.ann.lbstat # lbStat
  /\ UpdateAndReturn([base.obj EXCEPT !.ann.lbstat = lbStat])

\* Nothing to propagate, or the operations are handed to the updater, ll. 963-968.
Dispatch ==
  /\ pc = "visit" /\ todo = {}
  /\ base.obj.ann.lbstat = lbStat
  /\ IF ops = {} THEN Return(FALSE)
     ELSE pc' = "wait" /\ UNCHANGED <<base, todo, lbStat, ops, queued>>
  /\ UNCHANGED <<apiVars, cacheVars, clusterQueued, detached, budget, intent>>

-----------------------------------------------------------------------------
(* federatedUpdater.Update: one goroutine per operation *)

Succeeds(op) ==
  \/ op.kind = "add" /\ cl[op.cluster].obj = None
  \/ op.kind = "update" /\ cl[op.cluster].obj # None /\ cl[op.cluster].rv = op.rv
  \/ op.kind = "delete"

\* What the API server of the cluster stores; an update leaves the status alone.
Result(op) ==
  IF op.kind = "update"
  THEN [op.obj EXCEPT !.lb = cl[op.cluster].obj.lb]
  ELSE op.obj

\* One operation succeeds; after the last the handler redelivers and returns.
OpSucceeds(op) ==
  /\ pc = "wait" /\ op \in ops /\ Succeeds(op)
  /\ ClusterWrite(op.cluster, Result(op))
  /\ IF ops = {op} THEN Return(TRUE)
     ELSE ops' = ops \ {op} /\ UNCHANGED <<pc, base, todo, lbStat, queued>>
  /\ UNCHANGED <<fed, fedWatch, cacheVars, clusterQueued, detached, budget, intent>>

\* The first error ends Update; the other goroutines go on unobserved.  An
\* operation fails on the API server, for want of a ready cluster, or on the way.
OpFails(op) ==
  /\ pc = "wait" /\ op \in ops
  /\ \/ (~Succeeds(op) \/ op.cluster \notin ready) /\ UNCHANGED <<cl, clWatch, budget>>
     \/ Spend("fault") /\ UNCHANGED <<cl, clWatch>>
     \/ Spend("fault") /\ Succeeds(op) /\ ClusterWrite(op.cluster, Result(op))
  /\ detached' = detached \cup (ops \ {op})
  /\ Return(TRUE)
  /\ UNCHANGED <<fed, fedWatch, cacheVars, clusterQueued, intent>>

\* Mutant: a timeout is taken for a success of an empty reconciliation.
UpdateTimeoutNoRetry ==
  /\ pc = "wait" /\ Spend("timeout")
  /\ detached' = detached \cup ops
  /\ Return(FALSE)
  /\ UNCHANGED <<apiVars, cacheVars, clusterQueued, intent>>

\* Update returns after updateTimeout with operations still under way.
UpdateTimeout ==
  /\ pc = "wait" /\ Spend("timeout")
  /\ detached' = detached \cup ops
  /\ Return(TRUE)
  /\ UNCHANGED <<apiVars, cacheVars, clusterQueued, intent>>

\* An operation nobody waits for any more is applied or fails.
DetachedOp(op) ==
  /\ op \in detached
  /\ detached' = detached \ {op}
  /\ \/ Succeeds(op) /\ ClusterWrite(op.cluster, Result(op))
     \/ UNCHANGED <<cl, clWatch>>
  /\ UNCHANGED <<fed, fedWatch, cacheVars, handlerVars, queued, clusterQueued,
                 budget, intent>>

-----------------------------------------------------------------------------
(* delete, ll. 980-997, and HandleObjectInUnderlyingClusters *)

\* The finalizers fs go; Delete follows a success, redelivery an error.
RemoveFinalizers(fs) ==
  LET o == [base.obj EXCEPT !.finalizers = @ \ fs] IN
  \/ /\ UpdateOK(o)
     /\ pc' = "apiDelete"
     /\ UNCHANGED <<base, todo, lbStat, ops, queued>>
  \/ UpdateFails(o) /\ Return(TRUE)

\* Mutant: the orphan finalizer is not looked at.
HandleDeletionIgnoresOrphan ==
  /\ pc = "delete"
  /\ IF "delete" \in base.obj.finalizers
     THEN pc' = "gather" /\ todo' = Clusters \ ready
     ELSE pc' = "apiDelete" /\ UNCHANGED todo
  /\ UNCHANGED <<apiVars, cacheVars, base, lbStat, ops, queued, clusterQueued,
                 detached, budget, intent>>

\* Without the delete finalizer there is nothing to do in the clusters, with
\* the orphan finalizer both are dropped; otherwise GetUnreadyClusters.
HandleDeletion ==
  /\ pc = "delete"
  /\ \/ /\ "delete" \notin base.obj.finalizers
        /\ pc' = "apiDelete"
        /\ UNCHANGED <<fed, fedWatch, budget, base, todo, lbStat, ops, queued>>
     \/ /\ Finalizers \subseteq base.obj.finalizers
        /\ RemoveFinalizers(Finalizers)
     \/ /\ "delete" \in base.obj.finalizers /\ "orphan" \notin base.obj.finalizers
        /\ pc' = "gather" /\ todo' = Clusters \ ready
        /\ UNCHANGED <<fed, fedWatch, budget, base, lbStat, ops, queued>>
  /\ UNCHANGED <<cl, clWatch, cacheVars, clusterQueued, detached, intent>>

\* Mutant: an error of GetFromAllClusters is dropped, so that nothing is found.
DeleteFromClustersUnread ==
  /\ pc = "gather" /\ pc' = "remove"
  /\ UNCHANGED <<apiVars, cacheVars, base, todo, lbStat, ops, queued, clusterQueued,
                 detached, budget, intent>>

\* GetFromAllClusters: delete what the stores show and come back later, also when
\* a cluster was unready; once they show nothing, go on to remove the finalizer.
DeleteFromClusters ==
  LET found == {c \in synced : clCache[c].obj # None} IN
  /\ pc = "gather"
  /\ \/ /\ found # {}
        /\ ops' = {DeleteOp(c) : c \in found} /\ pc' = "wait"
        /\ UNCHANGED <<base, todo, lbStat, queued>>
     \/ /\ found = {} /\ todo # {}
        /\ Return(TRUE)
     \/ /\ found = {} /\ todo = {}
        /\ pc' = "remove"
        /\ UNCHANGED <<base, todo, lbStat, ops, queued>>
  /\ UNCHANGED <<apiVars, cacheVars, clusterQueued, detached, budget, intent>>

\* The Update of ll. 181 and 205, whatever the stores show by now.
RemoveDeleteFinalizer ==
  /\ pc = "remove"
  /\ RemoveFinalizers({"delete"})
  /\ UNCHANGED <<cl, clWatch, cacheVars, clusterQueued, detached, intent>>

\* Delete of the name, without a uid precondition; NotFound is fine, l. 987.  An
\* error, of a request that was applied or not, brings the key back.
DeleteByName ==
  LET o == IF fed.obj = None THEN None ELSE Stored([fed.obj EXCEPT !.deleting = TRUE])
  IN
  /\ pc = "apiDelete"
  /\ \/ FedWrite(o) /\ Return(FALSE) /\ UNCHANGED budget
     \/ FedWrite(o) /\ Return(TRUE) /\ Spend("fault")
     \/ UNCHANGED <<fed, fedWatch>> /\ Return(TRUE) /\ Spend("fault")
  /\ UNCHANGED <<cl, clWatch, cacheVars, clusterQueued, detached, intent>>

-----------------------------------------------------------------------------
(* Informers and cluster life cycle *)

Oldest(watch, v) == v \in watch /\ \A w \in watch : v.rv <= w.rv

\* An event of the federated ingress: the store changes, the key is delivered.
DeliverFed ==
  /\ \E v \in fedWatch : /\ Oldest(fedWatch, v)
                         /\ fedCache' = v /\ fedWatch' = fedWatch \ {v}
  /\ queued' = TRUE
  /\ UNCHANGED <<fed, cl, clWatch, clCache, ready, synced, handlerVars,
                 clusterQueued, detached, budget, intent>>

\* The same for the target informer of cluster c.
DeliverCluster(c) ==
  /\ \E v \in clWatch[c] : /\ Oldest(clWatch[c], v)
                           /\ clCache' = [clCache EXCEPT ![c] = v]
                           /\ clWatch' = [clWatch EXCEPT ![c] = @ \ {v}]
  /\ queued' = TRUE
  /\ UNCHANGED <<fed, fedWatch, cl, fedCache, ready, synced, handlerVars,
                 clusterQueued, detached, budget, intent>>

\* A target informer lists; only an object that exists makes an event.
SyncInformer(c) ==
  /\ c \in ready \ synced
  /\ synced' = synced \cup {c}
  /\ clCache' = [clCache EXCEPT ![c] = cl[c]]
  /\ queued' = (queued \/ cl[c].obj # None)
  /\ UNCHANGED <<apiVars, fedCache, ready, handlerVars, clusterQueued, detached,
                 budget, intent>>

StopInformer(c) ==
  /\ synced' = synced \ {c}
  /\ clCache' = [clCache EXCEPT ![c] = NoVersion]
  /\ clWatch' = [clWatch EXCEPT ![c] = {}]
  /\ clusterQueued' = TRUE

\* c turns unready or ready, or a change of its spec or annotations restarts
\* its target informer (UpdateFunc of the cluster informer, ll. 198-228).
ClusterFlips(c) ==
  /\ Spend("flip")
  /\ \/ c \in ready /\ ready' \in {ready, ready \ {c}}
     \/ c \notin ready /\ ready' = ready \cup {c}
  /\ StopInformer(c)
  /\ UNCHANGED <<fed, fedWatch, cl, fedCache, handlerVars, queued, detached, intent>>

\* Mutant: a change of a cluster does not deliver the ingresses.
ReconcileOnClusterChangeForgets ==
  /\ clusterQueued
  /\ clusterQueued' = ~isSynced
  /\ UNCHANGED <<apiVars, cacheVars, handlerVars, queued, detached, budget, intent>>

\* reconcileIngressesOnClusterChange: deliver every ingress in the store, and
\* the cluster again while the stores are not synced, ll. 460-477.
ReconcileOnClusterChange ==
  /\ clusterQueued
  /\ clusterQueued' = ~isSynced
  /\ queued' = (queued \/ fedCache.obj # None)
  /\ UNCHANGED <<apiVars, cacheVars, handlerVars, detached, budget, intent>>

\* The controller process dies and starts again: stores, queues and the handler
\* are lost, requests already sent may still arrive.
Restart ==
  /\ Spend("crash")
  /\ detached' = detached \cup (IF pc = "wait" THEN ops ELSE {})
  /\ fedCache' = NoVersion
  /\ fedWatch' = IF fed.obj = None THEN {} ELSE {fed}
  /\ synced' = {} /\ clusterQueued' = TRUE /\ queued' = FALSE
  /\ clCache' = [c \in Clusters |-> NoVersion]
  /\ clWatch' = [c \in Clusters |-> {}]
  /\ pc' = "idle" /\ base' = NoVersion /\ todo' = {} /\ lbStat' = NoLB /\ ops' = {}
  /\ UNCHANGED <<fed, cl, ready, intent>>

-----------------------------------------------------------------------------
(* Users and the clusters' own ingress controllers *)

UserCreate(content) ==
  /\ fed.obj = None /\ Spend("create")
  /\ FedWrite(NewFed(content, fed.rv + 1))
  /\ intent' = content
  /\ UNCHANGED <<cl, clWatch, cacheVars, handlerVars, queued, clusterQueued, detached>>

\* A user changes spec, type and selector; other metadata stays.
UserEdit(content) ==
  /\ fed.obj # None /\ ~fed.obj.deleting /\ content # intent /\ Spend("edit")
  /\ FedWrite([fed.obj EXCEPT !.spec = content.spec, !.ann.type = content.type,
                              !.ann.selector = content.selector])
  /\ intent' = content
  /\ UNCHANGED <<cl, clWatch, cacheVars, handlerVars, queued, clusterQueued, detached>>

\* A user deletes the federated ingress, orphaning the clusters' or not.
UserDelete(orphan) ==
  /\ fed.obj # None /\ ~fed.obj.deleting /\ Spend("delete")
  /\ FedWrite(Stored([fed.obj EXCEPT !.deleting = TRUE,
                        !.finalizers = IF orphan THEN @ \cup {"orphan"}
                                       ELSE @ \ {"orphan"}]))
  /\ UNCHANGED <<cl, clWatch, cacheVars, handlerVars, queued, clusterQueued,
                 detached, intent>>

\* Cluster c's load balancer gets, changes or loses its address.
ClusterSetsLB(c, a) ==
  /\ cl[c].obj # None /\ cl[c].obj.lb # a /\ Spend("lb")
  /\ ClusterWrite(c, [cl[c].obj EXCEPT !.lb = a])
  /\ UNCHANGED <<fed, fedWatch, cacheVars, handlerVars, queued, clusterQueued,
                 detached, intent>>

\* Cluster c reports the static IP a global ingress uses: the given one, or one
\* it allocates.
StaticIP(c) == Over(cl[c].obj.ann.ip, c)

ClusterReportsIP(c) ==
  /\ cl[c].obj # None /\ cl[c].obj.ann.type = "global"
  /\ cl[c].obj.ann.static # StaticIP(c)
  /\ ClusterWrite(c, [cl[c].obj EXCEPT !.ann.static = StaticIP(c)])
  /\ UNCHANGED <<fed, fedWatch, cacheVars, handlerVars, queued, clusterQueued,
                 detached, budget, intent>>

-----------------------------------------------------------------------------
Init ==
  /\ fed = NoVersion /\ fedWatch = {} /\ fedCache = NoVersion
  /\ cl = [c \in Clusters |-> NoVersion]
  /\ clWatch = [c \in Clusters |-> {}]
  /\ clCache = [c \in Clusters |-> NoVersion]
  /\ ready = Clusters /\ synced = {}
  /\ queued = FALSE /\ clusterQueued = TRUE
  /\ pc = "idle" /\ base = NoVersion /\ todo = {} /\ lbStat = NoLB
  /\ ops = {} /\ detached = {}
  /\ budget = Budget /\ intent \in Contents

\* The ingressDeliverer goroutine, with the operations it waits for.
Handler ==
  \/ Start \/ EnsureFinalizers \/ GetReadyClusters
  \/ \E c \in Clusters : Visit(c)
  \/ PublishLBStatus \/ Dispatch
  \/ \E op \in ops : OpSucceeds(op) \/ OpFails(op)
  \/ UpdateTimeout
  \/ HandleDeletion \/ DeleteFromClusters \/ RemoveDeleteFinalizer \/ DeleteByName

Informers ==
  \/ DeliverFed \/ ReconcileOnClusterChange
  \/ \E c \in Clusters : DeliverCluster(c) \/ SyncInformer(c)

Environment ==
  \/ \E content \in Contents : UserCreate(content) \/ UserEdit(content)
  \/ \E orphan \in BOOLEAN : UserDelete(orphan)
  \/ \E c \in Clusters : \/ \E a \in Addrs \cup {None} : ClusterSetsLB(c, a)
                         \/ ClusterReportsIP(c) \/ ClusterFlips(c)
  \/ Restart

Next == Handler \/ Informers \/ (\E op \in detached : DetachedOp(op)) \/ Environment

Spec == Init /\ [][Next]_vars

\* The handler, the informers and the goroutines of the updater are never
\* starved; the clusters' ingress controllers report their IPs; nothing is
\* assumed of users, failures, timeouts or cluster health.
Fairness ==
  /\ WF_vars(Handler)
  /\ WF_vars(DeliverFed) /\ WF_vars(ReconcileOnClusterChange)
  /\ \A c \in Clusters : /\ WF_vars(DeliverCluster(c)) /\ WF_vars(SyncInformer(c))
                         /\ WF_vars(ClusterReportsIP(c))
  /\ WF_vars(\E op \in detached : DetachedOp(op))

FairSpec == Spec /\ Fairness

-----------------------------------------------------------------------------
(* Properties *)

Content(o) == [spec |-> o.spec, type |-> o.ann.type, selector |-> o.ann.selector]

\* No write of the controller (finalizers, annotations, status: ll. 692-708,
\* 750, 879) puts back a spec, type or selector that a user has replaced, however
\* stale the cached ingress it started from.
NoLostEdit == fed.obj # None => Content(fed.obj) = intent

\* "Add the required finalizers before creating a ingress in underlying
\* clusters" (l. 749): while a federated ingress exists, being deleted or not, a
\* cluster ingress made for it is covered by its delete finalizer.
FinalizerCoversClusters ==
  \A c \in Clusters :
    cl[c].obj # None /\ fed.obj # None /\ cl[c].obj.owner = fed.obj.uid
      => "delete" \in fed.obj.finalizers

\* Every copy of the federated ingress in a store, on the watch or in the handler.
FedCopies == {fedCache, base} \cup fedWatch

\* Every version of cluster c's ingress, on its API server or on the way to a store.
ClusterCopies(c) == {cl[c], clCache[c]} \cup clWatch[c]

\* o was made for an earlier ingress than f, or f has the delete finalizer.
Covered(o, f) ==
  o # None => /\ o.owner <= f.rv
              /\ (f.obj # None /\ o.owner = f.obj.uid)
                   => "delete" \in f.obj.finalizers

\* Resource versions identify content, and uids are not used again.
VersionsAgree ==
  /\ \A v \in FedCopies \cup {NoVersion} : v.rv <= fed.rv /\ (v.rv = fed.rv => v = fed)
  /\ \A v \in FedCopies \cup {fed} : v.obj # None => v.obj.uid <= v.rv

\* What the handler has established about base at each point of its code.
HandlerKnows ==
  /\ pc \in {"finalize", "list", "visit", "delete", "gather", "remove", "apiDelete"}
       => base.obj # None
  /\ pc \in {"list", "visit"} => base.obj.finalizers = Finalizers
  /\ pc \in {"delete", "gather", "remove"} => base.obj.deleting
  /\ pc \in {"gather", "remove"} => base.obj.finalizers = {"delete"}

\* The delete finalizer, once seen, stays as long as the object does, and covers
\* every cluster ingress that exists, is cached or is about to be written.
FinalizersStay ==
  /\ \A v \in FedCopies :
       (v.obj # None /\ fed.obj # None /\ v.obj.uid = fed.obj.uid
          /\ "delete" \in v.obj.finalizers) => "delete" \in fed.obj.finalizers
  /\ \A c \in Clusters : \A v \in ClusterCopies(c) : Covered(v.obj, fed)
  /\ \A op \in ops \cup detached : Covered(op.obj, fed)

\* The inductive invariant behind NoLostEdit and FinalizerCoversClusters: the
\* resource version check of the API server makes a stale base harmless
\* (updateAnnotationOnIngress, EnsureFinalizers, UpdateStatus, removeFinalizers).
IInv == TypeOK /\ VersionsAgree /\ HandlerKnows /\ NoLostEdit /\ FinalizersStay

\* One federated ingress at most has existed so far.
OneIncarnation == Budget.create <= budget.create + 1

\* At most one cluster allocates an IP for an ingress that is always global, the
\* others are made with the recorded one (ll. 66-68, 819-824), as long as no cluster
\* turns unready; an orphaning deletion leaves an IP to the next incarnation.
OneAllocator ==
  /\ OneIncarnation /\ budget.flip = Budget.flip
  /\ \A content \in Contents : content.type = "global"
  => \A c, d \in Clusters :
       /\ cl[c].obj # None /\ cl[c].obj.ann.static = c
       /\ cl[d].obj # None /\ cl[d].obj.ann.static = d
       => c = d

\* The IP name recorded on a federated ingress is never replaced (ll. 864-868).
IPNeverChanges ==
  [][(fed.obj # None /\ fed'.obj # None /\ fed'.obj.uid = fed.obj.uid
        /\ fed.obj.ann.ip # None) => fed'.obj.ann.ip = fed.obj.ann.ip]_vars

\* What a cluster's own controller wrote on its ingress, the read-only IP
\* annotation, survives the merge and update of ll. 905-943.
ClusterAnnotationKept ==
  [][\A c \in Clusters :
       (cl[c].obj # None /\ cl'[c].obj # None /\ cl[c].obj.ann.static # None)
         => cl'[c].obj.ann.static # None]_vars

\* Every manifest is for cluster c.
AlwaysSent(c) ==
  \A content \in Contents : content.selector = Malformed \/ Send(c, content)

\* An ingress that has the orphan finalizer, being deleted or not, keeps its
\* ingress in a cluster that no selector excludes (HandleObjectInUnderlyingClusters).
OrphansKept ==
  [][\A c \in Clusters :
       (OneIncarnation /\ AlwaysSent(c) /\ cl[c].obj # None /\ cl'[c].obj = None
          /\ fed.obj # None) => "orphan" \notin fed.obj.finalizers]_vars

\* Where a federated ingress should be, it is, with its spec and annotations;
\* elsewhere it is not; the LB annotation lists the ready clusters' addresses.
Converged ==
  LET o == fed.obj IN
  (o # None /\ ~o.deleting /\ o.ann.selector # Malformed) =>
    /\ \A c \in ready :
         IF Send(c, o.ann)
         THEN /\ cl[c].obj # None /\ cl[c].obj.spec = o.spec
              /\ cl[c].obj.ann = Merge(o.ann, cl[c].obj.ann)
         ELSE cl[c].obj = None
    /\ o.ann.lbstat = [c \in Clusters |->
                         IF c \in ready /\ cl[c].obj # None THEN cl[c].obj.lb ELSE None]

\* Nothing is queued, under way in the handler or on its way to a store.
Quiet ==
  /\ pc = "idle" /\ ~queued /\ ~clusterQueued
  /\ fedWatch = {} /\ \A c \in Clusters : clWatch[c] = {}

\* The first cluster of a global ingress has not reported an IP, or is not
\* selected and never will.
AwaitsIP ==
  LET o == fed.obj IN
  /\ o # None /\ o.ann.type = "global" /\ o.ann.ip = None /\ o.ann.first \in ready
  /\ Send(o.ann.first, o.ann) => /\ cl[o.ann.first].obj # None
                                 /\ cl[o.ann.first].obj.ann.static = None

\* The controller goes quiet only when there is nothing left to do: no event, error
\* or timeout gets lost between the informers, the two deliverers and the handler,
\* wherever it meets the reconciliation (ll. 198-257, 460-477, 710-975).
QuietIsConverged == Quiet => Converged \/ AwaitsIP

\* Once users, clusters and failures are quiet, the clusters come to match the
\* federated ingress and stay so: no event or retry is lost on the way.
Convergence == <>[]Converged

\* A deletion that has finalizers to work off ends with the object gone.
DeletionFinishes ==
  (fed.obj # None /\ fed.obj.deleting /\ "delete" \in fed.obj.finalizers)
    ~> (fed.obj = None)

\* "delete deletes the given ingress or returns error if the deletion was not
\* complete" (l. 979): a cascading deletion leaves no cluster ingress behind.
DeletionComplete ==
  [][(fed.obj # None /\ fed.obj.finalizers = {"delete"} /\ fed'.obj = None)
       => \A c \in Clusters : cl[c].obj # None => cl[c].obj.owner # fed.obj.uid]_vars
=============================================================================
