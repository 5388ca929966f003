------------------------- MODULE QuiescenceProofs -------------------------
(***************************************************************************)
(* Proof that the ingress controller goes quiet only when there is nothing *)
(* left to do (QuietIsConverged), and that a cascading deletion misses only*)
(* what the stores did not show when it read them (DeletionSeesAll), for   *)
(* any clusters, manifests, failures, timeouts and restarts.  StoreInv says*)
(* that a store without events on the way shows the API server's object.   *)
(* PassInv says what a reconciliation has established half-way, as long as *)
(* nothing has been delivered since it began, and ClearInv what a deletion *)
(* has found out.                                                          *)
(***************************************************************************)
EXTENDS ClusterIngressProofs, IngressDeletion

\* An informer that has delivered everything shows the current version, and one
\* that has not is still going to deliver it.
StoreInv ==
  /\ IF fedWatch = {} THEN fedCache.obj = fed.obj ELSE fed \in fedWatch
  /\ \A c \in synced : IF clWatch[c] = {} THEN clCache[c] = cl[c] ELSE cl[c] \in clWatch[c]
  /\ \A c \in Clusters \ synced : clWatch[c] = {}

\* The load balancer status that the store shows for cluster c.
CachedLB(c) == IF Cached(c).obj = None THEN None ELSE Cached(c).obj.lb

\* Federated ingress o needs nothing in cluster c, going by the stores: c has an
\* equivalent ingress, waits for another cluster's IP, or is not selected.
Matches(o, c) ==
  IF Send(c, o.ann)
  THEN \/ /\ Cached(c).obj # None /\ Equivalent(o, Cached(c).obj)
          /\ o.ann.ip = None => Cached(c).obj.ann.static = None
       \/ /\ Cached(c).obj = None
          /\ o.ann.first \in ready /\ o.ann.first # None /\ o.ann.first # c
          /\ o.ann.type # None /\ o.ann.ip = None
  ELSE Cached(c).obj = None

\* It needs nothing in any cluster, and its annotation lists their addresses.
Reconciled(o) ==
  /\ \A c \in ready : Matches(o, c)
  /\ o.ann.lbstat \in LBStats
  /\ \A c \in Clusters : o.ann.lbstat[c] = IF c \in ready THEN CachedLB(c) ELSE None

\* Nothing has been delivered since the handler took the key.
Undisturbed == ~queued /\ ~clusterQueued

\* The loop over clusters has found nothing to do so far.
LoopKnows ==
  /\ todo \subseteq ready
  /\ \A c \in ready \ todo : Matches(base.obj, c)
  /\ \A c \in Clusters : lbStat[c] = IF c \in ready \ todo THEN CachedLB(c) ELSE None

Live(o) == o # None /\ ~o.deleting /\ o.ann.selector # Malformed

PassInv ==
  /\ clusterQueued \/ isSynced
  /\ pc \in {"idle", "finalize", "list"} => ops = {} /\ lbStat = NoLB
  /\ pc \in {"delete", "gather", "remove", "apiDelete"} => base.obj.deleting
  /\ pc # "idle" /\ ~queued => /\ fedCache.obj # None
                               /\ fedWatch = {} => base = fedCache
  /\ pc = "visit" /\ Undisturbed /\ ops = {} => LoopKnows
  /\ pc = "idle" /\ Undisturbed /\ fedWatch = {} /\ Live(fedCache.obj)
       => Reconciled(fedCache.obj)

-----------------------------------------------------------------------------
(* Groups of steps that keep PassInv *)

\* A step after which the key is queued.
LEMMA QueuedKeepsPass ==
  ASSUME PassInv, queued',
         clusterQueued' \/ isSynced',
         pc' \in {"idle", "finalize", "list"} => ops' = {} /\ lbStat' = NoLB,
         pc' \in {"delete", "gather", "remove", "apiDelete"} => base'.obj.deleting
  PROVE  PassInv'
BY DEF PassInv, Undisturbed

\* The handler returns and the key is delivered again.
LEMMA RedeliveryKeepsPass ==
  ASSUME PassInv, Return(TRUE), UNCHANGED <<ready, synced, clusterQueued>>
  PROVE  PassInv'
<1>1. clusterQueued' \/ isSynced'
  BY DEF PassInv, isSynced
<1> QED
  BY Zenon, <1>1, QueuedKeepsPass DEF Return

\* A step on the API servers, with events on their way to the stores.
LEMMA OutsideKeepsPass ==
  ASSUME PassInv, UNCHANGED <<handlerVars, queued, clusterQueued, cacheVars>>,
         fedWatch' = {} => fedWatch = {}
  PROVE  PassInv'
<1> USE DEF handlerVars, cacheVars
<1>1. \A c : Cached(c)' = Cached(c)
  BY DEF Cached
<1>2. \A c : CachedLB(c)' = CachedLB(c)
  BY <1>1 DEF CachedLB
<1>3. \A c : Matches(base.obj, c)' = Matches(base.obj, c)
  BY Zenon, <1>1 DEF Matches
<1>4. \A c : Matches(fedCache.obj, c)' = Matches(fedCache.obj, c)
  BY Zenon, <1>1 DEF Matches
<1>5. LoopKnows' = LoopKnows
  BY <1>2, <1>3 DEF LoopKnows
<1>6. Reconciled(fedCache.obj)' = Reconciled(fedCache.obj)
  BY <1>2, <1>4 DEF Reconciled
<1> QED
  BY <1>5, <1>6 DEF PassInv, Undisturbed, isSynced, Live

\* A step of the handler that goes on with the pass outside the loop.
LEMMA PassGoesOn ==
  ASSUME PassInv, pc' \notin {"idle", "visit"},
         UNCHANGED <<queued, clusterQueued, cacheVars>>,
         pc' \in {"finalize", "list"} => ops' = {} /\ lbStat' = NoLB,
         pc' \in {"delete", "gather", "remove", "apiDelete"} => base'.obj.deleting,
         ~queued => fedCache.obj # None,
         ~queued /\ fedWatch' = {} => base' = fedCache
  PROVE  PassInv'
BY DEF PassInv, Undisturbed, isSynced, cacheVars

\* A cluster changes: the ingress will be delivered on its account.
LEMMA ClusterChangeKeepsPass ==
  ASSUME PassInv, clusterQueued', UNCHANGED <<handlerVars, fedWatch, fedCache>>,
         queued => queued'
  PROVE  PassInv'
BY DEF PassInv, Undisturbed, handlerVars

-----------------------------------------------------------------------------
(* Stores *)

\* What a step may do to the federated ingress and its store.
FedTraffic ==
  \/ UNCHANGED <<fed, fedWatch, fedCache>>
  \/ UNCHANGED fedCache /\ \E o : FedWrite(o)
  \/ DeliverFed \/ Restart

\* What a step may do to the clusters' ingresses and their stores.
ClusterTraffic ==
  \/ UNCHANGED <<cl, clWatch, clCache, synced>>
  \/ UNCHANGED <<clCache, synced>> /\ \E c \in Clusters : \E o : ClusterWrite(c, o)
  \/ \E c \in Clusters : DeliverCluster(c) \/ SyncInformer(c) \/ ClusterFlips(c)
  \/ Restart

\* Every step is of that kind.
LEMMA NextTraffic == IInv /\ [Next]_vars => FedTraffic /\ ClusterTraffic
<1> SUFFICES ASSUME IInv, [Next]_vars PROVE FedTraffic /\ ClusterTraffic
  OBVIOUS
<1> USE DEF FedTraffic, ClusterTraffic, apiVars, cacheVars, handlerVars
<1>1. ASSUME NEW o, UpdateOK(o) \/ UpdateFails(o)
      PROVE  UNCHANGED <<fed, fedWatch>> \/ \E p : FedWrite(p)
  BY <1>1 DEF UpdateOK, UpdateFails
<1>2. ASSUME NEW o, UpdateAndReturn(o)
      PROVE  FedTraffic /\ ClusterTraffic
  BY <1>1, <1>2 DEF UpdateAndReturn
<1>3. CASE Handler
  <2>1. CASE Start \/ GetReadyClusters \/ Dispatch \/ UpdateTimeout
    BY Zenon, <2>1 DEF Start, GetReadyClusters, Dispatch, UpdateTimeout
  <2>2. CASE EnsureFinalizers
    BY Zenon, <1>1, <2>2 DEF EnsureFinalizers
  <2>3. CASE PublishLBStatus
    BY <1>2, <2>3 DEF PublishLBStatus
  <2>4. CASE HandleDeletion \/ DeleteFromClusters \/ RemoveDeleteFinalizer
    BY Zenon, <1>1, <2>4 DEF HandleDeletion, DeleteFromClusters, RemoveDeleteFinalizer,
       RemoveFinalizers
  <2>5. CASE DeleteByName
    BY Zenon, <2>5 DEF DeleteByName
  <2>6. ASSUME NEW c \in Clusters, Visit(c)
        PROVE  FedTraffic /\ ClusterTraffic
    <3>1. CASE ElectFirstCluster(c) \/ TransferIP(c) \/ TransferStatus(c)
      BY <1>2, <3>1 DEF ElectFirstCluster, TransferIP, TransferStatus
    <3>2. CASE SelectorError(c)
      BY <3>2 DEF SelectorError
    <3>3. CASE QueueCreate(c) \/ QueueRemove(c) \/ QueueUpdate(c)
      BY <3>3 DEF QueueCreate, QueueRemove, QueueUpdate, Continue
    <3> QED
      BY <2>6, <3>1, <3>2, <3>3 DEF Visit
  <2>7. ASSUME NEW op \in ops, OpSucceeds(op) \/ OpFails(op)
        PROVE  FedTraffic /\ ClusterTraffic
    <3>1. op.cluster \in Clusters
      BY DEF IInv, TypeOK, Operations
    <3>2. UNCHANGED <<cl, clWatch>> \/ \E o : ClusterWrite(op.cluster, o)
      BY Zenon, <2>7 DEF OpSucceeds, OpFails
    <3> QED
      BY Zenon, <2>7, <3>1, <3>2 DEF OpSucceeds, OpFails
  <2> QED
    BY <1>3, <2>1, <2>2, <2>3, <2>4, <2>5, <2>6, <2>7 DEF Handler
<1>4. CASE Informers
  <2>1. CASE DeliverFed
    BY <2>1 DEF DeliverFed
  <2>2. CASE ReconcileOnClusterChange
    BY <2>2 DEF ReconcileOnClusterChange
  <2>3. CASE \E c \in Clusters : DeliverCluster(c) \/ SyncInformer(c)
    BY <2>3 DEF DeliverCluster, SyncInformer
  <2> QED
    BY <1>4, <2>1, <2>2, <2>3 DEF Informers
<1>5. ASSUME NEW op \in detached, DetachedOp(op)
      PROVE  FedTraffic /\ ClusterTraffic
  <2>1. op.cluster \in Clusters
    BY DEF IInv, TypeOK, Operations
  <2> QED
    BY <1>5, <2>1 DEF DetachedOp
<1>6. CASE Environment
  <2>1. CASE \E content \in Contents : UserCreate(content) \/ UserEdit(content)
    BY <2>1 DEF UserCreate, UserEdit
  <2>2. CASE \E orphan \in BOOLEAN : UserDelete(orphan)
    BY <2>2 DEF UserDelete
  <2>3. ASSUME NEW c \in Clusters, NEW a, ClusterSetsLB(c, a) \/ ClusterReportsIP(c)
        PROVE  FedTraffic /\ ClusterTraffic
    BY <2>3 DEF ClusterSetsLB, ClusterReportsIP
  <2>4. CASE \E c \in Clusters : ClusterFlips(c)
    BY <2>4 DEF ClusterFlips
  <2> QED
    BY <1>6, <2>1, <2>2, <2>3, <2>4 DEF Environment
<1>7. CASE UNCHANGED vars
  BY <1>7 DEF vars
<1> QED
  BY <1>3, <1>4, <1>5, <1>6, <1>7 DEF Next

\* The store of the federated ingress.
LEMMA FedStoreStep ==
  ASSUME IInv, StoreInv, FedTraffic
  PROVE  IF fedWatch' = {} THEN fedCache'.obj = fed'.obj ELSE fed' \in fedWatch'
<1>1. CASE UNCHANGED <<fed, fedWatch, fedCache>>
  BY <1>1 DEF StoreInv
<1>2. CASE UNCHANGED fedCache /\ \E o : FedWrite(o)
  BY <1>2 DEF StoreInv, FedWrite
<1>3. CASE DeliverFed
  <2>1. PICK v \in fedWatch : /\ \A w \in fedWatch : v.rv <= w.rv
                              /\ fedCache' = v /\ fedWatch' = fedWatch \ {v} /\ fed' = fed
    BY <1>3 DEF DeliverFed, Oldest
  <2>2. fed \in fedWatch
    BY <2>1 DEF StoreInv
  <2>3. \A w \in fedWatch : w.rv \in Nat /\ w.rv <= fed.rv /\ (w.rv = fed.rv => w = fed)
    BY DEF IInv, VersionsAgree, FedCopies, TypeOK, FedVersions
  <2>4. v = fed => fedWatch = {fed}
    BY <2>1, <2>2, <2>3
  <2> QED
    BY <2>1, <2>2, <2>4
<1>4. CASE Restart
  BY <1>4 DEF Restart, NoVersion
<1> QED
  BY <1>1, <1>2, <1>3, <1>4 DEF FedTraffic

\* The stores of the clusters' ingresses.
LEMMA ClusterStoreStep ==
  ASSUME IInv, ClusterInv, StoreInv, ClusterTraffic, NEW d \in synced'
  PROVE  IF clWatch'[d] = {} THEN clCache'[d] = cl'[d] ELSE cl'[d] \in clWatch'[d]
<1> DEFINE Good == IF clWatch'[d] = {} THEN clCache'[d] = cl'[d] ELSE cl'[d] \in clWatch'[d]
<1>1. CASE UNCHANGED <<cl, clWatch, clCache, synced>>
  BY <1>1 DEF StoreInv
<1>2. ASSUME UNCHANGED <<clCache, synced>>, NEW c \in Clusters, NEW o, ClusterWrite(c, o)
      PROVE  Good
  <2>1. d \in Clusters
    BY <1>2 DEF IInv, TypeOK
  <2>2. CASE UNCHANGED <<cl, clWatch>>
    BY <1>2, <2>2 DEF StoreInv
  <2>3. ASSUME NEW n, cl' = [cl EXCEPT ![c] = n],
               clWatch' = [clWatch EXCEPT ![c] = IF c \in synced THEN @ \cup {n} ELSE {}]
        PROVE  Good
    BY <1>2, <2>1, <2>3 DEF StoreInv, IInv, TypeOK
  <2> QED
    BY Zenon, <1>2, <2>2, <2>3 DEF ClusterWrite
<1>3. ASSUME NEW c \in Clusters, DeliverCluster(c)
      PROVE  Good
  <2>1. PICK v \in clWatch[c] : /\ \A w \in clWatch[c] : v.rv <= w.rv
                                /\ clCache' = [clCache EXCEPT ![c] = v]
                                /\ clWatch' = [clWatch EXCEPT ![c] = @ \ {v}]
    BY Zenon, <1>3 DEF DeliverCluster, Oldest
  <2>2. UNCHANGED <<cl, synced>> /\ d \in Clusters /\ d \in synced
    BY <1>3 DEF DeliverCluster, IInv, TypeOK
  <2>3. CASE c = d
    <3>1. cl[c] \in clWatch[c]
      BY <2>1, <2>2, <2>3 DEF StoreInv
    <3>2. \A w \in clWatch[c] : w.rv \in Nat /\ w.rv <= cl[c].rv /\ (w.rv = cl[c].rv => w = cl[c])
      BY DEF ClusterInv, ClusterVersionsAgree, ClusterCopies, IInv, TypeOK, ClusterVersions
    <3>3. v = cl[c] => clWatch[c] = {cl[c]}
      BY <2>1, <3>1, <3>2
    <3>4. clCache'[d] = v /\ clWatch'[d] = clWatch[c] \ {v}
      BY <2>1, <2>2, <2>3 DEF IInv, TypeOK
    <3> QED
      BY <2>1, <2>2, <2>3, <3>1, <3>3, <3>4
  <2>4. CASE c # d
    BY <2>1, <2>2, <2>4 DEF StoreInv, IInv, TypeOK
  <2> QED
    BY <2>3, <2>4
<1>4. ASSUME NEW c \in Clusters, SyncInformer(c)
      PROVE  Good
  <2>1. /\ d \in Clusters /\ (d # c => d \in synced)
        /\ clWatch[c] = {} /\ UNCHANGED <<cl, clWatch>>
        /\ clCache' = [clCache EXCEPT ![c] = cl[c]]
    BY <1>4 DEF SyncInformer, StoreInv, IInv, TypeOK, apiVars
  <2> QED
    BY <2>1 DEF StoreInv, IInv, TypeOK
<1>5. ASSUME NEW c \in Clusters, ClusterFlips(c)
      PROVE  Good
  BY <1>5 DEF ClusterFlips, StopInformer, StoreInv, IInv, TypeOK
<1>6. CASE Restart
  BY <1>6 DEF Restart
<1> QED
  BY <1>1, <1>2, <1>3, <1>4, <1>5, <1>6 DEF ClusterTraffic

\* No watch is open on a cluster whose informer has not listed.
LEMMA NoWatchStep ==
  ASSUME IInv, StoreInv, ClusterTraffic, NEW d \in Clusters, d \notin synced'
  PROVE  clWatch'[d] = {}
<1>1. CASE UNCHANGED <<cl, clWatch, clCache, synced>>
  BY <1>1 DEF StoreInv
<1>2. CASE UNCHANGED <<clCache, synced>> /\ \E c \in Clusters : \E o : ClusterWrite(c, o)
  <2>1. PICK c \in Clusters : \E o : ClusterWrite(c, o)
    BY <1>2
  <2>2. \/ UNCHANGED clWatch
        \/ \E n : clWatch' = [clWatch EXCEPT ![c] = IF c \in synced THEN @ \cup {n} ELSE {}]
    BY Zenon, <2>1 DEF ClusterWrite
  <2> QED
    BY <1>2, <2>1, <2>2 DEF StoreInv, IInv, TypeOK
<1>3. ASSUME NEW c \in Clusters, DeliverCluster(c) \/ SyncInformer(c) \/ ClusterFlips(c)
      PROVE  clWatch'[d] = {}
  <2>1. CASE DeliverCluster(c)
    BY <2>1 DEF DeliverCluster, StoreInv, IInv, TypeOK
  <2>2. CASE SyncInformer(c)
    BY <2>2 DEF SyncInformer, StoreInv, apiVars
  <2>3. CASE ClusterFlips(c)
    BY <2>3 DEF ClusterFlips, StopInformer, StoreInv, IInv, TypeOK
  <2> QED
    BY <1>3, <2>1, <2>2, <2>3
<1>4. CASE Restart
  BY <1>4 DEF Restart
<1> QED
  BY <1>1, <1>2, <1>3, <1>4 DEF ClusterTraffic

\* Stores without events on the way are up to date, in every reachable state.
THEOREM StoresFollow == Spec => []StoreInv
<1>1. Init => StoreInv
  BY DEF Init, StoreInv
<1>2. IInv /\ ClusterInv /\ StoreInv /\ [Next]_vars => StoreInv'
  BY NextTraffic, FedStoreStep, ClusterStoreStep, NoWatchStep DEF StoreInv
<1> QED
  BY <1>1, <1>2, Invariance, ClusterInvariance, PTL DEF Spec

-----------------------------------------------------------------------------
(* The pass *)

\* A write to the federated ingress takes no event off the watch.
LEMMA WriteKeepsEvents ==
  ASSUME NEW o, FedWrite(o) \/ UNCHANGED fedWatch \/ UpdateOK(o) \/ UpdateFails(o)
  PROVE  fedWatch' = {} => fedWatch = {}
BY DEF FedWrite, UpdateOK, UpdateFails

\* updateAnnotationOnIngress and UpdateStatus.
LEMMA UpdateKeepsPass ==
  ASSUME PassInv, NEW o, UpdateAndReturn(o)
  PROVE  PassInv'
BY RedeliveryKeepsPass DEF UpdateAndReturn, cacheVars

\* A reconciliation that starts takes the delivered key along.
LEMMA StartKeepsPass ==
  ASSUME IInv, PassInv, Start
  PROVE  PassInv'
<1> USE DEF apiVars, cacheVars
<1>1. /\ pc = "idle" /\ ops = {} /\ lbStat = NoLB /\ ops' = {} /\ lbStat' = NoLB
      /\ UNCHANGED <<fedCache, fedWatch, ready, synced, clusterQueued>>
      /\ clusterQueued' \/ isSynced'
  BY DEF Start, PassInv, isSynced, NoLB
<1>2. CASE fedCache.obj = None
  <2>1. pc' = "idle" /\ ~Live(fedCache.obj)'
    BY <1>1, <1>2 DEF Start, Live
  <2> QED
    BY <1>1, <2>1 DEF PassInv
<1>3. CASE fedCache.obj # None
  <2>1. /\ base' = fedCache /\ pc' \in {"delete", "finalize"}
        /\ pc' = "delete" => base'.obj.deleting
    BY <1>3 DEF Start
  <2> QED
    BY <1>1, <1>3, <2>1 DEF PassInv
<1> QED
  BY <1>2, <1>3

\* The finalizers are there, or their update was sent and the key comes back.
LEMMA EnsureFinalizersKeepsPass ==
  ASSUME IInv, PassInv, EnsureFinalizers
  PROVE  PassInv'
<1> DEFINE o == [base.obj EXCEPT !.finalizers = Finalizers]
<1>1. pc = "finalize" /\ UNCHANGED <<cacheVars, clusterQueued>>
  BY DEF EnsureFinalizers
<1>2. ops = {} /\ lbStat = NoLB /\ (~queued => fedCache.obj # None /\ (fedWatch = {} => base = fedCache))
  BY <1>1 DEF PassInv
<1>3. CASE pc' = "list" /\ UNCHANGED <<fed, fedWatch, budget, base, todo, lbStat, ops, queued>>
  BY <1>1, <1>2, <1>3, PassGoesOn DEF NoLB
<1>4. CASE /\ base.obj.finalizers # Finalizers
           /\ UpdateOK(o)
           /\ pc' = "list" /\ base' = fed'
           /\ UNCHANGED <<todo, lbStat, ops, queued>>
  <2>1. base = fed /\ base.obj \in FedIngresses
    BY <1>1, <1>4 DEF UpdateOK, IInv, TypeOK, FedVersions, VersionsAgree, FedCopies,
       HandlerKnows
  <2>2. o.finalizers = Finalizers /\ Finalizers # {}
    BY <2>1 DEF FedIngresses, Finalizers
  <2>3. Stored(o) # fed.obj
    BY Zenon, <1>4, <2>1, <2>2 DEF Stored
  <2>4. fedWatch' # {}
    BY <1>4, <2>3 DEF UpdateOK, FedWrite
  <2> QED
    BY <1>1, <1>2, <1>4, <2>4, PassGoesOn DEF NoLB
<1>5. CASE Return(TRUE)
  BY <1>1, <1>5, RedeliveryKeepsPass DEF cacheVars
<1> QED
  BY Zenon, <1>3, <1>4, <1>5 DEF EnsureFinalizers

\* The loop over the clusters starts with every ready one still to visit.
LEMMA GetReadyClustersKeepsPass ==
  ASSUME IInv, PassInv, GetReadyClusters
  PROVE  PassInv'
<1> USE DEF apiVars, cacheVars
<1>1. /\ pc = "list" /\ pc' = "visit" /\ todo' = ready
      /\ UNCHANGED <<fedWatch, fedCache, clCache, ready, synced, base, lbStat, ops,
                     queued, clusterQueued>>
  BY DEF GetReadyClusters
<1>2. lbStat = NoLB
  BY <1>1 DEF PassInv
<1>3. LoopKnows'
  BY <1>1, <1>2 DEF LoopKnows, NoLB
<1>4. clusterQueued' \/ isSynced'
  BY <1>1 DEF PassInv, isSynced
<1> QED
  BY <1>1, <1>3, <1>4 DEF PassInv

\* One iteration of the loop that goes on to the next cluster.
LEMMA LoopGoesOn ==
  ASSUME IInv, PassInv, NEW c \in Clusters, Visiting(c),
         UNCHANGED <<fedWatch, cacheVars, pc, base, queued, clusterQueued>>,
         todo' = todo \ {c}, ops' = {} => ops = {} /\ Matches(base.obj, c),
         \A d \in Clusters \ {c} : lbStat'[d] = lbStat[d],
         ops' = {} => \/ lbStat'[c] = CachedLB(c)
                      \/ CachedLB(c) = None /\ lbStat'[c] = lbStat[c]
  PROVE  PassInv'
<1> USE DEF cacheVars
<1>1. pc = "visit" /\ c \in todo
  BY DEF Visiting
<1>2. \A d : Cached(d)' = Cached(d)
  BY DEF Cached
<1>3. \A d : CachedLB(d)' = CachedLB(d)
  BY <1>2 DEF CachedLB
<1>4. \A d : Matches(base.obj, d)' = Matches(base.obj, d)
  BY Zenon, <1>2 DEF Matches
<1>5. ASSUME Undisturbed', ops' = {} PROVE LoopKnows'
  <2>1. LoopKnows /\ Matches(base.obj, c)
    BY <1>1, <1>5 DEF PassInv, Undisturbed
  <2>2. ready \ todo' = (ready \ todo) \cup {c}
    BY <1>1, <2>1 DEF LoopKnows
  <2>3. lbStat'[c] = CachedLB(c)
    BY <1>1, <1>5, <2>1 DEF LoopKnows
  <2> QED
    BY <1>3, <1>4, <2>1, <2>2, <2>3 DEF LoopKnows
<1>6. clusterQueued' \/ isSynced'
  BY DEF PassInv, isSynced
<1> QED
  BY <1>1, <1>5, <1>6 DEF PassInv

\* A cluster visited by the loop needs nothing, or its operation is queued.
LEMMA VisitKeepsPass ==
  ASSUME IInv, PassInv, NEW c \in Clusters, Visit(c)
  PROVE  PassInv'
<1> USE DEF apiVars, cacheVars
<1>1. CASE ElectFirstCluster(c) \/ TransferIP(c) \/ TransferStatus(c)
  BY <1>1, UpdateKeepsPass DEF ElectFirstCluster, TransferIP, TransferStatus
<1>2. CASE SelectorError(c)
  <2>1. /\ pc = "visit" /\ base.obj.ann.selector = Malformed /\ Return(FALSE)
        /\ UNCHANGED <<fedWatch, fedCache, clCache, ready, synced, clusterQueued>>
    BY Zenon, <1>2 DEF SelectorError, Visiting
  <2>2. ~queued /\ fedWatch = {} => ~Live(fedCache.obj)'
    BY <2>1 DEF PassInv, Live
  <2>3. clusterQueued' \/ isSynced'
    BY <2>1 DEF PassInv, isSynced
  <2> QED
    BY Zenon, <2>1, <2>2, <2>3 DEF PassInv, Return, Undisturbed
<1>3. CASE QueueCreate(c)
  <2>1. /\ Visiting(c) /\ Selected(c) /\ Cached(c).obj = None /\ HaveFirstCluster
        /\ ops' = {} => ops = {} /\ ~MayCreate(c)
        /\ lbStat' = lbStat /\ todo' = todo \ {c}
        /\ UNCHANGED <<fedWatch, cacheVars, pc, base, queued, clusterQueued>>
    BY Zenon, <1>3 DEF QueueCreate, Continue
  <2>2. ops' = {} => Matches(base.obj, c)
    BY <2>1 DEF Matches, MayCreate, HaveFirstCluster, Selected
  <2>3. CachedLB(c) = None
    BY <2>1 DEF CachedLB
  <2> QED
    BY <2>1, <2>2, <2>3, LoopGoesOn
<1>4. CASE QueueRemove(c)
  <2>1. /\ Visiting(c) /\ ~Send(c, base.obj.ann)
        /\ ops' = {} => ops = {} /\ Cached(c).obj = None
        /\ lbStat' = lbStat /\ todo' = todo \ {c}
        /\ UNCHANGED <<fedWatch, cacheVars, pc, base, queued, clusterQueued>>
    BY <1>4 DEF QueueRemove, Continue, Selected
  <2>2. ops' = {} => Matches(base.obj, c) /\ CachedLB(c) = None
    BY <2>1 DEF Matches, CachedLB
  <2> QED
    BY <2>1, <2>2, LoopGoesOn
<1>5. CASE QueueUpdate(c)
  <2>1. /\ Visiting(c) /\ Send(c, base.obj.ann) /\ Cached(c).obj # None
        /\ ops' = {} => ops = {} /\ Equivalent(base.obj, Cached(c).obj)
        /\ ~MustTransferIP(c)
        /\ lbStat' = [lbStat EXCEPT ![c] = Cached(c).obj.lb] /\ todo' = todo \ {c}
        /\ UNCHANGED <<fedWatch, cacheVars, pc, base, queued, clusterQueued>>
    BY Zenon, <1>5 DEF QueueUpdate, Continue, Selected
  <2>2. ops' = {} => Matches(base.obj, c)
    BY <2>1 DEF Matches, MustTransferIP
  <2>3. /\ \A d \in Clusters \ {c} : lbStat'[d] = lbStat[d]
        /\ lbStat'[c] = CachedLB(c)
    BY <2>1 DEF CachedLB, IInv, TypeOK, LBStats
  <2> QED
    BY <2>1, <2>2, <2>3, LoopGoesOn
<1> QED
  BY <1>1, <1>2, <1>3, <1>4, <1>5 DEF Visit

\* A loop that queued no operation leaves nothing to do; otherwise the updater runs.
LEMMA DispatchKeepsPass ==
  ASSUME IInv, PassInv, Dispatch
  PROVE  PassInv'
<1> USE DEF apiVars, cacheVars
<1>1. /\ pc = "visit" /\ todo = {} /\ base.obj.ann.lbstat = lbStat
      /\ UNCHANGED <<fedWatch, fedCache, clCache, ready, synced, clusterQueued>>
  BY DEF Dispatch
<1>2. CASE ops # {}
  <2>1. pc' = "wait" /\ UNCHANGED <<base, queued>>
    BY Zenon, <1>2 DEF Dispatch
  <2> QED
    BY <1>1, <2>1, PassGoesOn DEF PassInv
<1>3. CASE ops = {}
  <2>1. Return(FALSE)
    BY Zenon, <1>3 DEF Dispatch
  <2>2. ASSUME Undisturbed', fedWatch' = {} PROVE Reconciled(fedCache.obj)'
    <3>1. Undisturbed /\ fedWatch = {}
      BY Zenon, <1>1, <2>1, <2>2 DEF Undisturbed, Return
    <3>2. base = fedCache /\ LoopKnows
      BY <1>1, <1>3, <3>1 DEF PassInv, Undisturbed
    <3>3. Reconciled(fedCache.obj)
      BY <1>1, <3>2 DEF Reconciled, LoopKnows, IInv, TypeOK
    <3>4. \A c : Cached(c)' = Cached(c)
      BY <1>1 DEF Cached
    <3>5. \A c : CachedLB(c)' = CachedLB(c)
      BY <3>4 DEF CachedLB
    <3>6. \A c : Matches(fedCache.obj, c)' = Matches(fedCache.obj, c)
      BY Zenon, <1>1, <3>4 DEF Matches
    <3> QED
      BY <1>1, <3>3, <3>5, <3>6 DEF Reconciled
  <2>3. clusterQueued' \/ isSynced'
    BY <1>1 DEF PassInv, isSynced
  <2> QED
    BY <2>1, <2>2, <2>3 DEF PassInv, Return
<1> QED
  BY <1>2, <1>3

\* Whatever the updater reports, a pass with operations ends in a redelivery.
LEMMA WaitKeepsPass ==
  ASSUME IInv, PassInv,
         UpdateTimeout \/ \E op \in ops : OpSucceeds(op) \/ OpFails(op)
  PROVE  PassInv'
<1> USE DEF apiVars, cacheVars
<1>1. /\ pc = "wait"
      /\ UNCHANGED <<fedWatch, fedCache, clCache, ready, synced, clusterQueued>>
      /\ Return(TRUE) \/ UNCHANGED <<pc, base, todo, lbStat, queued>>
  BY Zenon DEF UpdateTimeout, OpSucceeds, OpFails
<1> QED
  BY Zenon, <1>1, RedeliveryKeepsPass, PassGoesOn DEF PassInv

\* The deletion path goes on, or returns with a redelivery.
LEMMA DeletionKeepsPass ==
  ASSUME IInv, PassInv, HandleDeletion \/ DeleteFromClusters \/ RemoveDeleteFinalizer
  PROVE  PassInv'
<1>1. /\ pc \in {"delete", "gather", "remove"} /\ UNCHANGED <<cacheVars, clusterQueued>>
      /\ \/ Return(TRUE)
         \/ /\ UNCHANGED <<base, lbStat, queued>>
            /\ pc' \in {"apiDelete", "gather", "remove", "wait"}
            /\ fedWatch' = {} => fedWatch = {}
  BY Zenon, WriteKeepsEvents DEF HandleDeletion, DeleteFromClusters, RemoveDeleteFinalizer,
     RemoveFinalizers, apiVars
<1>2. base.obj.deleting /\ (~queued => fedCache.obj # None /\ (fedWatch = {} => base = fedCache))
  BY <1>1 DEF PassInv
<1>3. CASE Return(TRUE)
  BY <1>1, <1>3, RedeliveryKeepsPass DEF cacheVars
<1>4. CASE ~Return(TRUE)
  BY Zenon, <1>1, <1>2, <1>4, PassGoesOn
<1> QED
  BY Zenon, <1>3, <1>4

\* The last delete request leaves an ingress that is not live in the store.
LEMMA DeleteByNameKeepsPass ==
  ASSUME IInv, PassInv, DeleteByName
  PROVE  PassInv'
<1>1. /\ pc = "apiDelete" /\ UNCHANGED <<fedCache, clCache, ready, synced, clusterQueued>>
      /\ Return(TRUE) \/ Return(FALSE)
      /\ fedWatch' = {} => fedWatch = {}
  BY Zenon, WriteKeepsEvents DEF DeleteByName, cacheVars
<1>2. CASE Return(TRUE)
  BY <1>1, <1>2, RedeliveryKeepsPass
<1>3. CASE Return(FALSE)
  <2>1. ~queued /\ fedWatch' = {} => ~Live(fedCache.obj)'
    BY <1>1 DEF PassInv, Live
  <2>2. clusterQueued' \/ isSynced'
    BY <1>1 DEF PassInv, isSynced
  <2> QED
    BY Zenon, <1>1, <1>3, <2>1, <2>2 DEF PassInv, Return, Undisturbed
<1> QED
  BY Zenon, <1>1, <1>2, <1>3

\* An event that reaches a store delivers the key, or all keys, again.
LEMMA InformersKeepPass ==
  ASSUME IInv, PassInv, Informers
  PROVE  PassInv'
<1> USE DEF handlerVars, cacheVars
<1>1. CASE DeliverFed \/ \E c \in Clusters : DeliverCluster(c)
  <2>1. queued' /\ UNCHANGED <<pc, base, todo, lbStat, ops, ready, synced, clusterQueued>>
    BY <1>1 DEF DeliverFed, DeliverCluster
  <2>2. clusterQueued' \/ isSynced'
    BY <2>1 DEF PassInv, isSynced
  <2> QED
    BY <2>1, <2>2, QueuedKeepsPass DEF PassInv
<1>2. CASE ReconcileOnClusterChange
  <2>1. /\ queued' = (queued \/ fedCache.obj # None) /\ clusterQueued' = ~isSynced
        /\ UNCHANGED <<handlerVars, fedWatch, fedCache, ready, synced>>
    BY <1>2 DEF ReconcileOnClusterChange, apiVars
  <2>2. clusterQueued' \/ isSynced'
    BY Zenon, <2>1 DEF isSynced
  <2>3. CASE fedCache.obj # None
    BY Zenon, <2>1, <2>2, <2>3, QueuedKeepsPass DEF PassInv
  <2>4. CASE fedCache.obj = None
    <3>1. ~Live(fedCache.obj)'
      BY <2>1, <2>4 DEF Live
    <3>2. ~queued' => ~queued /\ pc' = "idle"
      BY Zenon, <2>1, <2>4 DEF PassInv
    <3> QED
      BY <2>1, <2>2, <3>1, <3>2 DEF PassInv, Undisturbed
  <2> QED
    BY <2>3, <2>4
<1>3. ASSUME NEW c \in Clusters, SyncInformer(c) PROVE PassInv'
  <2>1. ~isSynced
    BY <1>3 DEF SyncInformer, isSynced
  <2>2. clusterQueued' /\ UNCHANGED <<handlerVars, fedWatch, fedCache>> /\ (queued => queued')
    BY Zenon, <1>3, <2>1 DEF SyncInformer, PassInv, apiVars
  <2> QED
    BY <2>2, ClusterChangeKeepsPass
<1> QED
  BY <1>1, <1>2, <1>3 DEF Informers

\* What users and clusters change is on a watch, or redelivers the key.
LEMMA EnvironmentKeepsPass ==
  ASSUME IInv, PassInv, Environment \/ \E op \in detached : DetachedOp(op)
  PROVE  PassInv'
<1> USE DEF handlerVars, cacheVars
<1>1. CASE \/ \E content \in Contents : UserCreate(content) \/ UserEdit(content)
           \/ \E orphan \in BOOLEAN : UserDelete(orphan)
           \/ \E c \in Clusters : \/ \E a \in Addrs \cup {None} : ClusterSetsLB(c, a)
                                  \/ ClusterReportsIP(c)
           \/ \E op \in detached : DetachedOp(op)
  <2>1. /\ UNCHANGED <<handlerVars, queued, clusterQueued, cacheVars>>
        /\ fedWatch' = {} => fedWatch = {}
    BY Zenon, <1>1, WriteKeepsEvents
       DEF UserCreate, UserEdit, UserDelete, ClusterSetsLB, ClusterReportsIP, DetachedOp
  <2> QED
    BY <2>1, OutsideKeepsPass
<1>2. ASSUME NEW c \in Clusters, ClusterFlips(c) PROVE PassInv'
  BY <1>2, ClusterChangeKeepsPass DEF ClusterFlips, StopInformer
<1>3. CASE Restart
  BY <1>3 DEF Restart, PassInv, Undisturbed
<1> QED
  BY <1>1, <1>2, <1>3 DEF Environment

\* At every point of a reconciliation that nothing has disturbed, the clusters
\* visited so far and no operation queued mean that nothing is left to do there.
THEOREM PassHolds == Spec => []PassInv
<1>1. Init => PassInv
  BY DEF Init, PassInv, Undisturbed
<1>2. IInv /\ PassInv /\ [Next]_vars => PassInv'
  <2> SUFFICES ASSUME IInv, PassInv, [Next]_vars PROVE PassInv'
    OBVIOUS
  <2>1. CASE Handler
    BY <2>1, StartKeepsPass, EnsureFinalizersKeepsPass, GetReadyClustersKeepsPass,
       VisitKeepsPass, UpdateKeepsPass, DispatchKeepsPass, WaitKeepsPass,
       DeletionKeepsPass, DeleteByNameKeepsPass DEF Handler, PublishLBStatus
  <2>2. CASE UNCHANGED vars
    BY <2>2, OutsideKeepsPass DEF vars, apiVars
  <2> QED
    BY <2>1, <2>2, InformersKeepPass, EnvironmentKeepsPass DEF Next
<1> QED
  BY <1>1, <1>2, Invariance, PTL DEF Spec

-----------------------------------------------------------------------------
(* Quiescence *)

\* Laying annotations over themselves changes nothing.
LEMMA MergeSame ==
  ASSUME NEW a \in Annotations
  PROVE  Merge(a, a) = a
BY DEF Merge, Over, Annotations

\* QuietIsConverged follows from the stores and the last pass.
LEMMA QuietStores ==
  ASSUME IInv, StoreInv, PassInv
  PROVE  QuietIsConverged
<1> DEFINE o == fed.obj
<1> SUFFICES ASSUME Quiet, Live(o), ~AwaitsIP PROVE Converged
  BY DEF QuietIsConverged, Converged, Live
<1>1. fedCache.obj = o /\ synced = ready /\ Reconciled(o)
  BY DEF Quiet, StoreInv, PassInv, Undisturbed, isSynced
<1>2. \A c \in ready : c \in Clusters /\ Cached(c) = cl[c]
  BY Zenon, <1>1 DEF Quiet, StoreInv, Cached, IInv, TypeOK
<1>3. \A c \in ready : CachedLB(c) = IF cl[c].obj # None THEN cl[c].obj.lb ELSE None
  BY <1>2 DEF CachedLB
<1>4. /\ o \in FedIngresses /\ o.ann \in Annotations /\ o.ann.type \in {None, "global"}
      /\ \A c \in Clusters : cl[c].obj # None => cl[c].obj \in ClusterIngresses
  BY DEF Live, IInv, TypeOK, FedVersions, ClusterVersions,
     FedIngresses, Annotations
<1>5. ASSUME NEW c \in ready, Send(c, o.ann)
      PROVE  cl[c].obj # None /\ Equivalent(o, cl[c].obj)
  <2>1. CASE cl[c].obj # None /\ Equivalent(o, cl[c].obj)
    BY <2>1
  <2>2. CASE /\ o.ann.first \in ready /\ o.ann.first # None /\ o.ann.first # c
             /\ o.ann.type # None /\ o.ann.ip = None
    <3>1. Matches(o, o.ann.first) /\ Cached(o.ann.first) = cl[o.ann.first]
      BY <1>1, <1>2, <2>2 DEF Reconciled
    <3>2. AwaitsIP
      BY Zenon, <1>4, <2>2, <3>1 DEF AwaitsIP, Matches, Live
    <3> QED
      BY <3>2
  <2> QED
    BY <1>1, <1>2, <1>5, <2>1, <2>2 DEF Reconciled, Matches
<1>6. ASSUME NEW c \in ready
      PROVE  IF Send(c, o.ann)
             THEN /\ cl[c].obj # None /\ cl[c].obj.spec = o.spec
                  /\ cl[c].obj.ann = Merge(o.ann, cl[c].obj.ann)
             ELSE cl[c].obj = None
  <2>1. CASE Send(c, o.ann)
    BY <1>4, <1>5, <2>1, MergeSame DEF Equivalent
  <2>2. CASE ~Send(c, o.ann)
    BY <1>1, <1>2, <2>2 DEF Reconciled, Matches
  <2> QED
    BY <2>1, <2>2
<1>7. o.ann.lbstat = [c \in Clusters |->
                        IF c \in ready /\ cl[c].obj # None THEN cl[c].obj.lb ELSE None]
  BY <1>1, <1>3 DEF Reconciled, LBStats
<1> QED
  BY <1>6, <1>7 DEF Converged

\* When nothing is queued, under way or on its way to a store, the clusters match
\* the federated ingress, or wait for a static IP: no event, error or timeout is
\* lost between the informers, the deliverers and reconcileIngress.
THEOREM QuietMeansConverged == Spec => []QuietIsConverged
BY QuietStores, Invariance, StoresFollow, PassHolds, PTL

\* An update that removes the federated ingress finds it as the handler read it.
LEMMA UpdateRemoves ==
  ASSUME IInv, NEW p, UpdateOK(p) \/ UpdateFails(p), fed.obj # None, fed'.obj = None
  PROVE  base = fed /\ Stored(p) = None
<1>1. fed.rv = base.rv /\ FedWrite(Stored(p))
  BY DEF UpdateOK, UpdateFails
<1>2. base = fed
  BY <1>1 DEF IInv, VersionsAgree, FedCopies
<1> QED
  BY <1>1, <1>2 DEF FedWrite

\* The federated ingress goes away with its delete finalizer in one step only.
LEMMA RemovalStep ==
  ASSUME IInv, [Next]_vars,
         fed.obj # None, fed.obj.finalizers = {"delete"}, fed'.obj = None
  PROVE  RemoveDeleteFinalizer
<1> DEFINE Goal == RemoveDeleteFinalizer
<1>0. fed.obj \in FedIngresses /\ None \notin FedIngresses
  BY NoneAssumption DEF IInv, TypeOK, FedVersions
<1>1. ASSUME NEW p \in FedIngresses, UpdateOK(p) \/ UpdateFails(p),
             p.finalizers = base.obj.finalizers
      PROVE  FALSE
  BY <1>0, <1>1, UpdateRemoves DEF Stored
<1>2. ASSUME NEW p \in FedIngresses, FedWrite(p)
      PROVE  FALSE
  BY <1>0, <1>2 DEF FedWrite
<1>3. CASE fed' = fed
  BY <1>3
<1>4. CASE Handler
  <2>1. CASE EnsureFinalizers
    <3>1. PICK p : /\ p = [base.obj EXCEPT !.finalizers = Finalizers]
                   /\ fed' = fed \/ UpdateOK(p) \/ UpdateFails(p)
      BY Zenon, <2>1 DEF EnsureFinalizers
    <3>2. base = fed /\ Stored(p) = None
      BY <1>3, <3>1, UpdateRemoves
    <3>3. p \in FedIngresses /\ p.finalizers # {}
      BY <1>0, <3>1, <3>2 DEF FedIngresses, Finalizers
    <3> QED
      BY <1>0, <3>2, <3>3 DEF Stored
  <2>2. CASE PublishLBStatus \/ \E c \in Clusters : Visit(c)
    <3>1. base.obj \in FedIngresses /\ lbStat \in LBStats
      BY Zenon, <2>2 DEF PublishLBStatus, Visit, SelectorError, ElectFirstCluster, QueueCreate,
         QueueRemove, TransferIP, TransferStatus, QueueUpdate, Visiting, HandlerKnows, IInv,
         TypeOK, FedVersions
    <3>2. ASSUME NEW c \in Clusters, NEW ip \in Clusters \cup {None},
                 NEW a \in Addrs \cup {None},
                 NEW p \in {[base.obj EXCEPT !.ann.first = c], [base.obj EXCEPT !.ann.ip = ip],
                            [base.obj EXCEPT !.status = a]},
                 UpdateAndReturn(p)
          PROVE  FALSE
      <4>1. p.finalizers = base.obj.finalizers
        BY <3>1, <3>2 DEF FedIngresses
      <4>2. p \in FedIngresses
        BY <3>1, <3>2 DEF FedIngresses, Annotations
      <4> QED
        BY <1>1, <3>2, <4>1, <4>2 DEF UpdateAndReturn
    <3>3. CASE PublishLBStatus
      <4>1. [base.obj EXCEPT !.ann.lbstat = lbStat] \in FedIngresses
        BY <3>1 DEF FedIngresses, Annotations
      <4> QED
        BY <1>1, <3>1, <3>3, <4>1 DEF PublishLBStatus, UpdateAndReturn, FedIngresses
    <3>4. ASSUME NEW c \in Clusters, Visit(c) PROVE Goal
      <4>1. Cached(c).obj # None => Cached(c).obj \in ClusterIngresses
        BY CachedFacts DEF ClusterVersions
      <4>2. CASE ElectFirstCluster(c)
        BY Zenon, <3>2, <4>2 DEF ElectFirstCluster
      <4>3. CASE TransferIP(c)
        BY Zenon, <3>2, <4>1, <4>3 DEF TransferIP, ClusterIngresses, Annotations
      <4>4. CASE TransferStatus(c)
        BY Zenon, <3>2, <4>1, <4>4 DEF TransferStatus, ClusterIngresses
      <4>5. CASE SelectorError(c) \/ QueueCreate(c) \/ QueueRemove(c) \/ QueueUpdate(c)
        BY Zenon, <1>3, <4>5 DEF SelectorError, QueueCreate, QueueRemove, QueueUpdate,
           Continue, apiVars
      <4> QED
        BY <3>4, <4>2, <4>3, <4>4, <4>5 DEF Visit
    <3> QED
      BY <2>2, <3>3, <3>4
  <2>3. CASE HandleDeletion
    <3>1. PICK p : fed' = fed \/ (Finalizers \subseteq base.obj.finalizers
                                    /\ (UpdateOK(p) \/ UpdateFails(p)))
      BY Zenon, <2>3 DEF HandleDeletion, RemoveFinalizers
    <3> QED
      BY <1>3, <3>1, UpdateRemoves DEF Finalizers
  <2>4. CASE DeleteFromClusters
    BY Zenon, <1>3, <2>4 DEF DeleteFromClusters, apiVars
  <2>5. CASE DeleteByName
    <3> DEFINE d == [fed.obj EXCEPT !.deleting = TRUE]
    <3>1. d \in FedIngresses /\ d.finalizers # {}
      BY Zenon, <1>0 DEF FedIngresses
    <3>2. fed' = fed \/ FedWrite(Stored(d))
      BY Zenon, <2>5 DEF DeleteByName
    <3> QED
      BY <1>2, <1>3, <3>1, <3>2 DEF Stored
  <2>6. CASE \/ Start \/ GetReadyClusters \/ Dispatch \/ UpdateTimeout
             \/ \E op \in ops : OpSucceeds(op) \/ OpFails(op)
    BY Zenon, <1>3, <2>6 DEF Start, GetReadyClusters, Dispatch, UpdateTimeout,
       OpSucceeds, OpFails,
       apiVars
  <2> QED
    BY <1>4, <2>1, <2>2, <2>3, <2>4, <2>5, <2>6 DEF Handler
<1>5. CASE Informers \/ \E op \in detached : DetachedOp(op)
  BY Zenon, <1>3, <1>5 DEF Informers, DeliverFed, DeliverCluster, SyncInformer,
     ReconcileOnClusterChange, DetachedOp, apiVars
<1>6. CASE Environment
  <2>1. ASSUME NEW content \in Contents, UserCreate(content) \/ UserEdit(content)
        PROVE  FALSE
    <3> DEFINE p == [fed.obj EXCEPT !.spec = content.spec, !.ann.type = content.type,
                                    !.ann.selector = content.selector]
    <3>1. FedWrite(p)
      BY <2>1 DEF UserCreate, UserEdit
    <3>2. p \in FedIngresses
      BY ZenonT(30), <1>0, ContentsAssumption DEF FedIngresses, Annotations
    <3> QED
      BY <1>2, <3>1, <3>2
  <2>2. ASSUME NEW orphan \in BOOLEAN, UserDelete(orphan)
        PROVE  FALSE
    <3> DEFINE fs == IF orphan THEN fed.obj.finalizers \cup {"orphan"}
                     ELSE fed.obj.finalizers \ {"orphan"}
               p == [fed.obj EXCEPT !.deleting = TRUE, !.finalizers = fs]
    <3>1. fs \in SUBSET Finalizers /\ fs # {}
      BY DEF Finalizers
    <3>2. FedWrite(Stored(p))
      BY <2>2 DEF UserDelete
    <3> HIDE DEF fs
    <3>3. p \in FedIngresses /\ p.finalizers # {}
      BY Zenon, <1>0, <3>1 DEF FedIngresses
    <3> QED
      BY <1>2, <3>2, <3>3 DEF Stored
  <2>3. CASE \/ \E c \in Clusters : \/ \E a \in Addrs \cup {None} : ClusterSetsLB(c, a)
                                    \/ ClusterReportsIP(c) \/ ClusterFlips(c)
             \/ Restart
    BY Zenon, <1>3, <2>3 DEF ClusterSetsLB, ClusterReportsIP, ClusterFlips, Restart
  <2> QED
    BY Zenon, <1>6, <2>1, <2>2, <2>3 DEF Environment
<1>7. CASE UNCHANGED vars
  BY <1>3, <1>7 DEF vars, apiVars
<1> QED
  BY <1>4, <1>5, <1>6, <1>7 DEF Next

\* What the deletion helper knows of the clusters that had caught up at its read:
\* there is no ingress, and no request is on its way that would create one.
Empty(c) ==
  /\ c \in Clusters /\ cl[c].obj = None
  /\ \A op \in detached : op.kind = "add" => op.cluster # c

ClearInv == \A c \in clear : pc = "remove" /\ Empty(c)

\* The handler reads the stores on its way to the Update, and finds nothing.
LEMMA ReadStep ==
  ASSUME IInv, StoreInv, [Next]_vars, pc # "remove", pc' = "remove",
         NEW c \in Clusters, CaughtUp(c)
  PROVE  Empty(c)'
<1> USE DEF handlerVars, apiVars
<1>1. CASE DeleteFromClusters
  BY <1>1 DEF DeleteFromClusters, Return, CaughtUp, StoreInv, Empty
<1>2. CASE Handler /\ ~DeleteFromClusters
  <2>1. pc' # "remove" \/ pc' = pc
    BY ZenonT(30), <1>2 DEF Handler, Start, EnsureFinalizers, GetReadyClusters, Visit,
       SelectorError, ElectFirstCluster, QueueCreate, QueueRemove, TransferIP,
       TransferStatus, QueueUpdate, Continue, UpdateAndReturn, PublishLBStatus, Dispatch,
       OpSucceeds, OpFails, UpdateTimeout, HandleDeletion, RemoveDeleteFinalizer,
       RemoveFinalizers, DeleteByName, Return
  <2> QED
    BY <2>1
<1>3. CASE Informers \/ \E op \in detached : DetachedOp(op)
  BY Zenon, <1>3 DEF Informers, DeliverFed, DeliverCluster, SyncInformer,
     ReconcileOnClusterChange, DetachedOp
<1>4. CASE Environment
  BY Zenon, <1>4 DEF Environment, UserCreate, UserEdit, UserDelete, ClusterSetsLB,
     ClusterReportsIP, ClusterFlips, Restart
<1>5. CASE UNCHANGED vars
  BY <1>5 DEF vars
<1> QED
  BY <1>1, <1>2, <1>3, <1>4, <1>5 DEF Next

\* Until the Update, only requests that were on their way change such a cluster,
\* and they cannot create its ingress.
LEMMA EmptyStays ==
  ASSUME IInv, [Next]_vars, pc = "remove", pc' = "remove", NEW c, Empty(c)
  PROVE  Empty(c)'
<1> USE DEF Empty, handlerVars, apiVars
<1>1. CASE Handler
  <2>1. CASE RemoveDeleteFinalizer
    BY <2>1 DEF RemoveDeleteFinalizer, RemoveFinalizers, Return
  <2>2. CASE ~RemoveDeleteFinalizer
    BY Zenon, <1>1, <2>2 DEF Handler, Start, EnsureFinalizers, GetReadyClusters, Visit,
       SelectorError, ElectFirstCluster, QueueCreate, QueueRemove, TransferIP,
       TransferStatus, QueueUpdate, Visiting, PublishLBStatus, Dispatch,
       OpSucceeds, OpFails, UpdateTimeout, HandleDeletion, DeleteFromClusters, DeleteByName
  <2> QED
    BY <2>1, <2>2
<1>2. CASE Informers
  BY <1>2 DEF Informers, DeliverFed, DeliverCluster, SyncInformer, ReconcileOnClusterChange
<1>3. ASSUME NEW op \in detached, DetachedOp(op) PROVE Empty(c)'
  <2>1. op \in Operations /\ cl \in [Clusters -> ClusterVersions]
    BY DEF IInv, TypeOK
  <2>2. CASE op.cluster = c /\ Succeeds(op) /\ ClusterWrite(op.cluster, Result(op))
    <3>1. op.kind = "delete" /\ op.obj = None
      BY <2>1, <2>2 DEF Succeeds, Operations
    <3>2. Result(op) = cl[c].obj
      BY <3>1 DEF Result
    <3> QED
      BY <1>3, <2>2, <3>2 DEF ClusterWrite, DetachedOp
  <2>3. CASE op.cluster # c /\ ClusterWrite(op.cluster, Result(op))
    BY <1>3, <2>1, <2>3 DEF ClusterWrite, DetachedOp
  <2>4. CASE UNCHANGED <<cl, clWatch>>
    BY <1>3, <2>4 DEF DetachedOp
  <2> QED
    BY Zenon, <1>3, <2>2, <2>3, <2>4 DEF DetachedOp
<1>4. CASE Environment
  <2>1. ASSUME NEW d \in Clusters, NEW o, cl[d].obj # None, ClusterWrite(d, o),
               UNCHANGED detached
        PROVE  Empty(c)'
    BY <2>1 DEF ClusterWrite, IInv, TypeOK
  <2>2. CASE \E d \in Clusters : \/ \E a \in Addrs \cup {None} : ClusterSetsLB(d, a)
                                 \/ ClusterReportsIP(d)
    BY Zenon, <2>1, <2>2 DEF ClusterSetsLB, ClusterReportsIP
  <2>3. CASE Restart
    BY <2>3 DEF Restart
  <2> QED
    BY Zenon, <1>4, <2>2, <2>3 DEF Environment, UserCreate, UserEdit, UserDelete, ClusterFlips
<1>5. CASE UNCHANGED vars
  BY <1>5 DEF vars
<1> QED
  BY <1>1, <1>2, <1>3, <1>4, <1>5 DEF Next

\* The history variable restricts nothing: the controller behaves as Spec says.
LEMMA HistoryIsSpec == SpecH => Spec
<1>1. [NextH]_varsH => [Next]_vars
  BY DEF NextH, varsH
<1> QED
  BY <1>1, PTL DEF SpecH, InitH, Spec

\* A cascading deletion removes the finalizer only after a read of the stores that
\* showed no ingress, so what it leaves behind is in clusters that were not synced
\* then, whose events were still on their way, or that had a late request coming
\* (HandleObjectInUnderlyingClusters): nothing that happens between the read and
\* the Update adds to these.
THEOREM DeletionSeesStores == SpecH => DeletionSeesAll
<1>1. InitH => ClearInv
  BY DEF InitH, ClearInv
<1>2. IInv /\ StoreInv /\ ClearInv /\ [NextH]_varsH => ClearInv'
  <2> SUFFICES ASSUME IInv, StoreInv, ClearInv, [NextH]_varsH PROVE ClearInv'
    OBVIOUS
  <2>1. CASE UNCHANGED varsH
    BY <2>1 DEF varsH, vars, apiVars, handlerVars, ClearInv, Empty
  <2>2. CASE NextH
    <3>1. CASE pc' # "remove"
      BY <2>2, <3>1 DEF NextH, Observe, ClearInv
    <3>2. CASE pc = "remove" /\ pc' = "remove"
      BY <2>2, <3>2, EmptyStays DEF NextH, Observe, ClearInv
    <3>3. CASE pc # "remove" /\ pc' = "remove"
      BY <2>2, <3>3, ReadStep DEF NextH, Observe, ClearInv
    <3> QED
      BY <3>1, <3>2, <3>3
  <2> QED
    BY <2>1, <2>2
<1>3. IInv /\ ClearInv /\ [NextH]_varsH
        => [DeletionEnds => pc = "remove" /\ \A c \in clear : cl[c].obj = None]_varsH
  BY RemovalStep DEF NextH, DeletionEnds, RemoveDeleteFinalizer, ClearInv, Empty
<1> QED
  BY <1>1, <1>2, <1>3, HistoryIsSpec, Invariance, StoresFollow, PTL DEF SpecH, DeletionSeesAll
=============================================================================
