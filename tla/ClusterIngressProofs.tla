----------------------- MODULE ClusterIngressProofs -----------------------
(***************************************************************************)
(* Proof that reconcileIngress never takes away the IP annotation that a   *)
(* cluster's own controller wrote (ClusterAnnotationKept), however stale   *)
(* the store the update was made from and however late it arrives.  The    *)
(* invariant ClusterInv says why: a version in a store is the version on   *)
(* the API server or an older one, and an update that still carries the    *)
(* current resource version carries the current annotation.                *)
(***************************************************************************)
EXTENDS IngressControllerProofs

HasIP(v) == v.obj # None /\ v.obj.ann.static # None

\* Cluster c's API server is at op.rv or past it, and where it is at op.rv, op
\* brings an IP annotation if there is one.
UpToDate(op, v) ==
  /\ op.rv <= v.rv
  /\ op.rv = v.rv /\ HasIP(v) => op.obj.ann.static # None

\* Resource versions identify the content of a cluster's ingress.
ClusterVersionsAgree ==
  \A c \in Clusters : \A v \in ClusterCopies(c) \cup {NoVersion} :
    v.rv <= cl[c].rv /\ (v.rv = cl[c].rv => v = cl[c])

\* An update under way is up to date or will be refused.
UpdatesAgree ==
  \A op \in ops \cup detached : op.kind = "update" => UpToDate(op, cl[op.cluster])

ClusterInv == ClusterVersionsAgree /\ UpdatesAgree

-----------------------------------------------------------------------------
(* What a step may do to the clusters' ingresses *)

\* Each stays, or gets the next version with the IP annotation it had.
ClusterStep ==
  \A c \in Clusters :
    \/ cl'[c] = cl[c]
    \/ /\ cl'[c].rv = cl[c].rv + 1
       /\ HasIP(cl[c]) /\ cl'[c].obj # None => HasIP(cl'[c])

\* Stores and watches are filled from the API server.
ClusterCopiesStep ==
  \A c \in Clusters : ClusterCopies(c)' \subseteq ClusterCopies(c) \cup {cl'[c], NoVersion}

\* Updates are made from a store.
UpdatesStep ==
  \A op \in (ops \cup detached)' :
    op.kind = "update" => op \in ops \cup detached \/ UpToDate(op, cl[op.cluster])

KeepingStep == ClusterStep /\ ClusterCopiesStep /\ UpdatesStep

\* What keeping steps add up to.
LEMMA KeepingStepKeepsInv ==
  ASSUME TypeOK, TypeOK', ClusterInv, KeepingStep
  PROVE  ClusterInv'
<1> USE DEF KeepingStep, ClusterInv
<1>1. ASSUME NEW c \in Clusters
      PROVE  cl[c] \in ClusterVersions /\ cl'[c] \in ClusterVersions
  BY DEF TypeOK
<1>2. ASSUME NEW c \in Clusters, NEW v \in ClusterCopies(c)' \cup {NoVersion}
      PROVE  v.rv <= cl'[c].rv /\ (v.rv = cl'[c].rv => v = cl'[c])
  <2>1. CASE v = cl'[c]
    BY <1>1, <2>1 DEF ClusterVersions
  <2>2. CASE v \in ClusterCopies(c) \cup {NoVersion}
    <3>1. v.rv \in Nat /\ cl[c].rv \in Nat /\ cl'[c].rv \in Nat
      BY <1>1, <2>2 DEF ClusterCopies, TypeOK, ClusterVersions, NoVersion
    <3>2. v.rv <= cl[c].rv /\ (v.rv = cl[c].rv => v = cl[c])
      BY <2>2 DEF ClusterVersionsAgree
    <3> QED
      BY <3>1, <3>2 DEF ClusterStep
  <2> QED
    BY <1>2, <2>1, <2>2 DEF ClusterCopiesStep
<1>3. ASSUME NEW op \in (ops \cup detached)', op.kind = "update"
      PROVE  UpToDate(op, cl'[op.cluster])
  <2>1. op.cluster \in Clusters /\ op.rv \in Nat
    BY <1>3 DEF TypeOK, Operations
  <2>2. UpToDate(op, cl[op.cluster])
    BY <1>3 DEF UpdatesStep, UpdatesAgree
  <2>3. cl[op.cluster].rv \in Nat
    BY <1>1, <2>1 DEF ClusterVersions
  <2> QED
    BY <2>1, <2>2, <2>3 DEF ClusterStep, UpToDate
<1>4. ClusterVersionsAgree'
  BY <1>2 DEF ClusterVersionsAgree
<1>5. UpdatesAgree'
  BY <1>3 DEF UpdatesAgree
<1> QED
  BY <1>4, <1>5

-----------------------------------------------------------------------------
(* Every action is a keeping step *)

\* Steps that leave the clusters and their stores alone and make no update.
LEMMA QuietKeeps ==
  ASSUME UNCHANGED <<cl, clWatch, clCache>>,
         \A op \in (ops \cup detached)' : op \in ops \cup detached \/ op.kind # "update"
  PROVE  KeepingStep
<1>1. ClusterStep /\ ClusterCopiesStep
  BY DEF ClusterStep, ClusterCopiesStep, ClusterCopies
<1>2. UpdatesStep
  BY DEF UpdatesStep
<1> QED
  BY <1>1, <1>2 DEF KeepingStep

\* A write of o in cluster c that does not take the annotation away.
LEMMA ClusterWriteKeeps ==
  ASSUME TypeOK, NEW c \in Clusters, NEW o, ClusterWrite(c, o), UNCHANGED clCache,
         HasIP(cl[c]) /\ o # None => o.ann.static # None,
         (ops \cup detached)' \subseteq ops \cup detached
  PROVE  KeepingStep
<1> DEFINE n == [rv |-> cl[c].rv + 1, obj |-> o]
<1>1. /\ n.rv = cl[c].rv + 1 /\ n.obj = o
      /\ HasIP(cl[c]) /\ n.obj # None => HasIP(n)
  BY DEF HasIP
<1> HIDE DEF n
<1>2. \/ UNCHANGED <<cl, clWatch>>
      \/ /\ cl' = [cl EXCEPT ![c] = n]
         /\ clWatch' = [clWatch EXCEPT ![c] = IF c \in synced THEN @ \cup {n} ELSE {}]
  BY DEF ClusterWrite, n
<1>3. ClusterStep
  BY <1>1, <1>2 DEF ClusterStep, TypeOK
<1>4. ClusterCopiesStep
  BY <1>2 DEF ClusterCopiesStep, ClusterCopies, TypeOK
<1>5. UpdatesStep
  BY DEF UpdatesStep
<1> QED
  BY <1>3, <1>4, <1>5 DEF KeepingStep

\* The handler up to the dispatch of the operations, and its deletion branch.
LEMMA HandlerKeeps ==
  ASSUME TypeOK,
         \/ Start \/ EnsureFinalizers \/ GetReadyClusters \/ PublishLBStatus \/ Dispatch
         \/ UpdateTimeout \/ HandleDeletion \/ DeleteFromClusters
         \/ RemoveDeleteFinalizer \/ DeleteByName
  PROVE  KeepingStep
<1> USE DEF apiVars, cacheVars, Return
<1>1. CASE Start \/ GetReadyClusters \/ Dispatch \/ UpdateTimeout
  BY <1>1, QuietKeeps DEF Start, GetReadyClusters, Dispatch, UpdateTimeout
<1>2. CASE EnsureFinalizers \/ PublishLBStatus \/ DeleteByName
  BY <1>2, QuietKeeps DEF EnsureFinalizers, PublishLBStatus, UpdateAndReturn, DeleteByName
<1>3. CASE HandleDeletion \/ RemoveDeleteFinalizer
  BY <1>3, QuietKeeps DEF HandleDeletion, RemoveDeleteFinalizer, RemoveFinalizers
<1>4. CASE DeleteFromClusters
  BY <1>4, QuietKeeps DEF DeleteFromClusters, DeleteOp
<1> QED
  BY <1>1, <1>2, <1>3, <1>4

\* An iteration of the loop: only QueueUpdate makes an update, and Merge keeps
\* the annotation of the version it was made from.
LEMMA VisitKeeps ==
  ASSUME IInv, ClusterInv, NEW c \in Clusters, Visit(c)
  PROVE  KeepingStep
<1> USE DEF apiVars, cacheVars
<1>1. CASE SelectorError(c) \/ ElectFirstCluster(c) \/ TransferIP(c) \/ TransferStatus(c)
  <2>1. UNCHANGED <<cl, clWatch, clCache, detached>> /\ ops' = {}
    BY <1>1 DEF SelectorError, ElectFirstCluster, TransferIP, TransferStatus,
                UpdateAndReturn, Return
  <2> QED
    BY <2>1, QuietKeeps
<1>2. CASE QueueCreate(c) \/ QueueRemove(c)
  BY <1>2, QuietKeeps DEF QueueCreate, QueueRemove, Continue, DeleteOp
<1>3. CASE QueueUpdate(c)
  <2> DEFINE v == Cached(c)
             want == [v.obj EXCEPT !.spec = base.obj.spec,
                                   !.ann = Merge(base.obj.ann, v.obj.ann)]
             op == [kind |-> "update", cluster |-> c, rv |-> v.rv, obj |-> want]
  <2>1. /\ UNCHANGED <<cl, clWatch, clCache, detached>> /\ ops' \subseteq ops \cup {op}
        /\ v.obj # None
    BY <1>3 DEF QueueUpdate, Continue
  <2>2. v.obj \in ClusterIngresses /\ v \in ClusterCopies(c)
    BY <2>1, CachedFacts DEF ClusterVersions, Cached, NoVersion, ClusterCopies
  <2>3. want.ann = Merge(base.obj.ann, v.obj.ann)
    BY <2>2 DEF ClusterIngresses
  <2>4. v.obj.ann.static # None => want.ann.static # None
    BY <2>3 DEF Merge, Over
  <2>5. v.rv <= cl[c].rv /\ (v.rv = cl[c].rv => v = cl[c])
    BY <2>2 DEF ClusterInv, ClusterVersionsAgree
  <2>6. op.rv = v.rv /\ op.obj = want /\ op.cluster = c
    OBVIOUS
  <2> HIDE DEF op, want, v
  <2>7. UpToDate(op, cl[op.cluster])
    BY <2>4, <2>5, <2>6 DEF UpToDate, HasIP
  <2>8. UpdatesStep
    BY <2>1, <2>7 DEF UpdatesStep
  <2>9. ClusterStep /\ ClusterCopiesStep
    BY <2>1 DEF ClusterStep, ClusterCopiesStep, ClusterCopies
  <2> QED
    BY <2>8, <2>9 DEF KeepingStep
<1> QED
  BY <1>1, <1>2, <1>3 DEF Visit

\* An operation that succeeds: an add finds nothing, a delete leaves nothing, and
\* an update has the current resource version.
LEMMA ResultKeeps ==
  ASSUME TypeOK, ClusterInv, NEW op \in ops \cup detached, Succeeds(op),
         HasIP(cl[op.cluster]), Result(op) # None
  PROVE  Result(op).ann.static # None
<1>1. op \in Operations
  BY DEF TypeOK
<1>2. op.kind = "update" /\ op.rv = cl[op.cluster].rv
  BY <1>1 DEF Succeeds, HasIP, Result, Operations
<1>3. op.obj \in ClusterIngresses /\ op.obj.ann.static # None
  BY <1>1, <1>2 DEF ClusterInv, UpdatesAgree, UpToDate, Operations
<1>4. Result(op).ann = op.obj.ann
  BY <1>2, <1>3 DEF Result, ClusterIngresses
<1> QED
  BY <1>3, <1>4

\* Operations of an Update call the handler waits for, or has given up.
LEMMA OperationKeeps ==
  ASSUME IInv, ClusterInv, NEW op \in ops \cup detached,
         OpSucceeds(op) \/ OpFails(op) \/ DetachedOp(op)
  PROVE  KeepingStep
<1> USE DEF cacheVars, handlerVars, Return
<1>1. op.cluster \in Clusters /\ TypeOK
  BY DEF IInv, TypeOK, Operations
<1>2. UNCHANGED clCache /\ (ops \cup detached)' \subseteq ops \cup detached
  BY DEF OpSucceeds, OpFails, DetachedOp
<1>3. \/ UNCHANGED <<cl, clWatch>>
      \/ Succeeds(op) /\ ClusterWrite(op.cluster, Result(op))
  BY DEF OpSucceeds, OpFails, DetachedOp
<1>4. CASE UNCHANGED <<cl, clWatch>>
  BY <1>2, <1>4, QuietKeeps
<1>5. CASE Succeeds(op) /\ ClusterWrite(op.cluster, Result(op))
  BY <1>1, <1>2, <1>5, ResultKeeps, ClusterWriteKeeps
<1> QED
  BY <1>3, <1>4, <1>5

\* Stores follow the API server, are emptied or are left alone; a restart hands
\* the operations over.
LEMMA StoresKeep ==
  ASSUME IInv,
         \/ DeliverFed \/ ReconcileOnClusterChange \/ Restart
         \/ \E c \in Clusters : DeliverCluster(c) \/ SyncInformer(c) \/ ClusterFlips(c)
  PROVE  KeepingStep
<1> USE DEF apiVars, cacheVars, handlerVars
<1>1. CASE DeliverFed \/ ReconcileOnClusterChange
  BY <1>1, QuietKeeps DEF DeliverFed, ReconcileOnClusterChange
<1>2. ASSUME UNCHANGED cl, (ops \cup detached)' \subseteq ops \cup detached,
             \A c \in Clusters : ClusterCopies(c)' \subseteq ClusterCopies(c) \cup {NoVersion}
      PROVE  KeepingStep
  BY <1>2 DEF KeepingStep, ClusterStep, ClusterCopiesStep, UpdatesStep
<1>3. CASE Restart
  <2>1. \A c \in Clusters : ClusterCopies(c)' \subseteq ClusterCopies(c) \cup {NoVersion}
    BY <1>3 DEF Restart, ClusterCopies
  <2>2. UNCHANGED cl /\ (ops \cup detached)' \subseteq ops \cup detached
    BY <1>3 DEF Restart
  <2> QED
    BY <1>2, <2>1, <2>2
<1>4. ASSUME NEW c \in Clusters, DeliverCluster(c) \/ SyncInformer(c) \/ ClusterFlips(c)
      PROVE  KeepingStep
  <2>1. \A d \in Clusters : ClusterCopies(d)' \subseteq ClusterCopies(d) \cup {NoVersion}
    <3>1. CASE DeliverCluster(c)
      BY <3>1 DEF DeliverCluster, IInv, TypeOK, ClusterCopies
    <3>2. CASE SyncInformer(c)
      BY <3>2 DEF SyncInformer, IInv, TypeOK, ClusterCopies
    <3>3. CASE ClusterFlips(c)
      BY <3>3 DEF ClusterFlips, StopInformer, IInv, TypeOK, ClusterCopies
    <3> QED
      BY <1>4, <3>1, <3>2, <3>3
  <2>2. UNCHANGED cl /\ (ops \cup detached)' \subseteq ops \cup detached
    BY <1>4 DEF DeliverCluster, SyncInformer, ClusterFlips
  <2> QED
    BY <1>2, <2>1, <2>2
<1> QED
  BY <1>1, <1>3, <1>4

\* A cluster's own controller replaces the annotation by another IP at most.
LEMMA ClusterControllerKeeps ==
  ASSUME IInv, NEW c \in Clusters, NEW a \in Addrs \cup {None},
         ClusterSetsLB(c, a) \/ ClusterReportsIP(c)
  PROVE  KeepingStep
<1> USE DEF cacheVars, handlerVars
<1>1. TypeOK /\ cl[c].obj \in ClusterIngresses
  BY DEF IInv, TypeOK, ClusterVersions, ClusterSetsLB, ClusterReportsIP
<1>2. UNCHANGED clCache /\ (ops \cup detached)' \subseteq ops \cup detached
  BY DEF ClusterSetsLB, ClusterReportsIP
<1>3. CASE ClusterSetsLB(c, a)
  <2> DEFINE o == [cl[c].obj EXCEPT !.lb = a]
  <2>1. ClusterWrite(c, o) /\ o.ann = cl[c].obj.ann
    BY <1>1, <1>3 DEF ClusterSetsLB, ClusterIngresses
  <2> HIDE DEF o
  <2>2. HasIP(cl[c]) => o.ann.static # None
    BY <2>1 DEF HasIP
  <2> QED
    BY <1>1, <1>2, <2>1, <2>2, ClusterWriteKeeps
<1>4. CASE ClusterReportsIP(c)
  <2> DEFINE o == [cl[c].obj EXCEPT !.ann.static = StaticIP(c)]
  <2>1. ClusterWrite(c, o) /\ o.ann.static = StaticIP(c)
    BY <1>1, <1>4 DEF ClusterReportsIP, ClusterIngresses, Annotations
  <2> HIDE DEF o
  <2>2. StaticIP(c) # None
    BY NoneIsNoCluster DEF StaticIP, Over
  <2> QED
    BY <1>1, <1>2, <2>1, <2>2, ClusterWriteKeeps
<1> QED
  BY <1>3, <1>4

-----------------------------------------------------------------------------
(* The theorems *)

\* Every step from a state of the invariants is keeping.
LEMMA NextKeeps == IInv /\ ClusterInv /\ [Next]_vars => KeepingStep
<1> SUFFICES ASSUME IInv, ClusterInv, [Next]_vars PROVE KeepingStep
  OBVIOUS
<1>1. TypeOK /\ None \in Addrs \cup {None}
  BY DEF IInv
<1>2. CASE Handler
  <2>1. CASE \E c \in Clusters : Visit(c)
    BY <2>1, VisitKeeps
  <2>2. CASE \E op \in ops : OpSucceeds(op) \/ OpFails(op)
    BY <2>2, OperationKeeps
  <2> QED
    BY <1>1, <1>2, <2>1, <2>2, HandlerKeeps DEF Handler
<1>3. CASE Informers
  BY <1>3, StoresKeep DEF Informers
<1>4. CASE \E op \in detached : DetachedOp(op)
  BY <1>4, OperationKeeps
<1>5. CASE Environment
  <2>1. CASE \E content \in Contents : UserCreate(content) \/ UserEdit(content)
    BY <2>1, QuietKeeps DEF UserCreate, UserEdit, cacheVars, handlerVars
  <2>2. CASE \E orphan \in BOOLEAN : UserDelete(orphan)
    BY <2>2, QuietKeeps DEF UserDelete, cacheVars, handlerVars
  <2>3. CASE \E c \in Clusters : \/ \E a \in Addrs \cup {None} : ClusterSetsLB(c, a)
                                 \/ ClusterReportsIP(c) \/ ClusterFlips(c)
    BY <1>1, <2>3, ClusterControllerKeeps, StoresKeep
  <2> QED
    BY <1>5, <2>1, <2>2, <2>3, StoresKeep DEF Environment
<1>6. CASE UNCHANGED vars
  BY <1>6, QuietKeeps DEF vars, apiVars, cacheVars, handlerVars
<1> QED
  BY <1>2, <1>3, <1>4, <1>5, <1>6 DEF Next

\* Stores and updates under way agree with the clusters' API servers on what a
\* resource version stands for, in every reachable state.
THEOREM ClusterInvariance == Spec => []ClusterInv
<1>1. Init => ClusterInv
  BY DEF Init, ClusterInv, ClusterVersionsAgree, UpdatesAgree, ClusterCopies, NoVersion
<1>2. IInv /\ IInv' /\ ClusterInv /\ [Next]_vars => ClusterInv'
  BY NextKeeps, KeepingStepKeepsInv DEF IInv
<1> QED
  BY <1>1, <1>2, Invariance, PTL DEF Spec

\* What a cluster's own controller wrote survives the updates of ll. 905-943,
\* for any clusters, any staleness of the stores and any late operation.
THEOREM ClusterAnnotationStays == Spec => ClusterAnnotationKept
<1> DEFINE Kept == \A c \in Clusters :
             (cl[c].obj # None /\ cl'[c].obj # None /\ cl[c].obj.ann.static # None)
               => cl'[c].obj.ann.static # None
<1>1. IInv /\ ClusterInv /\ [Next]_vars => [Kept]_vars
  BY NextKeeps DEF KeepingStep, ClusterStep, HasIP
<1> QED
  BY <1>1, Invariance, ClusterInvariance, PTL DEF Spec, ClusterAnnotationKept
=============================================================================
