----------------------- MODULE OneIncarnationProofs -----------------------
(***************************************************************************)
(* Proofs about the life of one federated ingress, from its creation to    *)
(* its removal: at most one cluster allocates its IP (OneAllocator) and an *)
(* orphaning deletion removes nothing (OrphansKept), for any clusters,     *)
(* manifests, failures, timeouts and restarts.  Both need to know what     *)
(* every stale copy, queued operation and late request may still hold; a   *)
(* second ingress of the same name would find the first one's remains, so  *)
(* both speak of the first.                                                *)
(***************************************************************************)
EXTENDS IngressControllerProofs

\* Federated ingress o is on its way out, and takes the clusters' ingresses along.
Cascading(o) == o # None /\ o.deleting /\ "orphan" \notin o.finalizers

\* Every operation given to the updater that may still be applied.
Pending == ops \cup detached

\* Nothing has been created yet.
Blank ==
  /\ \A v \in FedCopies \cup {fed} : v.obj = None
  /\ \A c \in Clusters : \A v \in ClusterCopies(c) : v.obj = None
  /\ Pending = {}

\* Budgets only go down; the clusters are ready until one flips.
BudgetInv ==
  /\ budget.create <= Budget.create /\ budget.flip <= Budget.flip
  /\ budget.create = Budget.create => Blank
  /\ budget.flip = Budget.flip => ready = Clusters

\* No stale copy and no request under way would cascade a deletion that the
\* federated ingress itself does not ask for.
OrphanInv ==
  /\ \A v \in FedCopies \cup {fed} : v.obj # None => Content(v.obj) \in Contents
  /\ pc = "finalize" => ~base.obj.deleting
  /\ OneIncarnation /\ fed.obj # None =>
       /\ \A v \in FedCopies : Cascading(v.obj) => Cascading(fed.obj)
       /\ \A op \in Pending : op.kind = "delete" /\ AlwaysSent(op.cluster) => Cascading(fed.obj)

\* Annotations a of the federated ingress know of no first cluster and no IP but f.
FedAgrees(a, f) ==
  a.first \in {None, f} /\ a.ip \in {None, f} /\ a.static = None /\ a.type = "global"

\* Those of an ingress of cluster c know of no IP but f's, and only f has none given.
ClusterAgrees(c, a, f) ==
  a.static \in {None, f} /\ a.ip \in {None, f} /\ (a.ip = None => c = f)

\* Every copy and every operation knows of no other cluster than f.
Shared(f) ==
  /\ \A v \in FedCopies \cup {fed} : v.obj # None => FedAgrees(v.obj.ann, f)
  /\ \A c \in Clusters : \A v \in ClusterCopies(c) :
       v.obj # None => ClusterAgrees(c, v.obj.ann, f)
  /\ \A op \in Pending : op.obj # None => ClusterAgrees(op.cluster, op.obj.ann, f)

\* f is the only cluster that was ever elected; none was when f = None.
Agreed(f) ==
  /\ Shared(f)
  /\ fed.obj # None /\ fed.obj.ann.first = None => f = None

\* The condition of OneAllocator.
OneElection ==
  /\ OneIncarnation /\ budget.flip = Budget.flip
  /\ \A content \in Contents : content.type = "global"

AllocatorInv == OneElection => \E f \in Clusters \cup {None} : Agreed(f)

-----------------------------------------------------------------------------
(* What a step does to budgets and clusters' readiness *)

BudgetStep ==
  /\ budget'.create <= budget.create /\ budget'.flip <= budget.flip
  /\ ready' = ready \/ budget'.flip < budget.flip

\* Spending an event lowers its budget and no other.
LEMMA SpendLowers ==
  ASSUME TypeOK, NEW e \in Events, Spend(e)
  PROVE  /\ budget'[e] = budget[e] - 1 /\ budget[e] > 0
         /\ \A x \in Events : budget'[x] <= budget[x] /\ budget[x] \in Nat /\ budget'[x] \in Nat
BY DEF TypeOK, Spend

\* Every step spends at most its own events, and readiness changes only with a flip.
LEMMA NextBudget == IInv /\ [Next]_vars => BudgetStep
<1> SUFFICES ASSUME IInv, [Next]_vars PROVE BudgetStep
  OBVIOUS
<1> USE DEF cacheVars
<1>0. TypeOK /\ budget.create \in Nat /\ budget.flip \in Nat
  BY DEF IInv, TypeOK, Events
<1>1. ASSUME UNCHANGED ready, UNCHANGED budget \/ \E e \in Events : Spend(e)
      PROVE  BudgetStep
  <2>1. CASE UNCHANGED budget
    BY <1>0, <1>1, <2>1 DEF BudgetStep
  <2>2. ASSUME NEW e \in Events, Spend(e) PROVE BudgetStep
    BY <1>0, <1>1, <2>2, SpendLowers DEF BudgetStep, Events
  <2> QED
    BY <1>1, <2>1, <2>2
<1>2. ASSUME NEW o, UpdateOK(o) \/ UpdateFails(o)
      PROVE  UNCHANGED budget \/ \E e \in Events : Spend(e)
  BY <1>2 DEF UpdateOK, UpdateFails, Events
<1>3. ASSUME NEW o, UpdateAndReturn(o) PROVE BudgetStep
  BY <1>1, <1>2, <1>3 DEF UpdateAndReturn
<1>4. CASE Handler
  <2>1. CASE Start \/ GetReadyClusters \/ Dispatch
    BY Zenon, <1>1, <2>1 DEF Start, GetReadyClusters, Dispatch
  <2>2. CASE EnsureFinalizers
    BY Zenon, <1>1, <1>2, <2>2 DEF EnsureFinalizers
  <2>3. CASE PublishLBStatus
    BY <1>3, <2>3 DEF PublishLBStatus
  <2>4. CASE HandleDeletion \/ DeleteFromClusters \/ RemoveDeleteFinalizer
    BY Zenon, <1>1, <1>2, <2>4 DEF HandleDeletion, DeleteFromClusters,
       RemoveDeleteFinalizer, RemoveFinalizers
  <2>5. CASE DeleteByName
    BY Zenon, <1>1, <2>5 DEF DeleteByName, Events
  <2>6. ASSUME NEW c \in Clusters, Visit(c) PROVE BudgetStep
    <3>1. CASE ElectFirstCluster(c) \/ TransferIP(c) \/ TransferStatus(c)
      BY <1>3, <3>1 DEF ElectFirstCluster, TransferIP, TransferStatus
    <3>2. CASE SelectorError(c) \/ QueueCreate(c) \/ QueueRemove(c) \/ QueueUpdate(c)
      BY Zenon, <1>1, <3>2 DEF SelectorError, QueueCreate, QueueRemove, QueueUpdate, Continue
    <3> QED
      BY <2>6, <3>1, <3>2 DEF Visit
  <2>7. CASE UpdateTimeout \/ \E op \in ops : OpSucceeds(op) \/ OpFails(op)
    BY Zenon, <1>1, <2>7 DEF UpdateTimeout, OpSucceeds, OpFails, Events
  <2> QED
    BY <1>4, <2>1, <2>2, <2>3, <2>4, <2>5, <2>6, <2>7 DEF Handler
<1>5. CASE Informers \/ \E op \in detached : DetachedOp(op)
  BY <1>1, <1>5 DEF Informers, DeliverFed, DeliverCluster, SyncInformer,
     ReconcileOnClusterChange, DetachedOp
<1>6. CASE Environment
  <2>1. ASSUME NEW c \in Clusters, ClusterFlips(c) PROVE BudgetStep
    BY <1>0, <2>1, SpendLowers DEF ClusterFlips, BudgetStep, Events
  <2>2. CASE ~ \E c \in Clusters : ClusterFlips(c)
    BY Zenon, <1>1, <1>6, <2>2 DEF Environment, UserCreate, UserEdit, UserDelete,
       ClusterSetsLB,
       ClusterReportsIP, Restart, Events
  <2> QED
    BY <2>1, <2>2
<1>7. CASE UNCHANGED vars
  BY <1>1, <1>7 DEF vars
<1> QED
  BY <1>4, <1>5, <1>6, <1>7 DEF Next

-----------------------------------------------------------------------------
(* What a step does to the federated ingress *)

\* What an edit keeps: who asked for the deletion; the first cluster while it is
\* ready; the IP, except that it may be taken from a cluster's ingress.
FedEdit(o, p) ==
  /\ o # None /\ p # None
  /\ Cascading(o) => Cascading(p)
  /\ p.ann.static = o.ann.static
  /\ \/ p.ann.first = o.ann.first
     \/ p.ann.first \in Clusters /\ (o.ann.first = None \/ o.ann.first \notin ready)
  /\ \/ p.ann.ip = o.ann.ip
     \/ \E c \in Clusters : Cached(c).obj # None /\ p.ann.ip = Cached(c).obj.ann.static

\* A new federated ingress.
FedCreated ==
  /\ fed.obj = None /\ fed'.obj # None /\ budget'.create = budget.create - 1
  /\ LET a == fed'.obj.ann IN a.first = None /\ a.ip = None /\ a.static = None

FedDetail == fed' = fed \/ fed'.obj = None \/ FedEdit(fed.obj, fed'.obj) \/ FedCreated

\* A checked update to an edit of base edits the federated ingress.
LEMMA UpdateEdits ==
  ASSUME IInv, NEW p \in FedIngresses, UpdateOK(p) \/ UpdateFails(p),
         FedEdit(base.obj, p)
  PROVE  FedDetail
<1>1. CASE UNCHANGED fed
  BY <1>1 DEF FedDetail
<1>2. CASE fed.rv = base.rv /\ FedWrite(Stored(p))
  <2>1. base = fed
    BY <1>2 DEF IInv, VersionsAgree, FedCopies
  <2>2. fed' = fed \/ fed'.obj \in {None, p}
    BY <1>2 DEF FedWrite, Stored
  <2> QED
    BY <2>1, <2>2 DEF FedDetail
<1> QED
  BY <1>1, <1>2 DEF UpdateOK, UpdateFails

\* A change of finalizers is an edit, if it leaves a deletion without orphan alone.
LEMMA FinalizersEdit ==
  ASSUME NEW o \in FedIngresses, NEW fs \in SUBSET Finalizers,
         NEW del \in BOOLEAN, o.deleting => del,
         o.deleting /\ "orphan" \notin o.finalizers => "orphan" \notin fs
  PROVE  LET p == [o EXCEPT !.deleting = del, !.finalizers = fs] IN
         p \in FedIngresses /\ FedEdit(o, p)
<1> DEFINE p == [o EXCEPT !.deleting = del, !.finalizers = fs]
<1>1. p \in FedIngresses /\ p.ann = o.ann /\ p.deleting = del /\ p.finalizers = fs
  BY Zenon DEF FedIngresses
<1>2. o # None /\ p # None
  BY <1>1, NoneAssumption
<1> QED
  BY <1>1, <1>2 DEF FedEdit, Cascading

\* What the reconciler writes to the federated ingress.
LEMMA HandlerFed == ASSUME IInv, OrphanInv, Handler PROVE FedDetail
<1> USE DEF apiVars
<1>0. base.obj # None => base.obj \in FedIngresses
  BY DEF IInv, TypeOK, FedVersions
<1>1. CASE \/ Start \/ GetReadyClusters \/ Dispatch \/ UpdateTimeout
           \/ \E op \in ops : OpSucceeds(op) \/ OpFails(op)
  BY Zenon, <1>1 DEF FedDetail, Start, GetReadyClusters, Dispatch, UpdateTimeout,
     OpSucceeds, OpFails
<1>2. CASE EnsureFinalizers
  <2> DEFINE o == [base.obj EXCEPT !.finalizers = Finalizers]
             p == [base.obj EXCEPT !.deleting = base.obj.deleting, !.finalizers = Finalizers]
  <2>1. base.obj \in FedIngresses /\ ~base.obj.deleting
    BY <1>0, <1>2 DEF EnsureFinalizers, OrphanInv, IInv, HandlerKnows
  <2>2. p \in FedIngresses /\ FedEdit(base.obj, p)
    BY Zenon, <2>1, FinalizersEdit DEF FedIngresses
  <2>3. o = p
    BY Zenon, <2>1 DEF FedIngresses
  <2>4. UNCHANGED fed \/ UpdateOK(o) \/ UpdateFails(o)
    BY Zenon, <1>2 DEF EnsureFinalizers
  <2> QED
    BY <2>2, <2>3, <2>4, UpdateEdits DEF FedDetail
<1>3. CASE HandleDeletion \/ DeleteFromClusters \/ RemoveDeleteFinalizer
  <2> DEFINE o(fs) == [base.obj EXCEPT !.finalizers = @ \ fs]
             p(fs) == [base.obj EXCEPT !.deleting = base.obj.deleting,
                                       !.finalizers = base.obj.finalizers \ fs]
  <2>1. PICK fs : UNCHANGED fed \/ UpdateOK(o(fs)) \/ UpdateFails(o(fs))
    BY Zenon, <1>3 DEF HandleDeletion, DeleteFromClusters, RemoveDeleteFinalizer,
       RemoveFinalizers, apiVars
  <2>2. base.obj \in FedIngresses
    BY Zenon, <1>0, <1>3 DEF HandleDeletion, DeleteFromClusters, RemoveDeleteFinalizer,
       IInv, HandlerKnows
  <2>3. p(fs) \in FedIngresses /\ FedEdit(base.obj, p(fs))
    BY Zenon, <2>2, FinalizersEdit DEF FedIngresses
  <2>4. o(fs) = p(fs)
    BY Zenon, <2>2 DEF FedIngresses
  <2> QED
    BY <2>1, <2>3, <2>4, UpdateEdits DEF FedDetail
<1>4. CASE DeleteByName
  <2> DEFINE o == [fed.obj EXCEPT !.deleting = TRUE]
  <2>1. CASE fed.obj = None
    BY Zenon, <1>4, <2>1 DEF DeleteByName, FedWrite, FedDetail
  <2>2. CASE fed.obj # None
    <3>1. fed.obj \in FedIngresses
      BY <2>2 DEF IInv, TypeOK, FedVersions
    <3>2. /\ o \in FedIngresses /\ o.deleting
          /\ o.finalizers = fed.obj.finalizers /\ o.ann = fed.obj.ann
      BY Zenon, <3>1 DEF FedIngresses
    <3>3. FedEdit(fed.obj, o)
      BY Zenon, <2>2, <3>2, NoneAssumption DEF FedEdit, Cascading
    <3>4. UNCHANGED fed \/ FedWrite(Stored(o))
      BY Zenon, <1>4, <2>2 DEF DeleteByName
    <3>5. fed' = fed \/ fed'.obj \in {None, o}
      BY <3>4 DEF FedWrite, Stored
    <3> QED
      BY Zenon, <3>3, <3>5 DEF FedDetail
  <2> QED
    BY <2>1, <2>2
<1>5. CASE PublishLBStatus
  <2> DEFINE p == [base.obj EXCEPT !.ann.lbstat = lbStat]
  <2>1. base.obj \in FedIngresses /\ lbStat \in LBStats
    BY <1>0, <1>5 DEF PublishLBStatus, IInv, HandlerKnows, TypeOK
  <2>2. /\ p \in FedIngresses /\ p.deleting = base.obj.deleting
        /\ p.finalizers = base.obj.finalizers /\ p.ann.static = base.obj.ann.static
        /\ p.ann.first = base.obj.ann.first /\ p.ann.ip = base.obj.ann.ip
    BY <2>1 DEF FedIngresses, Annotations
  <2>3. FedEdit(base.obj, p)
    BY <2>1, <2>2, NoneAssumption DEF FedEdit, Cascading
  <2>4. UpdateOK(p) \/ UpdateFails(p)
    BY <1>5 DEF PublishLBStatus, UpdateAndReturn
  <2> QED
    BY <2>2, <2>3, <2>4, UpdateEdits
<1>6. ASSUME NEW c \in Clusters, Visit(c) PROVE FedDetail
  <2>1. base.obj \in FedIngresses
    BY Zenon, <1>0, <1>6 DEF Visit, SelectorError, ElectFirstCluster, QueueCreate, QueueRemove,
       TransferIP, TransferStatus, QueueUpdate, Visiting, IInv, HandlerKnows
  <2>2. Cached(c).obj # None => Cached(c).obj \in ClusterIngresses
    BY CachedFacts DEF ClusterVersions
  <2>3. CASE ElectFirstCluster(c)
    <3> DEFINE p == [base.obj EXCEPT !.ann.first = c]
    <3>1. /\ p \in FedIngresses /\ p.deleting = base.obj.deleting
          /\ p.finalizers = base.obj.finalizers /\ p.ann.static = base.obj.ann.static
          /\ p.ann.first = c /\ p.ann.ip = base.obj.ann.ip
      BY <2>1 DEF FedIngresses, Annotations
    <3>2. FedEdit(base.obj, p)
      BY <2>1, <2>3, <3>1, NoneAssumption
         DEF FedEdit, Cascading, ElectFirstCluster, HaveFirstCluster
    <3>3. UpdateOK(p) \/ UpdateFails(p)
      BY <2>3 DEF ElectFirstCluster, UpdateAndReturn
    <3> QED
      BY <3>1, <3>2, <3>3, UpdateEdits
  <2>4. CASE TransferIP(c)
    <3> DEFINE ip == Cached(c).obj.ann.static
               p == [base.obj EXCEPT !.ann.ip = ip]
    <3>1. ip \in Clusters \cup {None} /\ Cached(c).obj # None
      BY <2>2, <2>4 DEF TransferIP, ClusterIngresses, Annotations
    <3>2. UpdateOK(p) \/ UpdateFails(p)
      BY <2>4 DEF TransferIP, UpdateAndReturn
    <3> HIDE DEF ip
    <3>3. /\ p \in FedIngresses /\ p.deleting = base.obj.deleting
          /\ p.finalizers = base.obj.finalizers /\ p.ann.static = base.obj.ann.static
          /\ p.ann.first = base.obj.ann.first /\ p.ann.ip = ip
      BY <2>1, <3>1 DEF FedIngresses, Annotations
    <3>4. FedEdit(base.obj, p)
      BY <2>1, <3>1, <3>3, NoneAssumption DEF FedEdit, Cascading, ip
    <3> QED
      BY <3>2, <3>3, <3>4, UpdateEdits
  <2>5. CASE TransferStatus(c)
    <3> DEFINE a == Cached(c).obj.lb
               p == [base.obj EXCEPT !.status = a]
    <3>1. a \in Addrs \cup {None}
      BY <2>2, <2>5 DEF TransferStatus, ClusterIngresses
    <3>2. UpdateOK(p) \/ UpdateFails(p)
      BY <2>5 DEF TransferStatus, UpdateAndReturn
    <3> HIDE DEF a
    <3>3. /\ p \in FedIngresses /\ p.deleting = base.obj.deleting
          /\ p.finalizers = base.obj.finalizers /\ p.ann = base.obj.ann
      BY <2>1, <3>1 DEF FedIngresses
    <3>4. FedEdit(base.obj, p)
      BY <2>1, <3>3, NoneAssumption DEF FedEdit, Cascading
    <3> QED
      BY <3>2, <3>3, <3>4, UpdateEdits
  <2>6. CASE SelectorError(c) \/ QueueCreate(c) \/ QueueRemove(c) \/ QueueUpdate(c)
    BY Zenon, <2>6 DEF FedDetail, SelectorError, QueueCreate, QueueRemove, QueueUpdate,
       Continue
  <2> QED
    BY <1>6, <2>3, <2>4, <2>5, <2>6 DEF Visit
<1> QED
  BY <1>1, <1>2, <1>3, <1>4, <1>5, <1>6 DEF Handler

\* Users create an ingress without annotations of the controller, or edit one that
\* is not being deleted.
LEMMA UserFed ==
  ASSUME IInv, NEW content \in Contents, NEW orphan \in BOOLEAN,
         UserCreate(content) \/ UserEdit(content) \/ UserDelete(orphan)
  PROVE  FedDetail
<1>0. /\ content \in [spec: Specs, type: {None, "global"}, selector: Selectors]
      /\ fed.obj # None => fed.obj \in FedIngresses
  BY ContentsAssumption DEF IInv, TypeOK, FedVersions
<1>1. CASE UserCreate(content)
  <2> DEFINE p == NewFed(content, fed.rv + 1)
  <2>1. /\ p \in FedIngresses
        /\ p.ann.first = None /\ p.ann.ip = None /\ p.ann.static = None
    BY <1>0 DEF NewFed, UserAnn, FedIngresses, Annotations, IInv, TypeOK, FedVersions
  <2>2. /\ fed.obj = None /\ FedWrite(p) /\ Spend("create")
    BY <1>1 DEF UserCreate
  <2>3. budget'.create = budget.create - 1
    BY <2>2, SpendLowers DEF IInv, Events
  <2> HIDE DEF p
  <2>4. fed'.obj = p
    BY <2>1, <2>2 DEF FedWrite
  <2> QED
    BY <2>1, <2>2, <2>3, <2>4, NoneAssumption DEF FedDetail, FedCreated
<1>2. CASE UserEdit(content)
  <2> DEFINE p == [fed.obj EXCEPT !.spec = content.spec, !.ann.type = content.type,
                                  !.ann.selector = content.selector]
  <2>1. fed.obj \in FedIngresses /\ ~fed.obj.deleting /\ FedWrite(p)
    BY <1>0, <1>2 DEF UserEdit
  <2>2. /\ p \in FedIngresses /\ p.ann.static = fed.obj.ann.static
        /\ p.ann.first = fed.obj.ann.first /\ p.ann.ip = fed.obj.ann.ip
    BY Zenon, <1>0, <2>1 DEF FedIngresses, Annotations
  <2> HIDE DEF p
  <2>3. FedEdit(fed.obj, p)
    BY <2>1, <2>2, NoneAssumption DEF FedEdit, Cascading
  <2> QED
    BY <2>1, <2>3 DEF FedDetail, FedWrite
<1>3. CASE UserDelete(orphan)
  <2> DEFINE fs == IF orphan THEN fed.obj.finalizers \cup {"orphan"}
                   ELSE fed.obj.finalizers \ {"orphan"}
             p == [fed.obj EXCEPT !.deleting = TRUE, !.finalizers = fs]
  <2>1. fed.obj \in FedIngresses /\ ~fed.obj.deleting /\ FedWrite(Stored(p))
    BY <1>0, <1>3 DEF UserDelete
  <2>2. fs \in SUBSET Finalizers
    BY <2>1 DEF FedIngresses, Finalizers
  <2> HIDE DEF fs
  <2>3. p \in FedIngresses /\ p.ann = fed.obj.ann
    BY Zenon, <2>1, <2>2 DEF FedIngresses
  <2> HIDE DEF p
  <2>4. FedEdit(fed.obj, p)
    BY <2>1, <2>3, NoneAssumption DEF FedEdit, Cascading
  <2> QED
    BY <2>1, <2>4 DEF FedDetail, FedWrite, Stored
<1> QED
  BY <1>1, <1>2, <1>3

\* What any step writes to the federated ingress.
LEMMA NextFed == IInv /\ OrphanInv /\ [Next]_vars => FedDetail
<1> SUFFICES ASSUME IInv, OrphanInv, [Next]_vars PROVE FedDetail
  OBVIOUS
<1> USE DEF apiVars
<1>1. CASE Informers \/ \E op \in detached : DetachedOp(op)
  BY <1>1 DEF FedDetail, Informers, DeliverFed, DeliverCluster, SyncInformer,
     ReconcileOnClusterChange, DetachedOp
<1>2. CASE Environment
  <2>1. intent \in Contents /\ TRUE \in BOOLEAN
    BY DEF IInv, TypeOK
  <2>2. CASE \/ \E content \in Contents : UserCreate(content) \/ UserEdit(content)
             \/ \E orphan \in BOOLEAN : UserDelete(orphan)
    BY Zenon, <2>1, <2>2, UserFed
  <2>3. CASE \/ \E c \in Clusters : \/ \E a \in Addrs \cup {None} : ClusterSetsLB(c, a)
                                    \/ ClusterReportsIP(c) \/ ClusterFlips(c)
             \/ Restart
    BY Zenon, <2>3 DEF FedDetail, ClusterSetsLB, ClusterReportsIP, ClusterFlips, Restart
  <2> QED
    BY <1>2, <2>2, <2>3 DEF Environment
<1>3. CASE UNCHANGED vars
  BY <1>3 DEF FedDetail, vars
<1> QED
  BY <1>1, <1>2, <1>3, HandlerFed DEF Next

-----------------------------------------------------------------------------
(* What a step does to the operations *)

\* Where a new operation comes from: delete from a cascading deletion or a selector,
\* add from base once it may be created, update from base and the cluster's store.
NewOp(op) ==
  /\ base.obj # None
  /\ \/ op.kind = "delete" /\ op.obj = None /\ Cascading(base.obj)
     \/ /\ op.kind = "delete" /\ op.obj = None
        /\ base.obj.ann.selector # Malformed /\ ~Send(op.cluster, base.obj.ann)
     \/ /\ op.kind = "add" /\ op.obj.ann = base.obj.ann
        /\ HaveFirstCluster /\ MayCreate(op.cluster)
     \/ /\ op.kind = "update" /\ Cached(op.cluster).obj # None
        /\ op.obj.ann = Merge(base.obj.ann, Cached(op.cluster).obj.ann)

OpsDetail == \A op \in Pending' : op \in Pending \/ NewOp(op)

\* Where the operations of the updater come from.
LEMMA NextOps == IInv /\ [Next]_vars => OpsDetail
<1> SUFFICES ASSUME IInv, [Next]_vars PROVE OpsDetail
  OBVIOUS
<1> USE DEF handlerVars
<1>1. ASSUME Pending' \subseteq Pending PROVE OpsDetail
  BY <1>1 DEF OpsDetail
<1>2. ASSUME NEW o, UpdateAndReturn(o) PROVE OpsDetail
  BY <1>1, <1>2 DEF UpdateAndReturn, Return, Pending
<1>3. CASE Handler
  <2>1. CASE Start \/ GetReadyClusters \/ Dispatch
    BY <1>1, <2>1 DEF Start, GetReadyClusters, Dispatch, Return, Pending
  <2>2. CASE EnsureFinalizers \/ HandleDeletion \/ RemoveDeleteFinalizer
    BY <1>1, <2>2 DEF EnsureFinalizers, HandleDeletion, RemoveDeleteFinalizer,
       RemoveFinalizers, Return, Pending
  <2>3. CASE PublishLBStatus
    BY <1>2, <2>3 DEF PublishLBStatus
  <2>4. CASE DeleteFromClusters
    <3>1. CASE ops' = {DeleteOp(c) : c \in {c \in synced : clCache[c].obj # None}}
      <4>1. /\ base.obj # None /\ Cascading(base.obj) /\ UNCHANGED detached
        BY <2>4 DEF DeleteFromClusters, IInv, HandlerKnows, Cascading
      <4>2. \A op \in ops' : op.kind = "delete" /\ op.obj = None
        BY <3>1 DEF DeleteOp
      <4> QED
        BY <4>1, <4>2 DEF OpsDetail, NewOp, Pending
    <3>2. CASE UNCHANGED ops \/ ops' = {}
      BY <1>1, <2>4, <3>2 DEF DeleteFromClusters, Pending
    <3> QED
      BY <2>4, <3>1, <3>2 DEF DeleteFromClusters, Return
  <2>5. CASE DeleteByName
    BY <1>1, <2>5 DEF DeleteByName, Return, Pending
  <2>6. ASSUME NEW c \in Clusters, Visit(c) PROVE OpsDetail
    <3>1. CASE ElectFirstCluster(c) \/ TransferIP(c) \/ TransferStatus(c)
      BY <1>2, <3>1 DEF ElectFirstCluster, TransferIP, TransferStatus
    <3>2. CASE SelectorError(c)
      BY <1>1, <3>2 DEF SelectorError, Return, Pending
    <3>3. base.obj # None
      BY Zenon, <2>6 DEF Visit, SelectorError, ElectFirstCluster, QueueCreate, QueueRemove,
         TransferIP, TransferStatus, QueueUpdate, Visiting, IInv, HandlerKnows
    <3>4. ASSUME NEW new, Continue(c, new), \A op \in new : NewOp(op) PROVE OpsDetail
      BY <3>4 DEF Continue, OpsDetail, Pending
    <3>5. CASE QueueCreate(c)
      <4> DEFINE op == [kind |-> "add", cluster |-> c, rv |-> 0,
                        obj |-> [owner |-> base.obj.uid, spec |-> base.obj.spec,
                                 ann |-> base.obj.ann, lb |-> None]]
                 new == IF MayCreate(c) THEN {op} ELSE {}
      <4>1. op.kind = "add" /\ op.cluster = c /\ op.obj.ann = base.obj.ann
        OBVIOUS
      <4>2. Continue(c, new) /\ HaveFirstCluster
        BY <3>5 DEF QueueCreate
      <4> HIDE DEF op
      <4>3. \A x \in new : NewOp(x)
        BY <3>3, <4>1, <4>2 DEF NewOp
      <4> QED
        BY <3>4, <4>2, <4>3
    <3>6. CASE QueueRemove(c)
      <4> DEFINE new == IF Cached(c).obj # None THEN {DeleteOp(c)} ELSE {}
      <4>1. Continue(c, new) /\ base.obj.ann.selector # Malformed /\ ~Send(c, base.obj.ann)
        BY <3>6 DEF QueueRemove, Selected
      <4>2. \A x \in new : NewOp(x)
        BY <3>3, <4>1 DEF NewOp, DeleteOp
      <4> QED
        BY <3>4, <4>1, <4>2
    <3>7. CASE QueueUpdate(c)
      <4> DEFINE v == Cached(c)
                 a == Merge(base.obj.ann, v.obj.ann)
                 want == [v.obj EXCEPT !.spec = base.obj.spec, !.ann = a]
                 op == [kind |-> "update", cluster |-> c, rv |-> v.rv, obj |-> want]
                 new == IF Equivalent(base.obj, v.obj) THEN {} ELSE {op}
      <4>1. v.obj # None /\ Continue(c, new)
        BY <3>7 DEF QueueUpdate
      <4>2. v.obj \in ClusterIngresses
        BY <4>1, CachedFacts DEF ClusterVersions
      <4> HIDE DEF a
      <4>3. op.kind = "update" /\ op.cluster = c /\ op.obj.ann = a
        BY Zenon, <4>2 DEF ClusterIngresses
      <4> HIDE DEF op
      <4>4. \A x \in new : NewOp(x)
        BY <3>3, <4>1, <4>3 DEF NewOp, a
      <4> QED
        BY <3>4, <4>1, <4>4
    <3> QED
      BY <2>6, <3>1, <3>2, <3>5, <3>6, <3>7 DEF Visit
  <2>7. CASE UpdateTimeout \/ \E op \in ops : OpSucceeds(op) \/ OpFails(op)
    BY <1>1, <2>7 DEF UpdateTimeout, OpSucceeds, OpFails, Return, Pending
  <2> QED
    BY <1>3, <2>1, <2>2, <2>3, <2>4, <2>5, <2>6, <2>7 DEF Handler
<1>4. CASE Informers \/ \E op \in detached : DetachedOp(op)
  BY <1>1, <1>4 DEF Informers, DeliverFed, DeliverCluster, SyncInformer,
     ReconcileOnClusterChange, DetachedOp, Pending
<1>5. CASE Environment
  BY Zenon, <1>1, <1>5 DEF Environment, UserCreate, UserEdit, UserDelete, ClusterSetsLB,
     ClusterReportsIP, ClusterFlips, Restart, Pending
<1>6. CASE UNCHANGED vars
  BY <1>1, <1>6 DEF vars, Pending
<1> QED
  BY <1>3, <1>4, <1>5, <1>6 DEF Next

-----------------------------------------------------------------------------
(* What a step does to the clusters' ingresses *)

\* Where the annotations of cluster c's ingress come from: an operation, or its
\* own ingress, to which c may add its static IP.
NewObject(c, o) ==
  \/ \E op \in Pending : op.cluster = c /\ op.obj # None /\ o.ann = op.obj.ann
  \/ /\ cl[c].obj # None
     /\ o.ann \in {cl[c].obj.ann, [cl[c].obj.ann EXCEPT !.static = StaticIP(c)]}

\* Copies come from copies or are new; only a delete operation removes an ingress.
ClusterDetail ==
  \A c \in Clusters :
    /\ \A v \in ClusterCopies(c)' :
         v \in ClusterCopies(c) \/ v.obj = None \/ NewObject(c, v.obj)
    /\ cl[c].obj # None /\ cl'[c].obj = None
         => \E op \in Pending : op.kind = "delete" /\ op.cluster = c

\* An operation that reaches its cluster leaves what the operation holds.
LEMMA WriteDetail ==
  ASSUME TypeOK, NEW c \in Clusters, NEW o, ClusterWrite(c, o), UNCHANGED clCache,
         o = None => \E op \in Pending : op.kind = "delete" /\ op.cluster = c,
         o # None => NewObject(c, o)
  PROVE  ClusterDetail
<1> DEFINE n == [rv |-> cl[c].rv + 1, obj |-> o]
<1>1. CASE UNCHANGED <<cl, clWatch>>
  BY <1>1 DEF ClusterDetail, ClusterCopies
<1>2. CASE /\ cl' = [cl EXCEPT ![c] = n]
           /\ clWatch' = [clWatch EXCEPT ![c] = IF c \in synced THEN @ \cup {n} ELSE {}]
  <2>1. n.obj = o
    OBVIOUS
  <2> HIDE DEF n
  <2>2. \A d \in Clusters \ {c} : cl'[d] = cl[d] /\ ClusterCopies(d)' = ClusterCopies(d)
    BY <1>2 DEF TypeOK, ClusterCopies
  <2>3. cl'[c] = n /\ ClusterCopies(c)' \subseteq ClusterCopies(c) \cup {n}
    BY <1>2 DEF TypeOK, ClusterCopies
  <2> QED
    BY <2>1, <2>2, <2>3 DEF ClusterDetail
<1> QED
  BY <1>1, <1>2 DEF ClusterWrite

\* An operation writes what it holds.
LEMMA OpDetail ==
  ASSUME IInv, NEW op \in Pending, Succeeds(op), ClusterWrite(op.cluster, Result(op)),
         UNCHANGED clCache
  PROVE  ClusterDetail
<1>1. op \in Operations /\ op.cluster \in Clusters /\ None \notin ClusterIngresses
  BY NoneAssumption DEF IInv, TypeOK, Pending, Operations
<1>2. CASE op.kind = "delete"
  <2>1. Result(op) = None
    BY <1>1, <1>2 DEF Operations, Result
  <2> QED
    BY <1>1, <1>2, <2>1, WriteDetail DEF IInv
<1>3. CASE op.kind # "delete"
  <2>1. op.obj \in ClusterIngresses
    BY <1>1, <1>3 DEF Operations
  <2>2. Result(op).ann = op.obj.ann
    BY <2>1 DEF Result, ClusterIngresses
  <2>3. Result(op) # None
    BY SMTT(30), <1>1, ResultFacts, <2>1, <2>2, <1>3 DEF Result, Pending, Operations,
       ClusterIngresses,
       Succeeds, IInv, TypeOK, ClusterVersions
  <2> QED
    BY <1>1, <2>1, <2>2, <2>3, WriteDetail DEF IInv, NewObject
<1> QED
  BY <1>2, <1>3

\* Where the clusters' ingresses and the copies of them come from.
LEMMA NextClusters == IInv /\ [Next]_vars => ClusterDetail
<1> SUFFICES ASSUME IInv, [Next]_vars PROVE ClusterDetail
  OBVIOUS
<1> USE DEF apiVars, cacheVars
<1>0. TypeOK /\ ops \subseteq Pending /\ detached \subseteq Pending
  BY DEF IInv, Pending
<1>1. ASSUME UNCHANGED cl,
             \A c \in Clusters : \A v \in ClusterCopies(c)' :
               v \in ClusterCopies(c) \/ v = NoVersion
      PROVE  ClusterDetail
  BY <1>1 DEF ClusterDetail, NoVersion
<1>2. ASSUME UNCHANGED <<cl, clWatch, clCache>> PROVE ClusterDetail
  BY <1>1, <1>2 DEF ClusterCopies
<1>3. CASE Handler
  <2>1. CASE Start \/ GetReadyClusters \/ Dispatch \/ UpdateTimeout \/ DeleteByName
    BY Zenon, <1>2, <2>1 DEF Start, GetReadyClusters, Dispatch, UpdateTimeout, DeleteByName
  <2>2. CASE \/ EnsureFinalizers \/ PublishLBStatus \/ HandleDeletion
             \/ DeleteFromClusters \/ RemoveDeleteFinalizer
    BY Zenon, <1>2, <2>2 DEF EnsureFinalizers, PublishLBStatus, UpdateAndReturn,
       HandleDeletion, DeleteFromClusters, RemoveDeleteFinalizer, apiVars, cacheVars
  <2>3. CASE \E c \in Clusters : Visit(c)
    BY Zenon, <1>2, <2>3 DEF Visit, SelectorError, ElectFirstCluster, QueueCreate, QueueRemove,
       TransferIP, TransferStatus, QueueUpdate, Continue, UpdateAndReturn
  <2>4. ASSUME NEW op \in ops, OpSucceeds(op) \/ OpFails(op) PROVE ClusterDetail
    <3>1. /\ UNCHANGED clCache
          /\ \/ UNCHANGED <<cl, clWatch>>
             \/ Succeeds(op) /\ ClusterWrite(op.cluster, Result(op))
      BY Zenon, <2>4 DEF OpSucceeds, OpFails
    <3> QED
      BY <1>0, <1>2, <3>1, OpDetail
  <2> QED
    BY <1>3, <2>1, <2>2, <2>3, <2>4 DEF Handler
<1>4. CASE Informers
  <2>1. CASE DeliverFed \/ ReconcileOnClusterChange
    BY <1>2, <2>1 DEF DeliverFed, ReconcileOnClusterChange
  <2>2. ASSUME NEW c \in Clusters, DeliverCluster(c) PROVE ClusterDetail
    <3>1. PICK v \in clWatch[c] : /\ clCache' = [clCache EXCEPT ![c] = v]
                                  /\ clWatch' = [clWatch EXCEPT ![c] = @ \ {v}]
      BY Zenon, <2>2 DEF DeliverCluster
    <3>2. UNCHANGED cl
      BY <2>2 DEF DeliverCluster
    <3>3. \A d \in Clusters : ClusterCopies(d)' \subseteq ClusterCopies(d)
      BY <1>0, <3>1, <3>2 DEF ClusterCopies, TypeOK
    <3> QED
      BY <1>1, <3>2, <3>3
  <2>3. ASSUME NEW c \in Clusters, SyncInformer(c) PROVE ClusterDetail
    <3>1. clCache' = [clCache EXCEPT ![c] = cl[c]] /\ UNCHANGED <<cl, clWatch>>
      BY <2>3 DEF SyncInformer
    <3>2. \A d \in Clusters : ClusterCopies(d)' \subseteq ClusterCopies(d)
      BY <1>0, <3>1 DEF ClusterCopies, TypeOK
    <3> QED
      BY <1>1, <3>1, <3>2
  <2> QED
    BY <1>4, <2>1, <2>2, <2>3 DEF Informers
<1>5. ASSUME NEW op \in detached, DetachedOp(op) PROVE ClusterDetail
  <2>1. /\ UNCHANGED clCache
        /\ \/ UNCHANGED <<cl, clWatch>>
           \/ Succeeds(op) /\ ClusterWrite(op.cluster, Result(op))
    BY <1>5 DEF DetachedOp
  <2> QED
    BY <1>0, <1>2, <2>1, OpDetail
<1>6. CASE Environment
  <2>1. CASE \/ \E content \in Contents : UserCreate(content) \/ UserEdit(content)
             \/ \E orphan \in BOOLEAN : UserDelete(orphan)
    BY Zenon, <1>2, <2>1 DEF UserCreate, UserEdit, UserDelete
  <2>2. ASSUME NEW c \in Clusters, NEW a \in Addrs \cup {None}, ClusterSetsLB(c, a)
        PROVE  ClusterDetail
    <3> DEFINE o == [cl[c].obj EXCEPT !.lb = a]
    <3>1. cl[c].obj # None /\ ClusterWrite(c, o) /\ UNCHANGED clCache
      BY <2>2 DEF ClusterSetsLB
    <3>2. cl[c].obj \in ClusterIngresses
      BY <1>0, <3>1 DEF TypeOK, ClusterVersions
    <3>3. o \in ClusterIngresses /\ o.ann = cl[c].obj.ann
      BY <3>2 DEF ClusterIngresses
    <3> QED
      BY Zenon, <1>0, <3>1, <3>3, WriteDetail, NoneAssumption DEF NewObject
  <2>3. ASSUME NEW c \in Clusters, ClusterReportsIP(c) PROVE ClusterDetail
    <3> DEFINE ip == StaticIP(c)
               o == [cl[c].obj EXCEPT !.ann.static = ip]
    <3>1. cl[c].obj # None /\ ClusterWrite(c, o) /\ UNCHANGED clCache
      BY <2>3 DEF ClusterReportsIP
    <3>2. cl[c].obj \in ClusterIngresses
      BY <1>0, <3>1 DEF TypeOK, ClusterVersions
    <3>3. ip \in Clusters \cup {None}
      BY <3>2 DEF StaticIP, Over, ClusterIngresses, Annotations
    <3> HIDE DEF ip
    <3>4. o \in ClusterIngresses /\ o.ann = [cl[c].obj.ann EXCEPT !.static = ip]
      BY <3>2, <3>3 DEF ClusterIngresses, Annotations
    <3> QED
      BY Zenon, <1>0, <3>1, <3>4, WriteDetail, NoneAssumption DEF NewObject, ip
  <2>4. ASSUME NEW c \in Clusters, ClusterFlips(c) PROVE ClusterDetail
    BY <1>0, <1>1, <2>4 DEF ClusterFlips, StopInformer, ClusterCopies, TypeOK
  <2>5. CASE Restart
    BY <1>0, <1>1, <2>5 DEF Restart, ClusterCopies, TypeOK
  <2> QED
    BY <1>6, <2>1, <2>2, <2>3, <2>4, <2>5 DEF Environment
<1>7. CASE UNCHANGED vars
  BY <1>2, <1>7 DEF vars
<1> QED
  BY <1>3, <1>4, <1>5, <1>6, <1>7 DEF Next

-----------------------------------------------------------------------------
(* The invariants *)

\* Nothing comes from nothing: before the first creation every step leaves all blank.
LEMMA BlankStep ==
  ASSUME IInv, Blank, GoodStep, FedDetail, OpsDetail, ClusterDetail
  PROVE  /\ Pending' = {}
         /\ \A c \in Clusters : \A v \in ClusterCopies(c)' : v.obj = None
         /\ \A v \in FedCopies' : v = fed' \/ v.obj = None
         /\ FedCreated \/ fed'.obj = None
<1>1. base.obj = None /\ fed.obj = None /\ Pending = {}
  BY DEF Blank, FedCopies
<1>2. Pending' = {}
  BY <1>1 DEF OpsDetail, NewOp
<1>3. ASSUME NEW c \in Clusters, NEW v \in ClusterCopies(c)' PROVE v.obj = None
  <2>1. cl[c].obj = None
    BY DEF Blank, ClusterCopies
  <2> QED
    BY <1>1, <2>1 DEF ClusterDetail, NewObject, Blank
<1>4. \A v \in FedCopies' : v = fed' \/ v.obj = None
  BY DEF GoodStep, CopiesStep, Blank, NoVersion
<1>5. FedCreated \/ fed'.obj = None
  BY <1>1 DEF FedDetail, FedEdit
<1> QED
  BY <1>2, <1>3, <1>4, <1>5

\* The steps keep what the budgets say.
LEMMA BudgetInvStep ==
  ASSUME IInv, BudgetInv, GoodStep, BudgetStep, FedDetail, OpsDetail, ClusterDetail
  PROVE  BudgetInv'
<1>1. /\ budget.create \in Nat /\ budget'.create \in Nat /\ Budget.create \in Nat
      /\ budget.flip \in Nat /\ budget'.flip \in Nat /\ Budget.flip \in Nat
  BY BudgetAssumption DEF IInv, GoodStep, TypeOK, Events
<1>2. budget'.create <= Budget.create /\ budget'.flip <= Budget.flip
  BY <1>1 DEF BudgetInv, BudgetStep
<1>3. ASSUME budget'.create = Budget.create PROVE Blank'
  <2>1. Blank /\ budget'.create = budget.create
    BY <1>1, <1>3 DEF BudgetInv, BudgetStep
  <2>2. ~FedCreated
    BY <1>1, <2>1 DEF FedCreated
  <2> QED
    BY <2>1, <2>2, BlankStep DEF Blank
<1>4. budget'.flip = Budget.flip => ready' = Clusters
  BY <1>1 DEF BudgetInv, BudgetStep
<1> QED
  BY <1>2, <1>3, <1>4 DEF BudgetInv

\* Only an ingress that is not being deleted gets its finalizers.
LEMMA NextFinalize ==
  ASSUME IInv, OrphanInv, [Next]_vars, pc' = "finalize"
  PROVE  ~base'.obj.deleting
<1> USE DEF handlerVars
<1>1. ASSUME pc' = pc /\ base' = base PROVE ~base'.obj.deleting
  BY <1>1 DEF OrphanInv
<1>2. CASE Handler
  <2>1. CASE Start
    BY <1>1, <2>1 DEF Start
  <2>2. CASE EnsureFinalizers \/ GetReadyClusters \/ PublishLBStatus \/ Dispatch
    BY <1>1, <2>2 DEF EnsureFinalizers, GetReadyClusters, PublishLBStatus, UpdateAndReturn,
       Dispatch, Return
  <2>3. CASE \E c \in Clusters : Visit(c)
    BY <1>1, <2>3 DEF Visit, SelectorError, ElectFirstCluster, QueueCreate, QueueRemove,
       TransferIP, TransferStatus, QueueUpdate, Continue, UpdateAndReturn, Return
  <2>4. CASE UpdateTimeout \/ \E op \in ops : OpSucceeds(op) \/ OpFails(op)
    BY <1>1, <2>4 DEF UpdateTimeout, OpSucceeds, OpFails, Return
  <2>5. CASE HandleDeletion \/ DeleteFromClusters \/ RemoveDeleteFinalizer \/ DeleteByName
    BY <1>1, <2>5 DEF HandleDeletion, DeleteFromClusters, RemoveDeleteFinalizer, DeleteByName,
       RemoveFinalizers, Return
  <2> QED
    BY <1>2, <2>1, <2>2, <2>3, <2>4, <2>5 DEF Handler
<1>3. CASE Informers \/ \E op \in detached : DetachedOp(op)
  BY <1>1, <1>3 DEF Informers, DeliverFed, DeliverCluster, SyncInformer,
     ReconcileOnClusterChange, DetachedOp
<1>4. CASE Environment
  BY Zenon, <1>1, <1>4 DEF Environment, UserCreate, UserEdit, UserDelete, ClusterSetsLB,
     ClusterReportsIP, ClusterFlips, Restart
<1>5. CASE UNCHANGED vars
  BY <1>1, <1>5 DEF vars
<1> QED
  BY <1>2, <1>3, <1>4, <1>5 DEF Next

\* A second creation ends the story of the first ingress.
LEMMA IncarnationStep ==
  ASSUME IInv, BudgetInv, GoodStep, BudgetStep, OneIncarnation'
  PROVE  OneIncarnation /\ (FedCreated => Blank)
<1>1. /\ budget.create \in Nat /\ budget'.create \in Nat /\ Budget.create \in Nat
  BY BudgetAssumption DEF IInv, GoodStep, TypeOK, Events
<1>2. OneIncarnation
  BY <1>1 DEF BudgetStep, OneIncarnation
<1>3. FedCreated => budget.create = Budget.create
  BY <1>1 DEF BudgetInv, OneIncarnation, FedCreated
<1> QED
  BY <1>2, <1>3 DEF BudgetInv

\* The steps keep the invariant of deletions.
LEMMA OrphanInvStep ==
  ASSUME IInv, BudgetInv, OrphanInv, [Next]_vars,
         GoodStep, BudgetStep, FedDetail, OpsDetail, ClusterDetail
  PROVE  OrphanInv'
<1>1. ASSUME NEW v \in FedCopies' \cup {fed'}, v.obj # None PROVE Content(v.obj) \in Contents
  <2>1. fed'.obj # None => Content(fed'.obj) = intent' /\ intent' \in Contents
    BY DEF GoodStep, NoLostEdit, TypeOK
  <2>2. v = fed' \/ v \in FedCopies
    BY <1>1 DEF GoodStep, CopiesStep, NoVersion
  <2> QED
    BY <1>1, <2>1, <2>2 DEF OrphanInv
<1>2. pc' = "finalize" => ~base'.obj.deleting
  BY NextFinalize
<1>3. ASSUME OneIncarnation', fed'.obj # None
      PROVE  /\ \A v \in FedCopies' : Cascading(v.obj) => Cascading(fed'.obj)
             /\ \A op \in Pending' :
                  op.kind = "delete" /\ AlwaysSent(op.cluster) => Cascading(fed'.obj)
  <2>1. OneIncarnation /\ (FedCreated => Blank)
    BY <1>3, IncarnationStep
  <2>2. CASE FedCreated
    <3>1. Pending' = {} /\ \A v \in FedCopies' : v = fed' \/ v.obj = None
      BY <2>1, <2>2, BlankStep
    <3> QED
      BY <3>1 DEF Cascading
  <2>3. CASE ~FedCreated
    <3>1. fed.obj # None /\ (Cascading(fed.obj) => Cascading(fed'.obj))
      BY <1>3, <2>3 DEF FedDetail, FedEdit
    <3>2. /\ \A v \in FedCopies : Cascading(v.obj) => Cascading(fed'.obj)
          /\ \A op \in Pending :
               op.kind = "delete" /\ AlwaysSent(op.cluster) => Cascading(fed'.obj)
      BY <2>1, <3>1 DEF OrphanInv
    <3>3. ASSUME NEW v \in FedCopies', Cascading(v.obj) PROVE Cascading(fed'.obj)
      BY <3>2, <3>3 DEF GoodStep, CopiesStep, NoVersion, Cascading
    <3>4. ASSUME NEW op, NewOp(op), op.kind = "delete", AlwaysSent(op.cluster)
          PROVE  Cascading(fed'.obj)
      <4>1. base \in FedCopies /\ base.obj # None
        BY <3>4 DEF NewOp, FedCopies
      <4>2. CASE Cascading(base.obj)
        BY <3>2, <4>1, <4>2
      <4>3. CASE base.obj.ann.selector # Malformed /\ ~Send(op.cluster, base.obj.ann)
        <5>1. /\ Content(base.obj) \in Contents
              /\ Content(base.obj).selector = base.obj.ann.selector
          BY <4>1 DEF OrphanInv, Content
        <5> QED
          BY <3>4, <4>3, <5>1 DEF AlwaysSent, Send
      <4> QED
        BY <3>4, <4>2, <4>3 DEF NewOp
    <3> QED
      BY <3>2, <3>3, <3>4 DEF OpsDetail
  <2> QED
    BY <2>2, <2>3
<1> QED
  BY <1>1, <1>2, <1>3 DEF OrphanInv

-----------------------------------------------------------------------------
(* One allocator *)

\* Before the election there is no ingress in any cluster.
LEMMA NobodyElected ==
  ASSUME Shared(None), IInv, NEW f \in Clusters
  PROVE  /\ \A c \in Clusters : \A v \in ClusterCopies(c) : v.obj = None
         /\ Shared(f)
<1>1. \A c \in Clusters : \A a : ~ClusterAgrees(c, a, None)
  BY NoneIsNoCluster DEF ClusterAgrees
<1>2. \A c \in Clusters : \A v \in ClusterCopies(c) : v.obj = None
  BY <1>1 DEF Shared
<1>3. \A op \in Pending : op.obj = None
  BY <1>1 DEF Shared, IInv, TypeOK, Pending, Operations
<1>4. \A a : FedAgrees(a, None) => FedAgrees(a, f)
  BY DEF FedAgrees
<1> QED
  BY <1>2, <1>3, <1>4 DEF Shared

\* What a store shows of cluster c knows of no other cluster either.
LEMMA CachedShared ==
  ASSUME IInv, NEW f, Shared(f), NEW c \in Clusters, Cached(c).obj # None
  PROVE  ClusterAgrees(c, Cached(c).obj.ann, f)
BY DEF Cached, NoVersion, Shared, ClusterCopies

\* Every step that leaves the first cluster to f keeps it so.
LEMMA SharedStep ==
  ASSUME IInv, GoodStep, FedDetail, OpsDetail, ClusterDetail, OrphanInv', ~FedCreated,
         \A content \in Contents : content.type = "global",
         NEW f \in Clusters \cup {None}, Shared(f),
         fed'.obj # None => fed'.obj.ann.first \in {None, f}
  PROVE  Shared(f)'
<1>1. fed'.obj # None => FedAgrees(fed'.obj.ann, f)
  <2> SUFFICES ASSUME fed'.obj # None, fed' # fed PROVE FedAgrees(fed'.obj.ann, f)
    BY DEF Shared
  <2>1. FedEdit(fed.obj, fed'.obj) /\ FedAgrees(fed.obj.ann, f)
    BY DEF FedDetail, FedEdit, Shared
  <2>2. fed'.obj.ann.type = "global"
    BY Zenon DEF OrphanInv, Content
  <2>3. \A c \in Clusters : Cached(c).obj # None => Cached(c).obj.ann.static \in {None, f}
    BY CachedShared DEF ClusterAgrees
  <2> QED
    BY <2>1, <2>2, <2>3 DEF FedAgrees, FedEdit
<1>2. ASSUME NEW v \in FedCopies' \cup {fed'}, v.obj # None PROVE FedAgrees(v.obj.ann, f)
  <2>1. v = fed' \/ v \in FedCopies
    BY <1>2 DEF GoodStep, CopiesStep, NoVersion
  <2> QED
    BY <1>1, <1>2, <2>1 DEF Shared
<1>3. ASSUME NEW c \in Clusters, NEW v \in ClusterCopies(c)', v.obj # None
      PROVE  ClusterAgrees(c, v.obj.ann, f)
  <2>1. CASE v \in ClusterCopies(c)
    BY <1>3, <2>1 DEF Shared
  <2>2. CASE \E op \in Pending : op.cluster = c /\ op.obj # None /\ v.obj.ann = op.obj.ann
    BY <2>2 DEF Shared
  <2>3. CASE /\ cl[c].obj # None
             /\ v.obj.ann \in {cl[c].obj.ann, [cl[c].obj.ann EXCEPT !.static = StaticIP(c)]}
    <3> DEFINE a == cl[c].obj.ann
               b == [a EXCEPT !.static = StaticIP(c)]
    <3>1. a \in Annotations /\ ClusterAgrees(c, a, f)
      BY <2>3 DEF IInv, TypeOK, ClusterVersions, ClusterIngresses, Shared, ClusterCopies
    <3>2. StaticIP(c) \in {None, f}
      BY <3>1 DEF StaticIP, Over, ClusterAgrees
    <3>3. b.ip = a.ip /\ b.static = StaticIP(c)
      BY <3>1 DEF Annotations
    <3>4. ClusterAgrees(c, b, f)
      BY <3>1, <3>2, <3>3 DEF ClusterAgrees
    <3> QED
      BY <2>3, <3>1, <3>4
  <2> QED
    BY <1>3, <2>1, <2>2, <2>3 DEF ClusterDetail, NewObject
<1>4. ASSUME NEW op \in Pending', op.obj # None
      PROVE  ClusterAgrees(op.cluster, op.obj.ann, f)
  <2>1. CASE op \in Pending
    BY <1>4, <2>1 DEF Shared
  <2>2. CASE NewOp(op)
    <3>1. /\ base.obj # None /\ FedAgrees(base.obj.ann, f)
          /\ op.cluster \in Clusters
      BY Zenon, <1>4, <2>2 DEF NewOp, Shared, FedCopies, GoodStep, TypeOK, Pending, Operations
    <3>2. CASE op.obj.ann = base.obj.ann /\ HaveFirstCluster /\ MayCreate(op.cluster)
      BY <3>1, <3>2, NoneIsNoType DEF FedAgrees, ClusterAgrees, HaveFirstCluster, MayCreate
    <3>3. CASE /\ Cached(op.cluster).obj # None
               /\ op.obj.ann = Merge(base.obj.ann, Cached(op.cluster).obj.ann)
      <4>1. ClusterAgrees(op.cluster, Cached(op.cluster).obj.ann, f)
        BY <3>1, <3>3, CachedShared
      <4>2. PICK a : a = op.obj.ann
        OBVIOUS
      <4>3. /\ a.static = Over(base.obj.ann.static, Cached(op.cluster).obj.ann.static)
            /\ a.ip = Over(base.obj.ann.ip, Cached(op.cluster).obj.ann.ip)
        BY <3>3, <4>2 DEF Merge
      <4>4. a.static \in {None, f} /\ a.ip \in {None, f}
        BY <3>1, <4>1, <4>3 DEF FedAgrees, ClusterAgrees, Over
      <4>5. a.ip = None => op.cluster = f
        BY <4>1, <4>3 DEF ClusterAgrees, Over
      <4> QED
        BY <4>2, <4>4, <4>5 DEF ClusterAgrees
    <3> QED
      BY <1>4, <2>2, <3>2, <3>3 DEF NewOp
  <2> QED
    BY <1>4, <2>1, <2>2 DEF OpsDetail
<1> QED
  BY <1>2, <1>3, <1>4 DEF Shared

\* The steps keep the one cluster that every copy and operation knows of.
LEMMA AllocatorInvStep ==
  ASSUME IInv, BudgetInv, OrphanInv', AllocatorInv,
         GoodStep, BudgetStep, FedDetail, OpsDetail, ClusterDetail
  PROVE  AllocatorInv'
<1> SUFFICES ASSUME OneElection' PROVE \E f \in Clusters \cup {None} : Agreed(f)'
  BY DEF AllocatorInv
<1>1. /\ OneIncarnation' /\ budget'.flip = Budget.flip
      /\ \A content \in Contents : content.type = "global"
  BY DEF OneElection
<1>2. OneIncarnation /\ (FedCreated => Blank)
  BY <1>1, IncarnationStep
<1>3. budget.flip = Budget.flip /\ ready = Clusters
  <2>1. budget.flip \in Nat /\ budget'.flip \in Nat /\ Budget.flip \in Nat
    BY BudgetAssumption DEF IInv, GoodStep, TypeOK, Events
  <2> QED
    BY <1>1, <2>1 DEF BudgetInv, BudgetStep
<1>4. PICK f \in Clusters \cup {None} : Agreed(f)
  BY <1>1, <1>2, <1>3 DEF AllocatorInv, OneElection
<1>5. CASE FedCreated
  <2>1. /\ Pending' = {}
        /\ \A c \in Clusters : \A v \in ClusterCopies(c)' : v.obj = None
        /\ \A v \in FedCopies' : v = fed' \/ v.obj = None
    BY <1>2, <1>5, BlankStep
  <2>2. FedAgrees(fed'.obj.ann, None)
    BY Zenon, <1>1, <1>5 DEF FedCreated, FedAgrees, OrphanInv, Content
  <2>3. Agreed(None)'
    BY <2>1, <2>2 DEF Agreed, Shared
  <2> QED
    BY <2>3
<1>6. CASE ~FedCreated /\ (fed'.obj = None \/ fed'.obj.ann.first = fed.obj.ann.first)
  <2>1. fed'.obj # None => fed.obj # None
    BY <1>6 DEF FedDetail, FedEdit
  <2>2. fed'.obj # None => fed'.obj.ann.first \in {None, f}
    BY <1>4, <1>6, <2>1 DEF Agreed, Shared, FedAgrees
  <2>3. Shared(f)'
    BY <1>1, <1>4, <1>6, <2>2, SharedStep DEF Agreed
  <2>4. Agreed(f)'
    BY <1>4, <1>6, <2>1, <2>3 DEF Agreed
  <2> QED
    BY <2>4
<1>7. CASE ~FedCreated /\ fed'.obj # None /\ fed'.obj.ann.first # fed.obj.ann.first
  <2>1. FedEdit(fed.obj, fed'.obj)
    BY <1>7 DEF FedDetail
  <2>2. fed.obj.ann.first \in Clusters \cup {None}
    BY <2>1 DEF FedEdit, IInv, TypeOK, FedVersions, FedIngresses, Annotations
  <2>3. PICK g \in Clusters : g = fed'.obj.ann.first /\ fed.obj.ann.first = None
    BY <1>3, <1>7, <2>1, <2>2 DEF FedEdit
  <2>4. Shared(g)
    BY <1>4, <2>1, <2>3, NobodyElected DEF Agreed, FedEdit
  <2>5. Shared(g)'
    BY <1>1, <1>7, <2>3, <2>4, SharedStep
  <2>6. Agreed(g)'
    BY <2>3, <2>5, NoneIsNoCluster DEF Agreed
  <2> QED
    BY <2>6
<1> QED
  BY <1>5, <1>6, <1>7

-----------------------------------------------------------------------------
(* Theorems *)

IncarnationInv == BudgetInv /\ OrphanInv /\ AllocatorInv

\* What the copies and requests of the first federated ingress may hold, in every
\* reachable state.
THEOREM OneLife == Spec => []IncarnationInv
<1>1. Init => IncarnationInv
  <2> SUFFICES ASSUME Init PROVE IncarnationInv
    OBVIOUS
  <2>1. Blank
    BY DEF Init, Blank, FedCopies, ClusterCopies, Pending, NoVersion
  <2>2. budget = Budget /\ ready = Clusters /\ pc = "idle"
    BY DEF Init
  <2>3. BudgetInv
    BY <2>1, <2>2, BudgetAssumption DEF BudgetInv, Events
  <2>4. OrphanInv
    BY <2>1, <2>2 DEF OrphanInv, Blank
  <2>5. Agreed(None)
    BY <2>1 DEF Agreed, Shared, Blank
  <2> QED
    BY <2>3, <2>4, <2>5 DEF IncarnationInv, AllocatorInv
<1>2. IInv /\ IncarnationInv /\ [Next]_vars => IncarnationInv'
  <2> SUFFICES ASSUME IInv, IncarnationInv, [Next]_vars PROVE IncarnationInv'
    OBVIOUS
  <2>1. GoodStep /\ BudgetStep /\ FedDetail /\ OpsDetail /\ ClusterDetail
    BY NextGood, NextBudget, NextFed, NextOps, NextClusters DEF IncarnationInv
  <2>2. BudgetInv'
    BY <2>1, BudgetInvStep DEF IncarnationInv
  <2>3. OrphanInv'
    BY <2>1, OrphanInvStep DEF IncarnationInv
  <2>4. AllocatorInv'
    BY <2>1, <2>3, AllocatorInvStep DEF IncarnationInv
  <2> QED
    BY <2>2, <2>3, <2>4 DEF IncarnationInv
<1> QED
  BY <1>1, <1>2, Invariance, PTL DEF Spec

\* While no cluster turns unready, one cluster at most allocates an IP for a global
\* ingress: the election of the first cluster and the resource version check leave
\* no stale base with which a second one could be made (ll. 819-868).
THEOREM AtMostOneAllocator == Spec => []OneAllocator
<1>1. AllocatorInv => OneAllocator
  <2> SUFFICES ASSUME AllocatorInv, OneElection,
                      NEW c \in Clusters, NEW d \in Clusters,
                      cl[c].obj # None, cl[c].obj.ann.static = c,
                      cl[d].obj # None, cl[d].obj.ann.static = d
               PROVE  c = d
    BY DEF OneAllocator, OneElection
  <2>1. PICK f \in Clusters \cup {None} : Shared(f)
    BY DEF AllocatorInv, Agreed
  <2>2. cl[c].obj.ann.static \in {None, f} /\ cl[d].obj.ann.static \in {None, f}
    BY <2>1 DEF Shared, ClusterCopies, ClusterAgrees
  <2> QED
    BY <2>2, NoneIsNoCluster
<1> QED
  BY <1>1, OneLife, PTL DEF IncarnationInv

\* A federated ingress with the orphan finalizer loses no cluster ingress, not even
\* to a request that an earlier pass sent and that arrives late.
THEOREM OrphansAreKept == Spec => OrphansKept
<1> DEFINE Step ==
      \A c \in Clusters :
        (OneIncarnation /\ AlwaysSent(c) /\ cl[c].obj # None /\ cl'[c].obj = None
           /\ fed.obj # None) => "orphan" \notin fed.obj.finalizers
<1>1. IInv /\ OrphanInv /\ [Next]_vars => [Step]_vars
  <2> SUFFICES ASSUME IInv, OrphanInv, [Next]_vars PROVE Step
    OBVIOUS
  <2>1. ClusterDetail
    BY NextClusters
  <2> QED
    BY <2>1 DEF ClusterDetail, OrphanInv, Cascading
<1> QED
  BY <1>1, Invariance, OneLife, PTL DEF Spec, OrphansKept, IncarnationInv
=============================================================================
