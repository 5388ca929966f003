---------------------- MODULE IngressControllerProofs ----------------------
(***************************************************************************)
(* Proofs about IngressController: the inductive invariant IInv, and from  *)
(* it type correctness, NoLostEdit, FinalizerCoversClusters and            *)
(* IPNeverChanges, for any clusters, manifests and budgets.                *)
(***************************************************************************)
EXTENDS IngressController, TLAPS

(* What a step may do to the federated ingress and its copies *)

\* fed stays, or gets the next version: it is removed, changed without losing
\* the delete finalizer or a recorded IP, or a new one is created with a fresh uid.
FedStep ==
  \/ fed' = fed
  \/ /\ fed'.rv = fed.rv + 1
     /\ \/ fed'.obj = None
        \/ /\ fed.obj # None /\ fed'.obj # None
           /\ fed'.obj.uid = fed.obj.uid
           /\ "delete" \in fed.obj.finalizers => "delete" \in fed'.obj.finalizers
           /\ fed.obj.ann.ip # None => fed'.obj.ann.ip = fed.obj.ann.ip
        \/ /\ fed.obj = None /\ fed'.obj # None
           /\ fed'.obj.uid = fed.rv + 1

\* Copies of the federated ingress only come from copies or from the API server.
CopiesStep == FedCopies' \subseteq FedCopies \cup {fed', NoVersion}

\* Cluster ingresses, and those about to be written, are covered by fed.
ObjectsStep ==
  /\ \A c \in Clusters : \A v \in ClusterCopies(c)' : Covered(v.obj, fed)
  /\ \A op \in (ops \cup detached)' : Covered(op.obj, fed)

GoodStep ==
  TypeOK' /\ FedStep /\ CopiesStep /\ NoLostEdit' /\ HandlerKnows' /\ ObjectsStep

-----------------------------------------------------------------------------
(* Lemmas about the operators *)

\* The edits the handler makes leave uid, deletion mark and user content alone,
\* and most of them the finalizers.
LEMMA FedEditsKeep ==
  ASSUME NEW o \in FedIngresses, NEW c, NEW lb, NEW a, NEW ip, NEW fs
  PROVE  /\ \A p \in {[o EXCEPT !.ann.first = c], [o EXCEPT !.ann.ip = ip],
                      [o EXCEPT !.ann.lbstat = lb], [o EXCEPT !.status = a]} :
               /\ p.uid = o.uid /\ p.deleting = o.deleting
               /\ p.finalizers = o.finalizers /\ Content(p) = Content(o)
         /\ LET p == [o EXCEPT !.finalizers = fs] IN
               /\ p.uid = o.uid /\ p.deleting = o.deleting
               /\ p.finalizers = fs /\ Content(p) = Content(o)
BY DEF FedIngresses, Annotations, Content

\* A write of the federated ingress keeps the types of store and watch.
LEMMA FedWriteType ==
  ASSUME TypeOK, NEW o \in FedIngresses \cup {None}, FedWrite(o)
  PROVE  /\ fed' \in FedVersions /\ fedWatch' \subseteq FedVersions
         /\ fedWatch' \subseteq fedWatch \cup {fed'}
         /\ fed' = fed \/ (fed'.rv = fed.rv + 1 /\ fed'.obj = o)
BY DEF TypeOK, FedWrite, FedVersions

\* Spending an event leaves a budget.
LEMMA SpendType ==
  ASSUME TypeOK, NEW e \in Events, Spend(e)
  PROVE  budget' \in [Events -> Nat]
BY DEF TypeOK, Spend

\* The handler's state after it returns.
LEMMA ReturnFacts ==
  ASSUME TypeOK, NEW d \in BOOLEAN, Return(d)
  PROVE  /\ pc' = "idle" /\ base' = NoVersion /\ todo' = {} /\ ops' = {}
         /\ pc' \in PCs /\ base' \in FedVersions /\ todo' \subseteq Clusters
         /\ lbStat' \in LBStats /\ ops' \subseteq Operations /\ queued' \in BOOLEAN
         /\ HandlerKnows'
BY DEF TypeOK, Return, PCs, NoVersion, FedVersions, NoLB, LBStats, HandlerKnows

\* A checked update of base to o is a step the federated ingress may take.
LEMMA UpdateFacts ==
  ASSUME IInv, NEW o \in FedIngresses, base.obj # None,
         o.uid = base.obj.uid, Content(o) = Content(base.obj),
         "delete" \in base.obj.finalizers => Stored(o) = None \/ "delete" \in o.finalizers,
         base.obj.ann.ip # None => o.ann.ip = base.obj.ann.ip,
         UpdateOK(o) \/ UpdateFails(o), UNCHANGED intent
  PROVE  /\ fed' \in FedVersions /\ fedWatch' \subseteq FedVersions
         /\ fedWatch' \subseteq fedWatch \cup {fed'}
         /\ budget' \in [Events -> Nat]
         /\ FedStep /\ NoLostEdit'
<1> DEFINE w == Stored(o)
<1>1. w \in FedIngresses \cup {None} /\ (w # None => w = o)
  BY DEF Stored
<1>2. CASE fed' = fed /\ fedWatch' = fedWatch
  <2>1. budget' \in [Events -> Nat]
    BY SpendType DEF IInv, TypeOK, UpdateOK, UpdateFails, Events
  <2> QED
    BY <1>2, <2>1 DEF IInv, TypeOK, FedStep, NoLostEdit
<1>3. CASE fed.rv = base.rv /\ FedWrite(w)
  <2>1. fed = base
    BY <1>3 DEF IInv, VersionsAgree, FedCopies
  <2>2. budget' \in [Events -> Nat]
    BY SpendType DEF IInv, TypeOK, UpdateOK, UpdateFails, Events
  <2>3. /\ fed' \in FedVersions /\ fedWatch' \subseteq FedVersions
        /\ fedWatch' \subseteq fedWatch \cup {fed'}
        /\ fed' = fed \/ (fed'.rv = fed.rv + 1 /\ fed'.obj = w)
    BY <1>1, <1>3, FedWriteType DEF IInv
  <2>4. FedStep
    BY <1>1, <2>1, <2>3 DEF FedStep
  <2>5. NoLostEdit'
    BY <1>1, <2>1, <2>3 DEF IInv, NoLostEdit
  <2> QED
    BY <2>2, <2>3, <2>4, <2>5
<1> QED
  BY <1>2, <1>3 DEF UpdateOK, UpdateFails

\* A write in a cluster keeps types and stores only covered objects.
LEMMA ClusterWriteFacts ==
  ASSUME TypeOK, FinalizersStay, NEW c \in Clusters,
         NEW o \in ClusterIngresses \cup {None}, Covered(o, fed),
         ClusterWrite(c, o), UNCHANGED clCache
  PROVE  /\ cl' \in [Clusters -> ClusterVersions]
         /\ clWatch' \in [Clusters -> SUBSET ClusterVersions]
         /\ \A d \in Clusters : \A v \in ClusterCopies(d)' : Covered(v.obj, fed)
<1> DEFINE n == [rv |-> cl[c].rv + 1, obj |-> o]
<1>1. n \in ClusterVersions /\ n.obj = o
  BY DEF TypeOK, ClusterVersions
<1>2. /\ cl' \in [Clusters -> ClusterVersions]
      /\ clWatch' \in [Clusters -> SUBSET ClusterVersions]
  BY <1>1 DEF TypeOK, ClusterWrite
<1>3. ASSUME NEW d \in Clusters, NEW v \in ClusterCopies(d)'
      PROVE  v \in ClusterCopies(d) \/ v = n
  BY <1>1, <1>3 DEF TypeOK, ClusterWrite, ClusterCopies
<1> QED
  BY <1>1, <1>2, <1>3 DEF FinalizersStay

\* Steps that leave the clusters alone.
LEMMA ClustersUnchanged ==
  ASSUME FinalizersStay, UNCHANGED <<cl, clWatch, clCache>>
  PROVE  \A c \in Clusters : \A v \in ClusterCopies(c)' : Covered(v.obj, fed)
BY DEF FinalizersStay, ClusterCopies

\* What good steps add up to.
LEMMA GoodStepKeepsIInv == IInv /\ GoodStep => IInv'
<1> SUFFICES ASSUME IInv, GoodStep PROVE IInv'
  OBVIOUS
<1> USE DEF GoodStep
<1>1. fed \in FedVersions /\ fed' \in FedVersions
  BY DEF IInv, TypeOK
<1>2. fed'.rv \in Nat /\ fed.rv \in Nat /\ fed'.rv >= fed.rv
  BY <1>1 DEF FedStep, FedVersions
<1>3. fed'.obj # None => fed'.obj.uid <= fed'.rv
  BY <1>1, <1>2 DEF FedStep, IInv, VersionsAgree, FedVersions, FedIngresses
<1>4. VersionsAgree'
  <2>1. ASSUME NEW v \in FedCopies \cup {NoVersion}
        PROVE  v.rv <= fed'.rv /\ (v.rv = fed'.rv => v = fed')
    <3>1. v.rv <= fed.rv /\ (v.rv = fed.rv => v = fed) /\ v.rv \in Nat
      BY <2>1 DEF IInv, VersionsAgree, TypeOK, FedCopies, FedVersions, NoVersion
    <3> QED
      BY <1>1, <1>2, <3>1 DEF FedStep
  <2>2. ASSUME NEW v \in FedCopies, v.obj # None
        PROVE  v.obj.uid <= v.rv
    BY <2>2 DEF IInv, VersionsAgree
  <2> QED
    BY <1>2, <1>3, <2>1, <2>2 DEF CopiesStep, VersionsAgree, NoVersion
<1>5. ASSUME NEW o, Covered(o, fed), o # None => o.owner \in Nat
      PROVE  Covered(o, fed')
  BY <1>1, <1>2, <1>5 DEF Covered, FedStep, IInv, VersionsAgree, FedVersions
<1>6. ASSUME NEW v \in FedCopies', v.obj # None, fed'.obj # None,
             v.obj.uid = fed'.obj.uid, "delete" \in v.obj.finalizers
      PROVE  "delete" \in fed'.obj.finalizers
  <2>1. CASE v = fed' \/ v = NoVersion
    BY <1>6, <2>1 DEF NoVersion
  <2>2. CASE v \in FedCopies
    <3>1. v.obj.uid <= fed.rv /\ v.obj.uid \in Nat
      BY <1>1, <1>6, <2>2 DEF IInv, TypeOK, VersionsAgree, FedCopies, FedVersions, FedIngresses
    <3>2. fed'.obj.uid # fed.rv + 1
      BY <1>2, <1>6, <3>1
    <3> QED
      BY <1>6, <2>2, <3>2 DEF FedStep, IInv, FinalizersStay
  <2> QED
    BY <2>1, <2>2, <1>6 DEF CopiesStep
<1>7. ASSUME NEW c \in Clusters, NEW v \in ClusterCopies(c)'
      PROVE  Covered(v.obj, fed')
  <2>1. v \in ClusterVersions
    BY <1>7 DEF TypeOK, ClusterCopies
  <2>2. v.obj # None => v.obj.owner \in Nat
    BY <2>1 DEF ClusterVersions, ClusterIngresses
  <2> QED
    BY <1>5, <1>7, <2>2 DEF ObjectsStep
<1>8. ASSUME NEW op \in (ops \cup detached)'
      PROVE  Covered(op.obj, fed')
  <2>1. op.obj # None => op.obj.owner \in Nat
    BY <1>8 DEF TypeOK, Operations, ClusterIngresses
  <2> QED
    BY <1>5, <1>8, <2>1 DEF ObjectsStep
<1>9. FinalizersStay'
  BY <1>6, <1>7, <1>8 DEF FinalizersStay
<1> QED
  BY <1>4, <1>9 DEF IInv

-----------------------------------------------------------------------------
(* Every action is a good step *)

\* No write to the federation API: the federated ingress takes no step.
LEMMA FedUnchanged ==
  ASSUME IInv, UNCHANGED <<fed, intent>>
  PROVE  FedStep /\ NoLostEdit'
BY DEF IInv, FedStep, NoLostEdit

\* Start: base becomes the cached federated ingress, nothing is written.
LEMMA StartGood == IInv /\ Start => GoodStep
<1> SUFFICES ASSUME IInv, Start PROVE GoodStep
  OBVIOUS
<1> USE DEF Start, apiVars, cacheVars
<1>1. TypeOK'
  BY DEF IInv, TypeOK, PCs
<1>2. CopiesStep
  BY DEF CopiesStep, FedCopies
<1>3. HandlerKnows'
  BY DEF IInv, HandlerKnows
<1>4. ObjectsStep
  BY ClustersUnchanged DEF IInv, FinalizersStay, ObjectsStep
<1> QED
  BY <1>1, <1>2, <1>3, <1>4, FedUnchanged DEF GoodStep

\* EnsureFinalizers: afterwards base has both finalizers, and is the current version.
LEMMA EnsureFinalizersGood == IInv /\ EnsureFinalizers => GoodStep
<1> SUFFICES ASSUME IInv, EnsureFinalizers PROVE GoodStep
  OBVIOUS
<1> DEFINE o == [base.obj EXCEPT !.finalizers = Finalizers]
<1> USE DEF cacheVars
<1>1. base.obj \in FedIngresses /\ base.obj # None /\ Finalizers \in SUBSET Finalizers
  BY DEF EnsureFinalizers, IInv, TypeOK, HandlerKnows, FedVersions
<1>2. /\ o \in FedIngresses /\ o.uid = base.obj.uid /\ Content(o) = Content(base.obj)
      /\ o.finalizers = Finalizers /\ "delete" \in o.finalizers /\ Stored(o) = o
      /\ o.ann.ip = base.obj.ann.ip
  <2>1. o \in FedIngresses /\ o.ann.ip = base.obj.ann.ip
    BY <1>1 DEF FedIngresses
  <2>2. o.uid = base.obj.uid /\ Content(o) = Content(base.obj) /\ o.finalizers = Finalizers
    BY Zenon, <1>1, FedEditsKeep
  <2> QED
    BY <2>1, <2>2 DEF Finalizers, Stored
<1>3. ObjectsStep
  BY ClustersUnchanged DEF IInv, FinalizersStay, ObjectsStep, EnsureFinalizers, Return
<1>4. CASE base.obj.finalizers = Finalizers
  <2>1. TypeOK'
    BY <1>4 DEF IInv, TypeOK, EnsureFinalizers, PCs
  <2>2. CopiesStep /\ HandlerKnows'
    BY <1>4 DEF CopiesStep, FedCopies, IInv, HandlerKnows, EnsureFinalizers
  <2> QED
    BY <1>3, <1>4, <2>1, <2>2, FedUnchanged DEF GoodStep, EnsureFinalizers
<1>5. CASE base.obj.finalizers # Finalizers
  <2>1. /\ fed' \in FedVersions /\ fedWatch' \subseteq FedVersions
        /\ fedWatch' \subseteq fedWatch \cup {fed'}
        /\ budget' \in [Events -> Nat] /\ FedStep /\ NoLostEdit'
    BY Zenon, <1>1, <1>2, <1>5, UpdateFacts DEF EnsureFinalizers
  <2>2. CASE UpdateOK(o) /\ pc' = "list" /\ base' = fed' /\ UNCHANGED <<todo, lbStat, ops, queued>>
    <3>1. fed'.obj = o /\ o # None
      BY <1>2, <2>2, NoneAssumption DEF UpdateOK, FedWrite
    <3>2. TypeOK'
      BY <2>1, <2>2 DEF IInv, TypeOK, EnsureFinalizers, PCs
    <3>3. HandlerKnows' /\ CopiesStep
      BY <1>2, <2>1, <2>2, <3>1 DEF HandlerKnows, CopiesStep, FedCopies, EnsureFinalizers
    <3> QED
      BY <1>3, <2>1, <3>2, <3>3 DEF GoodStep
  <2>3. CASE Return(TRUE)
    <3>1. TypeOK' /\ HandlerKnows'
      BY Zenon, <2>1, <2>3, ReturnFacts DEF IInv, TypeOK, EnsureFinalizers
    <3>2. CopiesStep
      BY <2>1, <2>3 DEF CopiesStep, FedCopies, EnsureFinalizers, Return
    <3> QED
      BY <1>3, <2>1, <3>1, <3>2 DEF GoodStep
  <2> QED
    BY Zenon, <1>5, <2>2, <2>3 DEF EnsureFinalizers
<1> QED
  BY <1>4, <1>5

\* GetReadyClusters: only the loop's list of clusters is set.
LEMMA GetReadyClustersGood == IInv /\ GetReadyClusters => GoodStep
<1> SUFFICES ASSUME IInv, GetReadyClusters PROVE GoodStep
  OBVIOUS
<1> USE DEF GetReadyClusters, apiVars, cacheVars
<1>1. TypeOK'
  BY DEF IInv, TypeOK, PCs
<1>2. CopiesStep /\ HandlerKnows'
  BY DEF CopiesStep, FedCopies, IInv, HandlerKnows
<1>3. ObjectsStep
  BY ClustersUnchanged DEF IInv, FinalizersStay, ObjectsStep
<1> QED
  BY <1>1, <1>2, <1>3, FedUnchanged DEF GoodStep

\* The iteration for c queues operations on objects covered by base.
LEMMA ContinueGood ==
  ASSUME IInv, pc = "visit", NEW c \in Clusters, NEW new \in SUBSET Operations,
         \A op \in new : Covered(op.obj, fed), Continue(c, new), lbStat' \in LBStats
  PROVE  GoodStep
<1> USE DEF Continue, apiVars, cacheVars
<1>1. TypeOK'
  BY DEF IInv, TypeOK
<1>2. CopiesStep /\ HandlerKnows'
  BY DEF CopiesStep, FedCopies, IInv, HandlerKnows
<1>3. ObjectsStep
  BY ClustersUnchanged DEF IInv, FinalizersStay, ObjectsStep
<1> QED
  BY <1>1, <1>2, <1>3, FedUnchanged DEF GoodStep

\* An update of base that keeps uid, content and finalizers, then a return.
LEMMA UpdateAndReturnGood ==
  ASSUME IInv, pc = "visit", NEW o \in FedIngresses, o.uid = base.obj.uid,
         Content(o) = Content(base.obj), o.finalizers = base.obj.finalizers,
         base.obj.ann.ip # None => o.ann.ip = base.obj.ann.ip,
         UpdateAndReturn(o)
  PROVE  GoodStep
<1> USE DEF UpdateAndReturn, cacheVars
<1>1. /\ fed' \in FedVersions /\ fedWatch' \subseteq FedVersions
      /\ fedWatch' \subseteq fedWatch \cup {fed'}
      /\ budget' \in [Events -> Nat] /\ FedStep /\ NoLostEdit'
  BY UpdateFacts DEF IInv, HandlerKnows
<1>2. TypeOK' /\ HandlerKnows'
  BY Zenon, <1>1, ReturnFacts DEF IInv, TypeOK
<1>3. CopiesStep
  BY <1>1 DEF CopiesStep, FedCopies, Return
<1>4. ObjectsStep
  BY ClustersUnchanged DEF IInv, FinalizersStay, ObjectsStep, Return
<1> QED
  BY <1>1, <1>2, <1>3, <1>4 DEF GoodStep

\* A return that writes nothing.
LEMMA PlainReturnGood ==
  ASSUME IInv, NEW d \in BOOLEAN, Return(d),
         UNCHANGED <<apiVars, cacheVars, clusterQueued, detached, budget, intent>>
  PROVE  GoodStep
<1> USE DEF apiVars, cacheVars
<1>1. TypeOK' /\ HandlerKnows'
  BY ReturnFacts DEF IInv, TypeOK
<1>2. CopiesStep
  BY DEF CopiesStep, FedCopies, Return
<1>3. ObjectsStep
  BY ClustersUnchanged DEF IInv, FinalizersStay, ObjectsStep, Return
<1> QED
  BY <1>1, <1>2, <1>3, FedUnchanged DEF GoodStep

\* What the handler sees of cluster c: a version of the right type, covered.
LEMMA CachedFacts ==
  ASSUME IInv, NEW c \in Clusters
  PROVE  Cached(c) \in ClusterVersions /\ Covered(Cached(c).obj, fed)
<1>1. NoVersion \in ClusterVersions /\ Covered(NoVersion.obj, fed)
  BY DEF NoVersion, ClusterVersions, Covered
<1>2. clCache[c] \in ClusterVersions /\ Covered(clCache[c].obj, fed)
  BY DEF IInv, TypeOK, FinalizersStay, ClusterCopies
<1> QED
  BY <1>1, <1>2 DEF Cached

\* Merging annotations gives annotations.
LEMMA MergeType ==
  ASSUME NEW a \in Annotations, NEW b \in Annotations
  PROVE  Merge(a, b) \in Annotations
BY DEF Merge, Over, Annotations

\* An ingress made from base is covered: base has the delete finalizer.
LEMMA BaseCovers ==
  ASSUME IInv, pc = "visit", NEW o, o.owner = base.obj.uid
  PROVE  Covered(o, fed)
<1>1. base \in FedCopies /\ base.obj # None /\ "delete" \in base.obj.finalizers
  BY DEF IInv, HandlerKnows, FedCopies, Finalizers
<1>2. base.obj.uid <= base.rv /\ base.rv <= fed.rv
  BY <1>1 DEF IInv, VersionsAgree
<1>3. base.obj.uid \in Nat /\ base.rv \in Nat /\ fed.rv \in Nat
  BY <1>1 DEF IInv, TypeOK, FedVersions, FedIngresses
<1> QED
  BY <1>1, <1>2, <1>3 DEF Covered, IInv, FinalizersStay

\* An iteration of the loop over clusters, whichever case of the switch it takes.
LEMMA VisitGood ==
  ASSUME IInv, NEW c \in Clusters, Visit(c)
  PROVE  GoodStep
<1> DEFINE v == Cached(c)
<1>1. pc = "visit" /\ base.obj \in FedIngresses
  BY Zenon DEF Visit, SelectorError, ElectFirstCluster, QueueCreate, QueueRemove, TransferIP,
         TransferStatus, QueueUpdate, Visiting, IInv, TypeOK, HandlerKnows, FedVersions
<1>2. v \in ClusterVersions /\ Covered(v.obj, fed)
  BY CachedFacts
<1>3. v.obj # None => v.obj \in ClusterIngresses
  BY <1>2 DEF ClusterVersions
<1>4. CASE SelectorError(c)
  BY Zenon, <1>4, PlainReturnGood DEF SelectorError
<1>5. CASE ElectFirstCluster(c)
  <2> DEFINE o == [base.obj EXCEPT !.ann.first = c]
  <2>1. /\ o \in FedIngresses /\ o.uid = base.obj.uid /\ Content(o) = Content(base.obj)
        /\ o.finalizers = base.obj.finalizers
        /\ base.obj.ann.ip # None => o.ann.ip = base.obj.ann.ip
    BY <1>1 DEF FedIngresses, Annotations, Content
  <2> HIDE DEF o
  <2> QED
    BY Zenon, <1>1, <1>5, <2>1, UpdateAndReturnGood DEF ElectFirstCluster, o
<1>6. CASE QueueCreate(c)
  <2> DEFINE o == [owner |-> base.obj.uid, spec |-> base.obj.spec,
                   ann |-> base.obj.ann, lb |-> None]
             new == IF MayCreate(c)
                    THEN {[kind |-> "add", cluster |-> c, rv |-> 0, obj |-> o]} ELSE {}
  <2>1. o \in ClusterIngresses /\ o.owner = base.obj.uid
    BY <1>1 DEF FedIngresses, ClusterIngresses
  <2>2. Covered(o, fed)
    BY <1>1, <2>1, BaseCovers
  <2> HIDE DEF o
  <2>3. new \in SUBSET Operations /\ \A op \in new : Covered(op.obj, fed)
    BY <2>1, <2>2 DEF Operations
  <2>4. Continue(c, new) /\ lbStat' \in LBStats
    BY <1>6 DEF QueueCreate, IInv, TypeOK, o
  <2> QED
    BY <1>1, <2>3, <2>4, ContinueGood
<1>7. CASE QueueRemove(c)
  <2> DEFINE new == IF v.obj # None THEN {DeleteOp(c)} ELSE {}
  <2>1. new \in SUBSET Operations /\ \A op \in new : Covered(op.obj, fed)
    BY DEF DeleteOp, Operations, Covered
  <2>2. Continue(c, new) /\ lbStat' \in LBStats
    BY <1>7 DEF QueueRemove, IInv, TypeOK
  <2> QED
    BY <1>1, <2>1, <2>2, ContinueGood
<1>8. CASE TransferIP(c)
  <2> DEFINE ip == v.obj.ann.static
             o == [base.obj EXCEPT !.ann.ip = ip]
  <2>1. ip \in Clusters \cup {None}
    BY <1>3, <1>8 DEF TransferIP, ClusterIngresses, Annotations
  <2> HIDE DEF ip
  <2>2. /\ o \in FedIngresses /\ o.uid = base.obj.uid /\ Content(o) = Content(base.obj)
        /\ o.finalizers = base.obj.finalizers /\ base.obj.ann.ip = None
    BY <1>1, <1>8, <2>1 DEF FedIngresses, Annotations, Content, TransferIP, MustTransferIP
  <2>3. UpdateAndReturn(o)
    BY <1>8 DEF TransferIP, ip
  <2> HIDE DEF o
  <2> QED
    BY <1>1, <2>2, <2>3, UpdateAndReturnGood
<1>9. CASE TransferStatus(c)
  <2> DEFINE a == v.obj.lb
             o == [base.obj EXCEPT !.status = a]
  <2>1. a \in Addrs \cup {None}
    BY <1>3, <1>9 DEF TransferStatus, ClusterIngresses
  <2> HIDE DEF a
  <2>2. /\ o \in FedIngresses /\ o.uid = base.obj.uid /\ Content(o) = Content(base.obj)
        /\ o.finalizers = base.obj.finalizers
        /\ base.obj.ann.ip # None => o.ann.ip = base.obj.ann.ip
    BY <1>1, <2>1 DEF FedIngresses, Content
  <2>3. UpdateAndReturn(o)
    BY <1>9 DEF TransferStatus, a
  <2> HIDE DEF o
  <2> QED
    BY <1>1, <2>2, <2>3, UpdateAndReturnGood
<1>10. CASE QueueUpdate(c)
  <2> DEFINE o == [v.obj EXCEPT !.spec = base.obj.spec,
                                !.ann = Merge(base.obj.ann, v.obj.ann)]
             new == IF Equivalent(base.obj, v.obj) THEN {}
                    ELSE {[kind |-> "update", cluster |-> c, rv |-> v.rv, obj |-> o]}
  <2>1. v.obj # None /\ v.obj \in ClusterIngresses
    BY <1>3, <1>10 DEF QueueUpdate
  <2>2. Merge(base.obj.ann, v.obj.ann) \in Annotations
    BY <1>1, <2>1, MergeType DEF FedIngresses, ClusterIngresses
  <2>3. o \in ClusterIngresses /\ o.owner = v.obj.owner
    BY Zenon, <1>1, <2>1, <2>2 DEF ClusterIngresses, FedIngresses
  <2>4. Covered(o, fed)
    BY <1>2, <2>1, <2>3 DEF Covered
  <2>5. Continue(c, new) /\ lbStat' = [lbStat EXCEPT ![c] = v.obj.lb]
    BY <1>10 DEF QueueUpdate
  <2> HIDE DEF o
  <2>6. new \in SUBSET Operations /\ \A op \in new : Covered(op.obj, fed)
    BY <1>2, <2>3, <2>4 DEF Operations, ClusterVersions
  <2>7. lbStat' \in LBStats
    BY <2>1, <2>5 DEF IInv, TypeOK, LBStats, ClusterIngresses
  <2> QED
    BY Zenon, <1>1, <2>5, <2>6, <2>7, ContinueGood
<1> QED
  BY <1>4, <1>5, <1>6, <1>7, <1>8, <1>9, <1>10 DEF Visit

\* The update of the LB status annotation after the loop.
LEMMA PublishLBStatusGood == IInv /\ PublishLBStatus => GoodStep
<1> SUFFICES ASSUME IInv, PublishLBStatus PROVE GoodStep
  OBVIOUS
<1> DEFINE o == [base.obj EXCEPT !.ann.lbstat = lbStat]
<1>1. pc = "visit" /\ base.obj \in FedIngresses /\ lbStat \in LBStats
  BY DEF PublishLBStatus, IInv, TypeOK, HandlerKnows, FedVersions
<1>2. /\ o \in FedIngresses /\ o.uid = base.obj.uid /\ Content(o) = Content(base.obj)
      /\ o.finalizers = base.obj.finalizers
      /\ base.obj.ann.ip # None => o.ann.ip = base.obj.ann.ip
  BY <1>1 DEF FedIngresses, Annotations, Content
<1>3. UpdateAndReturn(o)
  BY DEF PublishLBStatus
<1> HIDE DEF o
<1> QED
  BY <1>1, <1>2, <1>3, UpdateAndReturnGood

\* Handing the operations to the updater, or returning when there are none.
LEMMA DispatchGood == IInv /\ Dispatch => GoodStep
<1> SUFFICES ASSUME IInv, Dispatch PROVE GoodStep
  OBVIOUS
<1>1. CASE ops = {}
  BY Zenon, <1>1, PlainReturnGood DEF Dispatch
<1>2. CASE ops # {}
  <2> USE <1>2 DEF Dispatch, apiVars, cacheVars
  <2>1. TypeOK'
    BY Zenon DEF IInv, TypeOK, PCs
  <2>2. CopiesStep /\ HandlerKnows'
    BY Zenon DEF CopiesStep, FedCopies, IInv, HandlerKnows
  <2>3. ObjectsStep
    BY Zenon, ClustersUnchanged DEF IInv, FinalizersStay, ObjectsStep
  <2> QED
    BY <2>1, <2>2, <2>3, FedUnchanged DEF GoodStep
<1> QED
  BY <1>1, <1>2

\* What an operation stores has the right type and is covered.
LEMMA ResultFacts ==
  ASSUME IInv, NEW op \in ops \cup detached, Succeeds(op)
  PROVE  /\ op.cluster \in Clusters
         /\ Result(op) \in ClusterIngresses \cup {None}
         /\ Covered(Result(op), fed)
<1> DEFINE lb == cl[op.cluster].obj.lb
<1>1. op \in Operations /\ Covered(op.obj, fed)
  BY DEF IInv, TypeOK, FinalizersStay
<1>2. op.cluster \in Clusters /\ op.obj \in ClusterIngresses \cup {None}
  BY <1>1 DEF Operations
<1>3. CASE op.kind = "update"
  <2>1. op.obj \in ClusterIngresses /\ cl[op.cluster].obj \in ClusterIngresses
    BY <1>1, <1>2, <1>3 DEF Operations, Succeeds, IInv, TypeOK, ClusterVersions
  <2>2. lb \in Addrs \cup {None}
    BY <2>1 DEF ClusterIngresses
  <2> HIDE DEF lb
  <2>3. [op.obj EXCEPT !.lb = lb] \in ClusterIngresses /\ [op.obj EXCEPT !.lb = lb].owner = op.obj.owner
    BY <2>1, <2>2 DEF ClusterIngresses
  <2>4. Covered([op.obj EXCEPT !.lb = lb], fed)
    BY <1>1, <1>3, <2>1, <2>3, NoneAssumption DEF Covered
  <2> QED
    BY <1>2, <1>3, <2>3, <2>4 DEF Result, lb
<1>4. CASE op.kind # "update"
  BY <1>1, <1>2, <1>4 DEF Result
<1> QED
  BY <1>3, <1>4

\* A step of the updater: cluster objects change as operations say, operations
\* move or go, the handler may return.
LEMMA UpdaterGood ==
  ASSUME IInv, NEW op \in ops \cup detached,
         \/ UNCHANGED <<cl, clWatch>>
         \/ Succeeds(op) /\ ClusterWrite(op.cluster, Result(op)),
         (ops \cup detached)' \subseteq ops \cup detached,
         Return(TRUE) \/ (ops' \subseteq ops /\ UNCHANGED <<pc, base, todo, lbStat, queued>>),
         budget' \in [Events -> Nat],
         UNCHANGED <<fed, fedWatch, cacheVars, clusterQueued, intent>>
  PROVE  GoodStep
<1> USE DEF cacheVars
<1>1. /\ cl' \in [Clusters -> ClusterVersions]
      /\ clWatch' \in [Clusters -> SUBSET ClusterVersions]
      /\ \A d \in Clusters : \A v \in ClusterCopies(d)' : Covered(v.obj, fed)
  <2>1. CASE UNCHANGED <<cl, clWatch>>
    BY <2>1, ClustersUnchanged DEF IInv, TypeOK
  <2>2. CASE Succeeds(op) /\ ClusterWrite(op.cluster, Result(op))
    BY <2>2, ResultFacts, ClusterWriteFacts DEF IInv
  <2> QED
    BY <2>1, <2>2
<1>2. /\ pc' \in PCs /\ base' \in FedVersions /\ todo' \subseteq Clusters
      /\ lbStat' \in LBStats /\ ops' \subseteq Operations /\ queued' \in BOOLEAN
      /\ HandlerKnows' /\ base' \in {base, NoVersion}
  BY Zenon, ReturnFacts DEF IInv, TypeOK, HandlerKnows
<1>3. detached' \subseteq Operations
  BY DEF IInv, TypeOK
<1>4. TypeOK'
  BY <1>1, <1>2, <1>3 DEF IInv, TypeOK
<1>5. CopiesStep
  BY <1>2 DEF CopiesStep, FedCopies
<1>6. ObjectsStep
  BY <1>1 DEF ObjectsStep, IInv, FinalizersStay
<1> QED
  BY <1>2, <1>4, <1>5, <1>6, FedUnchanged DEF GoodStep

\* An operation the handler waits for succeeds or fails.
LEMMA OpGood ==
  ASSUME IInv, NEW op \in ops, OpSucceeds(op) \/ OpFails(op)
  PROVE  GoodStep
<1>1. CASE OpSucceeds(op)
  <2>1. (ops \cup detached)' \subseteq ops \cup detached
    BY <1>1 DEF OpSucceeds, Return
  <2>2. budget' \in [Events -> Nat]
    BY <1>1 DEF OpSucceeds, IInv, TypeOK
  <2>3. Return(TRUE) \/ (ops' \subseteq ops /\ UNCHANGED <<pc, base, todo, lbStat, queued>>)
    BY Zenon, <1>1 DEF OpSucceeds
  <2> QED
    BY Zenon, <1>1, <2>1, <2>2, <2>3, UpdaterGood DEF OpSucceeds
<1>2. CASE OpFails(op)
  <2>1. (ops \cup detached)' \subseteq ops \cup detached
    BY <1>2 DEF OpFails, Return
  <2>2. budget' \in [Events -> Nat]
    BY <1>2, SpendType DEF OpFails, IInv, TypeOK, Events
  <2> QED
    BY Zenon, <1>2, <2>1, <2>2, UpdaterGood DEF OpFails
<1> QED
  BY <1>1, <1>2

\* An operation that outlived its Update call is applied or fails.
LEMMA DetachedOpGood ==
  ASSUME IInv, NEW op \in detached, DetachedOp(op)
  PROVE  GoodStep
<1> USE DEF DetachedOp, handlerVars
<1>1. (ops \cup detached)' \subseteq ops \cup detached
  OBVIOUS
<1>2. budget' \in [Events -> Nat]
  BY DEF IInv, TypeOK
<1> QED
  BY <1>1, <1>2, UpdaterGood

\* Update times out: its operations stay under way, covered as before.
LEMMA UpdateTimeoutGood == IInv /\ UpdateTimeout => GoodStep
<1> SUFFICES ASSUME IInv, UpdateTimeout PROVE GoodStep
  OBVIOUS
<1> USE DEF UpdateTimeout, apiVars, cacheVars
<1>1. TypeOK' /\ HandlerKnows'
  BY Zenon, ReturnFacts, SpendType DEF IInv, TypeOK, Events
<1>2. CopiesStep
  BY DEF CopiesStep, FedCopies, Return
<1>3. ObjectsStep
  BY Zenon, ClustersUnchanged DEF IInv, FinalizersStay, ObjectsStep, Return
<1> QED
  BY <1>1, <1>2, <1>3, FedUnchanged DEF GoodStep

\* Removing the delete finalizer from an object that is being deleted and has no
\* other finalizer left removes the object.
LEMMA RemoveFinalizersGood ==
  ASSUME IInv, pc \in {"delete", "remove"}, NEW fs \in SUBSET Finalizers,
         base.obj.finalizers \subseteq fs, RemoveFinalizers(fs),
         UNCHANGED <<cl, clWatch, cacheVars, clusterQueued, detached, intent>>
  PROVE  GoodStep
<1> DEFINE o == [base.obj EXCEPT !.finalizers = @ \ fs]
<1> USE DEF cacheVars
<1>1. base.obj # None /\ base.obj \in FedIngresses /\ base.obj.deleting
  BY DEF IInv, TypeOK, HandlerKnows, FedVersions
<1>2. o.finalizers = {} /\ o.deleting /\ o.uid = base.obj.uid
  BY <1>1 DEF FedIngresses
<1>3. /\ o \in FedIngresses /\ Content(o) = Content(base.obj) /\ Stored(o) = None
      /\ o.ann.ip = base.obj.ann.ip
  <2>1. o \in FedIngresses /\ Content(o) = Content(base.obj) /\ o.ann.ip = base.obj.ann.ip
    BY <1>1 DEF FedIngresses, Content
  <2> QED
    BY <1>2, <2>1 DEF Stored
<1>4. UpdateOK(o) \/ UpdateFails(o)
  BY Zenon DEF RemoveFinalizers
<1>5. \/ pc' = "apiDelete" /\ UNCHANGED <<base, todo, lbStat, ops, queued>>
      \/ Return(TRUE)
  BY Zenon DEF RemoveFinalizers
<1> HIDE DEF o
<1>6. /\ fed' \in FedVersions /\ fedWatch' \subseteq FedVersions
      /\ fedWatch' \subseteq fedWatch \cup {fed'}
      /\ budget' \in [Events -> Nat] /\ FedStep /\ NoLostEdit'
  BY <1>1, <1>2, <1>3, <1>4, UpdateFacts
<1>7. /\ pc' \in PCs /\ base' \in FedVersions /\ todo' \subseteq Clusters
      /\ lbStat' \in LBStats /\ ops' \subseteq Operations /\ queued' \in BOOLEAN
      /\ HandlerKnows' /\ base' \in {base, NoVersion} /\ ops' \subseteq ops
  BY Zenon, <1>1, <1>5, ReturnFacts DEF IInv, TypeOK, HandlerKnows, PCs
<1>8. TypeOK'
  BY <1>6, <1>7 DEF IInv, TypeOK
<1>9. CopiesStep
  BY <1>6, <1>7 DEF CopiesStep, FedCopies
<1>10. ObjectsStep
  BY <1>7, ClustersUnchanged DEF IInv, FinalizersStay, ObjectsStep
<1> QED
  BY <1>6, <1>7, <1>8, <1>9, <1>10 DEF GoodStep

\* Handler steps that only move on, with delete operations perhaps queued.
LEMMA HandlerMovesGood ==
  ASSUME IInv, pc' \in PCs, todo' \subseteq Clusters, ops' \subseteq Operations,
         \A op \in ops' : op \in ops \/ op.obj = None, HandlerKnows',
         UNCHANGED <<apiVars, cacheVars, base, lbStat, queued, clusterQueued, detached,
                     budget, intent>>
  PROVE  GoodStep
<1> USE DEF apiVars, cacheVars
<1>1. TypeOK'
  BY DEF IInv, TypeOK
<1>2. CopiesStep
  BY DEF CopiesStep, FedCopies
<1>3. \A op \in (ops \cup detached)' : Covered(op.obj, fed)
  BY DEF IInv, FinalizersStay, Covered
<1>4. ObjectsStep
  BY <1>3, ClustersUnchanged DEF IInv, ObjectsStep
<1> QED
  BY <1>1, <1>2, <1>4, FedUnchanged DEF GoodStep

\* The start of a deletion: nothing to do, orphaning, or a look at the clusters.
LEMMA HandleDeletionGood == IInv /\ HandleDeletion => GoodStep
<1> SUFFICES ASSUME IInv, HandleDeletion PROVE GoodStep
  OBVIOUS
<1>1. pc = "delete" /\ base.obj # None /\ base.obj \in FedIngresses /\ base.obj.deleting
  BY DEF HandleDeletion, IInv, TypeOK, HandlerKnows, FedVersions
<1>2. base.obj.finalizers \subseteq Finalizers
  BY <1>1 DEF FedIngresses
<1>3. CASE "delete" \notin base.obj.finalizers
  <2>1. HandlerKnows' /\ pc' \in PCs
    BY Zenon, <1>1, <1>3 DEF HandleDeletion, HandlerKnows, PCs, Finalizers
  <2> QED
    BY <1>3, <2>1, HandlerMovesGood DEF HandleDeletion, IInv, TypeOK, apiVars,
       cacheVars, Finalizers
<1>4. CASE Finalizers \subseteq base.obj.finalizers /\ RemoveFinalizers(Finalizers)
  BY Zenon, <1>1, <1>2, <1>4, RemoveFinalizersGood DEF HandleDeletion
<1>5. CASE /\ "delete" \in base.obj.finalizers /\ "orphan" \notin base.obj.finalizers
           /\ pc' = "gather" /\ todo' = Clusters \ ready
           /\ UNCHANGED <<fed, fedWatch, budget, base, lbStat, ops, queued>>
  <2>1. base.obj.finalizers = {"delete"}
    BY <1>2, <1>5 DEF Finalizers
  <2>2. HandlerKnows' /\ pc' \in PCs
    BY <1>1, <1>5, <2>1 DEF HandlerKnows, PCs
  <2> QED
    BY <1>5, <2>2, HandlerMovesGood DEF HandleDeletion, IInv, TypeOK, apiVars, cacheVars
<1> QED
  BY <1>3, <1>4, <1>5 DEF HandleDeletion

\* Deletion from the clusters, or nothing left to delete.
LEMMA DeleteFromClustersGood == IInv /\ DeleteFromClusters => GoodStep
<1> SUFFICES ASSUME IInv, DeleteFromClusters PROVE GoodStep
  OBVIOUS
<1> DEFINE found == {c \in synced : clCache[c].obj # None}
<1>1. pc = "gather"
  BY DEF DeleteFromClusters
<1>2. CASE ops' = {DeleteOp(c) : c \in found} /\ pc' = "wait" /\ UNCHANGED <<base, todo, lbStat, queued>>
  <2>1. ops' \subseteq Operations /\ \A op \in ops' : op.obj = None
    <3>1. \A c \in Clusters : DeleteOp(c) \in Operations /\ DeleteOp(c).obj = None
      BY DEF DeleteOp, Operations
    <3>2. found \subseteq Clusters
      BY DEF IInv, TypeOK
    <3> QED
      BY <1>2, <3>1, <3>2
  <2>2. HandlerKnows' /\ pc' \in PCs
    BY <1>2 DEF HandlerKnows, PCs
  <2> QED
    BY <1>2, <2>1, <2>2, HandlerMovesGood DEF DeleteFromClusters, IInv, TypeOK,
       apiVars, cacheVars
<1>3. CASE Return(TRUE)
  BY Zenon, <1>3, PlainReturnGood DEF DeleteFromClusters, apiVars, cacheVars
<1>4. CASE pc' = "remove" /\ UNCHANGED <<base, todo, lbStat, ops, queued>>
  <2>1. HandlerKnows' /\ pc' \in PCs
    BY <1>1, <1>4 DEF IInv, HandlerKnows, PCs
  <2> QED
    BY <1>4, <2>1, HandlerMovesGood DEF DeleteFromClusters, IInv, TypeOK, apiVars, cacheVars
<1> QED
  BY Zenon, <1>2, <1>3, <1>4 DEF DeleteFromClusters

\* Removal of the last finalizer.
LEMMA RemoveDeleteFinalizerGood == IInv /\ RemoveDeleteFinalizer => GoodStep
<1> SUFFICES ASSUME IInv, RemoveDeleteFinalizer PROVE GoodStep
  OBVIOUS
<1>1. pc = "remove" /\ base.obj.finalizers = {"delete"} /\ {"delete"} \in SUBSET Finalizers
  BY DEF RemoveDeleteFinalizer, IInv, HandlerKnows, Finalizers
<1> QED
  BY <1>1, RemoveFinalizersGood DEF RemoveDeleteFinalizer

\* An unconditional write of the federated ingress, by a user or by name.
LEMMA FedWriteGood ==
  ASSUME IInv, NEW o \in FedIngresses \cup {None}, FedWrite(o),
         \/ o = None
         \/ /\ fed.obj # None /\ o.uid = fed.obj.uid
            /\ "delete" \in fed.obj.finalizers => "delete" \in o.finalizers
            /\ o.ann.ip = fed.obj.ann.ip
         \/ fed.obj = None /\ o.uid = fed.rv + 1,
         o # None => Content(o) = intent', intent' \in Contents,
         budget' \in [Events -> Nat],
         Return(FALSE) \/ Return(TRUE) \/ UNCHANGED <<handlerVars, queued>>,
         UNCHANGED <<cl, clWatch, cacheVars, clusterQueued, detached>>
  PROVE  GoodStep
<1> USE DEF cacheVars
<1>1. /\ fed' \in FedVersions /\ fedWatch' \subseteq FedVersions
      /\ fedWatch' \subseteq fedWatch \cup {fed'}
      /\ fed'.obj = o /\ (fed' = fed \/ fed'.rv = fed.rv + 1)
  BY FedWriteType DEF IInv, FedWrite
<1>2. FedStep /\ NoLostEdit'
  BY <1>1 DEF FedStep, NoLostEdit
<1>3. /\ pc' \in PCs /\ base' \in FedVersions /\ todo' \subseteq Clusters
      /\ lbStat' \in LBStats /\ ops' \subseteq Operations /\ queued' \in BOOLEAN
      /\ HandlerKnows' /\ base' \in {base, NoVersion} /\ ops' \subseteq ops
  BY Zenon, ReturnFacts DEF IInv, TypeOK, HandlerKnows, handlerVars
<1>4. TypeOK'
  BY Zenon, <1>1, <1>3 DEF IInv, TypeOK
<1>5. CopiesStep
  BY Zenon, <1>1, <1>3 DEF CopiesStep, FedCopies
<1>6. ObjectsStep
  BY <1>3, ClustersUnchanged DEF IInv, FinalizersStay, ObjectsStep
<1> QED
  BY <1>2, <1>3, <1>4, <1>5, <1>6 DEF GoodStep

\* Delete of the federated ingress by name, l. 987, whichever ingress has the name.
LEMMA DeleteByNameGood == IInv /\ DeleteByName => GoodStep
<1> SUFFICES ASSUME IInv, DeleteByName PROVE GoodStep
  OBVIOUS
<1> DEFINE d == [fed.obj EXCEPT !.deleting = TRUE]
           o == IF fed.obj = None THEN None ELSE Stored(d)
<1>1. /\ FedWrite(o) \/ FedWrite(fed.obj)
      /\ Return(FALSE) \/ Return(TRUE)
      /\ intent' = intent
      /\ UNCHANGED <<cl, clWatch, cacheVars, clusterQueued, detached>>
  BY Zenon DEF DeleteByName, FedWrite
<1>2. budget' \in [Events -> Nat]
  BY Zenon, SpendType DEF DeleteByName, IInv, TypeOK, Events
<1>3. fed.obj \in FedIngresses \cup {None} /\ intent \in Contents
  BY DEF IInv, TypeOK, FedVersions
<1>4. fed.obj # None => Content(fed.obj) = intent
  BY DEF IInv, NoLostEdit
<1>5. CASE FedWrite(fed.obj)
  BY Zenon, <1>1, <1>2, <1>3, <1>4, <1>5, FedWriteGood
<1>6. CASE FedWrite(o)
  <2>1. CASE fed.obj = None
    BY Zenon, <1>1, <1>2, <1>3, <1>6, <2>1, FedWriteGood
  <2>2. CASE fed.obj # None
    <3>1. /\ d \in FedIngresses /\ d.uid = fed.obj.uid
          /\ d.finalizers = fed.obj.finalizers
          /\ Content(d) = Content(fed.obj) /\ d.ann.ip = fed.obj.ann.ip
      BY Zenon, <1>3, <2>2 DEF FedIngresses, Content
    <3>2. o \in {d, None}
      BY DEF Stored
    <3> HIDE DEF d, o
    <3> QED
      BY Zenon, <1>1, <1>2, <1>3, <1>4, <1>6, <2>2, <3>1, <3>2, FedWriteGood
  <2> QED
    BY <2>1, <2>2
<1> QED
  BY <1>1, <1>5, <1>6

\* Users create with a fresh uid, edit, and delete without dropping the delete finalizer.
LEMMA UserGood ==
  ASSUME IInv, NEW content \in Contents, NEW orphan \in BOOLEAN,
         UserCreate(content) \/ UserEdit(content) \/ UserDelete(orphan)
  PROVE  GoodStep
<1>1. content \in [spec: Specs, type: {None, "global"}, selector: Selectors]
  BY ContentsAssumption
<1>2. budget' \in [Events -> Nat]
  BY SpendType DEF UserCreate, UserEdit, UserDelete, IInv, Events
<1>3. CASE UserCreate(content)
  <2> DEFINE o == NewFed(content, fed.rv + 1)
  <2>1. UserAnn(content) \in Annotations
    BY <1>1 DEF UserAnn, Annotations
  <2>2. o \in FedIngresses /\ o.uid = fed.rv + 1
    <3>1. fed.rv + 1 \in Nat
      BY DEF IInv, TypeOK, FedVersions
    <3> QED
      BY <1>1, <2>1, <3>1 DEF NewFed, FedIngresses, Finalizers
  <2>3. Content(o) = content
    BY <1>1 DEF NewFed, UserAnn, Content
  <2> HIDE DEF o
  <2>4. FedWrite(o)
    BY <1>3 DEF UserCreate, o
  <2> QED
    BY <1>2, <1>3, <2>2, <2>3, <2>4, FedWriteGood DEF UserCreate
<1>4. CASE UserEdit(content)
  <2> DEFINE o == [fed.obj EXCEPT !.spec = content.spec, !.ann.type = content.type,
                                  !.ann.selector = content.selector]
  <2>1. fed.obj \in FedIngresses
    BY <1>4 DEF UserEdit, IInv, TypeOK, FedVersions
  <2>2. /\ o \in FedIngresses /\ o.uid = fed.obj.uid /\ o.finalizers = fed.obj.finalizers
        /\ o.ann.ip = fed.obj.ann.ip
    BY Zenon, <1>1, <2>1 DEF FedIngresses, Annotations
  <2>3. Content(o) = content
    BY Zenon, <1>1, <2>1 DEF FedIngresses, Annotations, Content
  <2>4. FedWrite(o)
    BY <1>4 DEF UserEdit
  <2> HIDE DEF o
  <2> QED
    BY <1>2, <1>4, <2>2, <2>3, <2>4, FedWriteGood DEF UserEdit
<1>5. CASE UserDelete(orphan)
  <2> DEFINE fs == IF orphan THEN fed.obj.finalizers \cup {"orphan"}
                   ELSE fed.obj.finalizers \ {"orphan"}
             o == [fed.obj EXCEPT !.deleting = TRUE, !.finalizers = fs]
  <2>1. fed.obj \in FedIngresses
    BY <1>5 DEF UserDelete, IInv, TypeOK, FedVersions
  <2>2. fs \in SUBSET Finalizers /\ ("delete" \in fed.obj.finalizers => "delete" \in fs)
    BY <2>1 DEF FedIngresses, Finalizers
  <2>3. FedWrite(Stored(o))
    BY <1>5, <2>1 DEF UserDelete, FedIngresses
  <2> HIDE DEF fs
  <2>4. o \in FedIngresses /\ o.uid = fed.obj.uid /\ o.finalizers = fs
    BY Zenon, <2>1, <2>2 DEF FedIngresses
  <2>5. Content(o) = Content(fed.obj) /\ o.ann.ip = fed.obj.ann.ip
    BY <2>1 DEF FedIngresses, Content
  <2>6. Stored(o) \in {o, None}
    BY DEF Stored
  <2> HIDE DEF o
  <2>7. intent' = intent /\ intent \in Contents /\ Content(fed.obj) = intent
    BY <1>5 DEF UserDelete, IInv, NoLostEdit, TypeOK
  <2> QED
    BY <1>2, <1>5, <2>2, <2>3, <2>4, <2>5, <2>6, <2>7, FedWriteGood DEF UserDelete
<1> QED
  BY <1>3, <1>4, <1>5

\* Informer events and cluster health: stores change, API objects do not.
LEMMA DeliverFedGood == IInv /\ DeliverFed => GoodStep
<1> SUFFICES ASSUME IInv, DeliverFed PROVE GoodStep
  OBVIOUS
<1> USE DEF DeliverFed, handlerVars
<1>1. TypeOK'
  BY DEF IInv, TypeOK
<1>2. CopiesStep
  BY DEF CopiesStep, FedCopies
<1>3. HandlerKnows'
  BY DEF IInv, HandlerKnows
<1>4. ObjectsStep
  BY ClustersUnchanged DEF IInv, FinalizersStay, ObjectsStep
<1> QED
  BY <1>1, <1>2, <1>3, <1>4, FedUnchanged DEF GoodStep

\* Stores and watches of clusters shrink or are filled from the API server.
LEMMA ClusterStoresGood ==
  ASSUME IInv, clCache' \in [Clusters -> ClusterVersions],
         clWatch' \in [Clusters -> SUBSET ClusterVersions],
         \A c \in Clusters : ClusterCopies(c)' \subseteq ClusterCopies(c) \cup {NoVersion},
         ready' \subseteq Clusters, synced' \subseteq Clusters,
         queued' \in BOOLEAN, clusterQueued' \in BOOLEAN, budget' \in [Events -> Nat],
         UNCHANGED <<fed, fedWatch, fedCache, cl, handlerVars, detached, intent>>
  PROVE  GoodStep
<1> USE DEF handlerVars
<1>1. TypeOK'
  BY DEF IInv, TypeOK
<1>2. CopiesStep /\ HandlerKnows'
  BY DEF CopiesStep, FedCopies, IInv, HandlerKnows
<1>3. Covered(NoVersion.obj, fed)
  BY DEF NoVersion, Covered
<1>4. ObjectsStep
  BY <1>3 DEF IInv, FinalizersStay, ObjectsStep
<1> QED
  BY <1>1, <1>2, <1>4, FedUnchanged DEF GoodStep

\* Target informers deliver, list and stop as clusters come and go.
LEMMA ClusterEventGood ==
  ASSUME IInv, NEW c \in Clusters, DeliverCluster(c) \/ SyncInformer(c) \/ ClusterFlips(c)
  PROVE  GoodStep
<1>1. NoVersion \in ClusterVersions
  BY DEF NoVersion, ClusterVersions
<1>2. CASE DeliverCluster(c)
  <2> USE <1>2 DEF DeliverCluster
  <2>1. /\ clCache' \in [Clusters -> ClusterVersions]
        /\ clWatch' \in [Clusters -> SUBSET ClusterVersions]
    BY DEF IInv, TypeOK
  <2>2. \A d \in Clusters : ClusterCopies(d)' \subseteq ClusterCopies(d) \cup {NoVersion}
    BY DEF IInv, TypeOK, ClusterCopies
  <2> QED
    BY <2>1, <2>2, ClusterStoresGood DEF IInv, TypeOK
<1>3. CASE SyncInformer(c)
  <2> USE <1>3 DEF SyncInformer, apiVars
  <2>1. /\ clCache' \in [Clusters -> ClusterVersions]
        /\ clWatch' \in [Clusters -> SUBSET ClusterVersions]
    BY DEF IInv, TypeOK
  <2>2. \A d \in Clusters : ClusterCopies(d)' \subseteq ClusterCopies(d) \cup {NoVersion}
    BY DEF IInv, TypeOK, ClusterCopies
  <2> QED
    BY <2>1, <2>2, ClusterStoresGood DEF IInv, TypeOK
<1>4. CASE ClusterFlips(c)
  <2> USE <1>4 DEF ClusterFlips, StopInformer
  <2>1. /\ clCache' \in [Clusters -> ClusterVersions]
        /\ clWatch' \in [Clusters -> SUBSET ClusterVersions]
    BY <1>1 DEF IInv, TypeOK
  <2>2. \A d \in Clusters : ClusterCopies(d)' \subseteq ClusterCopies(d) \cup {NoVersion}
    BY DEF IInv, TypeOK, ClusterCopies
  <2>3. budget' \in [Events -> Nat]
    BY SpendType DEF IInv, Events
  <2> QED
    BY <2>1, <2>2, <2>3, ClusterStoresGood DEF IInv, TypeOK
<1> QED
  BY <1>2, <1>3, <1>4

\* reconcileIngressesOnClusterChange only fills the queues.
LEMMA ReconcileOnClusterChangeGood == IInv /\ ReconcileOnClusterChange => GoodStep
<1> SUFFICES ASSUME IInv, ReconcileOnClusterChange PROVE GoodStep
  OBVIOUS
<1> USE DEF ReconcileOnClusterChange, apiVars, cacheVars
<1>1. \A c \in Clusters : ClusterCopies(c)' \subseteq ClusterCopies(c) \cup {NoVersion}
  BY DEF ClusterCopies
<1>2. queued' \in BOOLEAN /\ clusterQueued' \in BOOLEAN
  BY DEF IInv, TypeOK, isSynced
<1> QED
  BY <1>1, <1>2, ClusterStoresGood DEF IInv, TypeOK

\* A restart forgets copies and makes none but the API server's.
LEMMA RestartGood == IInv /\ Restart => GoodStep
<1> SUFFICES ASSUME IInv, Restart PROVE GoodStep
  OBVIOUS
<1> USE DEF Restart
<1>1. NoVersion \in ClusterVersions /\ NoVersion \in FedVersions /\ NoLB \in LBStats
  BY DEF NoVersion, ClusterVersions, FedVersions, NoLB, LBStats
<1>2. budget' \in [Events -> Nat]
  BY SpendType DEF IInv, Events
<1>3. TypeOK'
  BY Zenon, <1>1, <1>2 DEF IInv, TypeOK, PCs
<1>4. CopiesStep /\ HandlerKnows'
  BY DEF CopiesStep, FedCopies, HandlerKnows
<1>5. \A c \in Clusters : ClusterCopies(c)' \subseteq ClusterCopies(c) \cup {NoVersion}
  BY DEF ClusterCopies
<1>6. Covered(NoVersion.obj, fed)
  BY DEF NoVersion, Covered
<1>7. ObjectsStep
  BY <1>5, <1>6 DEF IInv, FinalizersStay, ObjectsStep
<1> QED
  BY <1>3, <1>4, <1>7, FedUnchanged DEF GoodStep

\* A cluster's own controller changes its ingress, not whom it was made for.
LEMMA ClusterControllerGood ==
  ASSUME IInv, NEW c \in Clusters, NEW a \in Addrs \cup {None},
         ClusterSetsLB(c, a) \/ ClusterReportsIP(c)
  PROVE  GoodStep
<1> DEFINE o1 == [cl[c].obj EXCEPT !.lb = a]
           o2 == [cl[c].obj EXCEPT !.ann.static = StaticIP(c)]
<1> USE DEF cacheVars, handlerVars
<1>1. cl[c].obj \in ClusterIngresses /\ cl[c].obj # None /\ Covered(cl[c].obj, fed)
  BY DEF ClusterSetsLB, ClusterReportsIP, IInv, TypeOK, ClusterVersions, FinalizersStay,
         ClusterCopies
<1>2. StaticIP(c) \in Clusters \cup {None}
  BY <1>1 DEF StaticIP, Over, ClusterIngresses, Annotations
<1>3. o1 \in ClusterIngresses /\ o1.owner = cl[c].obj.owner
  BY <1>1 DEF ClusterIngresses
<1>4. o2 \in ClusterIngresses /\ o2.owner = cl[c].obj.owner
  BY <1>1, <1>2 DEF ClusterIngresses, Annotations
<1>5. ClusterWrite(c, o1) \/ ClusterWrite(c, o2)
  BY DEF ClusterSetsLB, ClusterReportsIP
<1> HIDE DEF o1, o2
<1>6. Covered(o1, fed) /\ Covered(o2, fed)
  BY <1>1, <1>3, <1>4 DEF Covered
<1>7. /\ cl' \in [Clusters -> ClusterVersions]
      /\ clWatch' \in [Clusters -> SUBSET ClusterVersions]
      /\ \A d \in Clusters : \A v \in ClusterCopies(d)' : Covered(v.obj, fed)
  BY <1>3, <1>4, <1>5, <1>6, ClusterWriteFacts DEF IInv, ClusterSetsLB, ClusterReportsIP
<1>8. budget' \in [Events -> Nat]
  BY SpendType DEF ClusterSetsLB, ClusterReportsIP, IInv, TypeOK, Events
<1>9. TypeOK'
  BY <1>7, <1>8 DEF IInv, TypeOK, ClusterSetsLB, ClusterReportsIP
<1>10. CopiesStep /\ HandlerKnows'
  BY DEF CopiesStep, FedCopies, IInv, HandlerKnows, ClusterSetsLB, ClusterReportsIP
<1>11. ObjectsStep
  BY <1>7 DEF IInv, FinalizersStay, ObjectsStep, ClusterSetsLB, ClusterReportsIP
<1> QED
  BY <1>9, <1>10, <1>11, FedUnchanged DEF GoodStep, ClusterSetsLB, ClusterReportsIP

-----------------------------------------------------------------------------
(* The theorems *)

\* A stuttering step is good.
LEMMA StutterGood == IInv /\ UNCHANGED vars => GoodStep
<1> SUFFICES ASSUME IInv, UNCHANGED vars PROVE GoodStep
  OBVIOUS
<1> USE DEF vars, apiVars, cacheVars
<1>1. \A c \in Clusters : ClusterCopies(c)' \subseteq ClusterCopies(c) \cup {NoVersion}
  BY DEF ClusterCopies
<1> QED
  BY <1>1, ClusterStoresGood DEF IInv, TypeOK

\* Every step from a state of the invariant is good.
LEMMA NextGood == IInv /\ [Next]_vars => GoodStep
<1> SUFFICES ASSUME IInv, [Next]_vars PROVE GoodStep
  OBVIOUS
<1>1. intent \in Contents /\ TRUE \in BOOLEAN /\ None \in Addrs \cup {None}
  BY DEF IInv, TypeOK
<1>2. CASE Handler
  <2>1. CASE \/ UpdateTimeout \/ HandleDeletion \/ DeleteFromClusters
             \/ RemoveDeleteFinalizer \/ DeleteByName
    BY <2>1, UpdateTimeoutGood, HandleDeletionGood, DeleteFromClustersGood,
       RemoveDeleteFinalizerGood, DeleteByNameGood
  <2>2. CASE Start \/ EnsureFinalizers \/ GetReadyClusters \/ PublishLBStatus \/ Dispatch
    BY <2>2, StartGood, EnsureFinalizersGood, GetReadyClustersGood, PublishLBStatusGood,
       DispatchGood
  <2>3. CASE \E c \in Clusters : Visit(c)
    BY <2>3, VisitGood
  <2>4. CASE \E op \in ops : OpSucceeds(op) \/ OpFails(op)
    BY <2>4, OpGood
  <2> QED
    BY <1>2, <2>1, <2>2, <2>3, <2>4 DEF Handler
<1>3. CASE Informers
  BY <1>3, DeliverFedGood, ReconcileOnClusterChangeGood, ClusterEventGood DEF Informers
<1>4. CASE \E op \in detached : DetachedOp(op)
  BY <1>4, DetachedOpGood
<1>5. CASE Environment
  <2>1. CASE \E content \in Contents : UserCreate(content) \/ UserEdit(content)
    BY Zenon, <1>1, <2>1, UserGood
  <2>2. CASE \E orphan \in BOOLEAN : UserDelete(orphan)
    BY <1>1, <2>2, UserGood
  <2>3. CASE \E c \in Clusters : \/ \E a \in Addrs \cup {None} : ClusterSetsLB(c, a)
                                 \/ ClusterReportsIP(c) \/ ClusterFlips(c)
    BY <1>1, <2>3, ClusterControllerGood, ClusterEventGood
  <2> QED
    BY <1>5, <2>1, <2>2, <2>3, RestartGood DEF Environment
<1> QED
  BY <1>2, <1>3, <1>4, <1>5, StutterGood DEF Next

\* The invariant holds initially.
LEMMA InitIInv == Init => IInv
<1> SUFFICES ASSUME Init PROVE IInv
  OBVIOUS
<1> USE DEF Init
<1>1. NoVersion \in ClusterVersions /\ NoVersion \in FedVersions /\ NoLB \in LBStats
  BY DEF NoVersion, ClusterVersions, FedVersions, NoLB, LBStats
<1>2. TypeOK
  BY Zenon, <1>1, BudgetAssumption DEF TypeOK, PCs
<1>3. VersionsAgree /\ HandlerKnows /\ NoLostEdit
  BY DEF VersionsAgree, FedCopies, NoVersion, HandlerKnows, NoLostEdit
<1>4. FinalizersStay
  BY DEF FinalizersStay, FedCopies, ClusterCopies, Covered, NoVersion
<1> QED
  BY <1>2, <1>3, <1>4 DEF IInv

\* IInv holds in every reachable state, for any set of clusters, manifests and
\* any number of environment events.
THEOREM Invariance == Spec => []IInv
<1>1. IInv /\ [Next]_vars => IInv'
  BY NextGood, GoodStepKeepsIInv
<1> QED
  BY <1>1, InitIInv, PTL DEF Spec

\* Type correctness.
THEOREM TypeCorrect == Spec => []TypeOK
<1>1. IInv => TypeOK
  BY DEF IInv
<1> QED
  BY <1>1, Invariance, PTL

\* No update of a stale base (ll. 692-708, 749, 879, removeFinalizers) undoes a
\* user's edit.
THEOREM EditsAreKept == Spec => []NoLostEdit
<1>1. IInv => NoLostEdit
  BY DEF IInv
<1> QED
  BY <1>1, Invariance, PTL

\* A cluster ingress never exists without the delete finalizer on the federated
\* ingress it was made for (EnsureFinalizers before the loop, l. 749).
THEOREM FinalizerCovers == Spec => []FinalizerCoversClusters
<1>1. IInv => FinalizerCoversClusters
  BY Zenon DEF IInv, FinalizersStay, Covered, ClusterCopies, FinalizerCoversClusters
<1> QED
  BY <1>1, Invariance, PTL

\* The IP name recorded on a federated ingress (ll. 864-868) is never replaced.
THEOREM RecordedIPStays == Spec => IPNeverChanges
<1> DEFINE IPStep == (fed.obj # None /\ fed'.obj # None /\ fed'.obj.uid = fed.obj.uid
                        /\ fed.obj.ann.ip # None) => fed'.obj.ann.ip = fed.obj.ann.ip
<1>1. IInv /\ [Next]_vars => [IPStep]_vars
  BY NextGood DEF GoodStep, FedStep
<1> QED
  BY <1>1, Invariance, PTL DEF Spec, IPNeverChanges
=============================================================================
