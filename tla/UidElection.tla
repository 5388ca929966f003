---------------------------- MODULE UidElection ----------------------------
(***************************************************************************)
(* The election of the ingress UID and its propagation to the clusters'    *)
(* ConfigMaps (pkg/controller/ingress/ingress_controller.go:               *)
(* reconcileConfigMapForCluster, reconcileConfigMap, getMasterCluster and  *)
(* updateClusterIngressUIDToMasters, with the federated informer and       *)
(* updater they use).                                                      *)
(*                                                                         *)
(* Two goroutines, the handlers of clusterDeliverer and configMapDeliverer,*)
(* run the same code.  Each reads a cluster object and a ConfigMap from    *)
(* the stores, then takes the controller's lock, and under it chooses the  *)
(* UID, records it as an annotation of the cluster object (Update with a   *)
(* resource version) and writes it to the ConfigMap in that cluster.  The  *)
(* ConfigMap it changes is the very object the store holds.                *)
(***************************************************************************)
EXTENDS Naturals

CONSTANTS
  Clusters,  \* members of the federation; the UID a cluster's own ingress
             \* controller generates is named after the cluster
  NoUid,     \* the empty UID
  None,      \* no cluster
  Budget     \* how many times each environment event may happen, and all together

Events == {"status", "tamper", "fault", "crash", "any"}

ASSUME UidBudgetAssumption == Budget \in [Events -> Nat]

Uids == Clusters \cup {NoUid}

\* A cluster object: its UID annotation and Ready condition.
ClusterVersions == [rv: Nat, uid: Uids, ready: BOOLEAN]
NoCluster == [rv |-> 0, uid |-> NoUid, ready |-> FALSE]

\* A ConfigMap: Data["uid"], and whether Data["provider-uid"] is the cluster's
\* (getProviderUid, a hash of its name); rv = 0 when it does not exist.  In a
\* store it is an object of its informer, the inst-th one of that cluster.
ConfigMaps == [rv: Nat, uid: Uids, prov: BOOLEAN, inst: Nat]
NoConfigMap == [rv |-> 0, uid |-> NoUid, prov |-> FALSE, inst |-> 0]

Handlers == {"cluster", "configmap"}

\* What a handler goroutine is doing, and the cluster, cluster object and
\* ConfigMap pointer it holds.
Tasks == [pc: {"idle", "get", "lock", "update"}, c: Clusters \cup {None},
          seen: ClusterVersions, obj: ConfigMaps]
Idle == [pc |-> "idle", c |-> None, seen |-> NoCluster, obj |-> NoConfigMap]

VARIABLES
  clusterObj,   \* the cluster objects on the federation API server
  clusterWatch, \* their versions the cluster informer has not delivered yet
  store,        \* clusterInformer.store of configMapFederatedInformer
  cm,           \* the ConfigMaps on the clusters' API servers
  cmWatch,      \* versions the target informers have not delivered yet
  cache,        \* the target informers' stores
  listed,       \* clusters whose target informer has listed
  inst,         \* how many target informers each cluster has had
  queue,        \* queue[h]: clusters in the deliverer of handler h
  task,         \* the handlers
  late,         \* ConfigMap updates whose Update call timed out
  budget        \* environment events left

fedVars == <<clusterObj, clusterWatch, store>>
cmVars == <<cm, cmWatch>>
vars == <<fedVars, cmVars, cache, listed, inst, queue, task, late, budget>>

\* Every variable has its type.
TypeOK ==
  /\ clusterObj \in [Clusters -> ClusterVersions]
  /\ clusterWatch \in [Clusters -> SUBSET ClusterVersions]
  /\ store \in [Clusters -> ClusterVersions]
  /\ cm \in [Clusters -> ConfigMaps] /\ cache \in [Clusters -> ConfigMaps]
  /\ cmWatch \in [Clusters -> SUBSET ConfigMaps]
  /\ listed \subseteq Clusters /\ inst \in [Clusters -> Nat]
  /\ queue \in [Handlers -> SUBSET Clusters] /\ task \in [Handlers -> Tasks]
  /\ late \subseteq [c: Clusters, obj: ConfigMaps]
  /\ budget \in [Events -> Nat]

-----------------------------------------------------------------------------
(* The API servers *)

Spend(e) ==
  /\ budget[e] > 0 /\ budget["any"] > 0
  /\ budget' = [budget EXCEPT ![e] = @ - 1, !["any"] = @ - 1]

ClusterWrite(c, o) ==
  LET v == [o EXCEPT !.rv = clusterObj[c].rv + 1] IN
  /\ clusterObj' = [clusterObj EXCEPT ![c] = v]
  /\ clusterWatch' = [clusterWatch EXCEPT ![c] = @ \cup {v}]

\* Only a listed informer has a watch open.
CMWrite(c, o) ==
  LET v == [o EXCEPT !.rv = cm[c].rv + 1, !.inst = 0] IN
  /\ cm' = [cm EXCEPT ![c] = v]
  /\ cmWatch' = [cmWatch EXCEPT ![c] = IF c \in listed THEN @ \cup {v} ELSE {}]

\* Clusters().Update of the version a handler has seen, with another UID.
UpdateClusterOK(t, u) ==
  /\ clusterObj[t.c].rv = t.seen.rv
  /\ ClusterWrite(t.c, [clusterObj[t.c] EXCEPT !.uid = u])
  /\ UNCHANGED budget

UpdateClusterFails(t, u) ==
  \/ clusterObj[t.c].rv # t.seen.rv /\ UNCHANGED <<clusterObj, clusterWatch, budget>>
  \/ Spend("fault") /\ UNCHANGED <<clusterObj, clusterWatch>>
  \/ /\ Spend("fault") /\ clusterObj[t.c].rv = t.seen.rv
     /\ ClusterWrite(t.c, [clusterObj[t.c] EXCEPT !.uid = u])

-----------------------------------------------------------------------------
(* reconcileConfigMapForCluster and reconcileConfigMap *)

\* isSynced, ll. 441-453; the ingress informer's half is left out.
isSynced ==
  /\ \A c \in Clusters : store[c].rv > 0
  /\ listed = {c \in Clusters : store[c].ready}

Requeue(c) == queue' = [queue EXCEPT !["configmap"] = @ \cup {c}]

\* A delivered cluster that cannot be handled goes (back) to configMapDeliverer,
\* ll. 487-490 and 506-510.  reconcileIngressesOnClusterChange also keeps it in
\* clusterDeliverer while the stores are not synced.
Postpone(h, c) ==
  /\ task[h].pc = "idle" /\ c \in queue[h]
  /\ ~isSynced \/ ~store[c].ready
  /\ IF h = "cluster" /\ isSynced
     THEN queue' = [queue EXCEPT !["cluster"] = @ \ {c}, !["configmap"] = @ \cup {c}]
     ELSE Requeue(c)
  /\ UNCHANGED <<fedVars, cmVars, cache, listed, inst, task, late, budget>>

\* GetReadyCluster, l. 505.
Take(h, c) ==
  /\ task[h].pc = "idle" /\ c \in queue[h]
  /\ isSynced /\ store[c].ready
  /\ queue' = [queue EXCEPT ![h] = @ \ {c}]
  /\ task' = [task EXCEPT ![h] = [Idle EXCEPT !.pc = "get", !.c = c, !.seen = store[c]]]
  /\ UNCHANGED <<fedVars, cmVars, cache, listed, inst, late, budget>>

\* Mutant: the name to redeliver is read after the task has been cleared.
GetForgetsName(h) ==
  LET c == task[h].c IN
  /\ task[h].pc = "get"
  /\ IF cache[c].rv = 0
     THEN task' = [task EXCEPT ![h] = Idle] /\ Requeue(Idle.c)
     ELSE /\ task' = [task EXCEPT ![h].pc = "lock", ![h].obj = cache[c]]
          /\ UNCHANGED queue
  /\ UNCHANGED <<fedVars, cmVars, cache, listed, inst, late, budget>>

\* GetByKey of the ConfigMap, ll. 512-527.
Get(h) ==
  LET c == task[h].c IN
  /\ task[h].pc = "get"
  /\ IF cache[c].rv = 0
     THEN task' = [task EXCEPT ![h] = Idle] /\ Requeue(c)
     ELSE /\ task' = [task EXCEPT ![h].pc = "lock", ![h].obj = cache[c]]
          /\ UNCHANGED queue
  /\ UNCHANGED <<fedVars, cmVars, cache, listed, inst, late, budget>>

\* ic.Lock() is free.
Lock(h) == task[h].pc = "lock" /\ \A g \in Handlers : task[g].pc # "update"

\* getMasterCluster: any ready cluster whose annotation the store shows.
Masters == {c \in Clusters : store[c].ready /\ store[c].uid # NoUid}

\* Two pointers to the same ConfigMap object in memory.
Same(o, p) == o.rv = p.rv /\ o.inst = p.inst

\* Mutant: the provider UID is not written.
SettleWithoutProvider(h, u) ==
  LET t == task[h]
      new == [t.obj EXCEPT !.uid = u]
  IN IF new = t.obj
     THEN task' = [task EXCEPT ![h] = Idle] /\ UNCHANGED cache
     ELSE /\ task' = [task EXCEPT ![h].pc = "update", ![h].obj = new]
          /\ cache' = [cache EXCEPT ![t.c] = IF Same(@, t.obj) THEN new ELSE @]

\* ll. 582-603: with UID u chosen, the ConfigMap is right, or it is changed in
\* place, for everyone who holds it, and handed to the updater.
Settle(h, u) ==
  LET t == task[h]
      new == [t.obj EXCEPT !.uid = u, !.prov = TRUE]
  IN IF new = t.obj
     THEN task' = [task EXCEPT ![h] = Idle] /\ UNCHANGED cache
     ELSE /\ task' = [g \in Handlers |->
                        IF g = h THEN [t EXCEPT !.pc = "update", !.obj = new]
                        ELSE IF task[g].c = t.c /\ Same(task[g].obj, t.obj)
                        THEN [task[g] EXCEPT !.obj = new] ELSE task[g]]
          /\ cache' = [cache EXCEPT ![t.c] = IF Same(@, t.obj) THEN new ELSE @]

\* The cluster object read before the lock had a UID.
Known(h) ==
  /\ Lock(h) /\ task[h].seen.uid # NoUid
  /\ Settle(h, task[h].seen.uid)
  /\ UNCHANGED <<fedVars, cmVars, listed, inst, queue, late, budget>>

\* Mutant: the cluster object in the store is changed instead of a clone.
AnnotateInPlace(h, u) ==
  LET t == task[h] IN
  /\ \/ UpdateClusterOK(t, u) /\ Settle(h, u)
     \/ /\ UpdateClusterFails(t, u)
        /\ task' = [task EXCEPT ![h] = Idle] /\ UNCHANGED cache
  /\ store' = [store EXCEPT ![t.c].uid = IF store[t.c].rv = t.seen.rv THEN u ELSE @]
  /\ UNCHANGED <<cmVars, listed, inst, queue, late>>

\* updateClusterIngressUIDToMasters writes u; an error ends the reconciliation.
Annotate(h, u) ==
  /\ \/ UpdateClusterOK(task[h], u) /\ Settle(h, u)
     \/ /\ UpdateClusterFails(task[h], u)
        /\ task' = [task EXCEPT ![h] = Idle] /\ UNCHANGED cache
  /\ UNCHANGED <<store, cmVars, listed, inst, queue, late>>

\* Mutant: a cluster that has a UID follows the master too.
FollowAlways(h) ==
  /\ Lock(h)
  /\ \E m \in Masters \ {task[h].c} : Annotate(h, store[m].uid)

\* Another cluster is the master, ll. 647-658.
Follow(h) ==
  /\ Lock(h) /\ task[h].seen.uid = NoUid
  /\ \E m \in Masters \ {task[h].c} : Annotate(h, store[m].uid)

\* The master found is this cluster, whose annotation appeared after it was
\* read: the empty UID of the version read is used, ll. 659-662.
SelfMaster(h) ==
  /\ Lock(h) /\ task[h].seen.uid = NoUid /\ task[h].c \in Masters
  /\ Settle(h, NoUid)
  /\ UNCHANGED <<fedVars, cmVars, listed, inst, queue, late, budget>>

\* No master: this cluster's ConfigMap supplies the UID, ll. 663-677.
ElectSelf(h) ==
  /\ Lock(h) /\ task[h].seen.uid = NoUid /\ Masters = {}
  /\ task[h].obj.uid # NoUid
  /\ Annotate(h, task[h].obj.uid)

\* No master and no UID to offer, ll. 678-681.
NoFallback(h) ==
  /\ Lock(h) /\ task[h].seen.uid = NoUid /\ Masters = {}
  /\ task[h].obj.uid = NoUid
  /\ task' = [task EXCEPT ![h] = Idle]
  /\ UNCHANGED <<fedVars, cmVars, cache, listed, inst, queue, late, budget>>

\* Mutant: the lock is kept after a conflict.
UpdateConfigMapKeepsLock(h) ==
  LET t == task[h] IN
  /\ t.pc = "update"
  /\ IF cm[t.c].rv = t.obj.rv
     THEN CMWrite(t.c, t.obj) /\ task' = [task EXCEPT ![h] = Idle] /\ UNCHANGED queue
     ELSE Requeue(t.c) /\ UNCHANGED <<cmVars, task>>
  /\ UNCHANGED <<fedVars, cache, listed, inst, late, budget>>

\* federatedConfigMapUpdater.Update: done, or failed and redelivered, ll. 603-607.
\* A conflict, an unready cluster, a failed request (applied or not), a timeout.
UpdateConfigMap(h) ==
  LET t == task[h]
      current == cm[t.c].rv = t.obj.rv
  IN /\ t.pc = "update"
     /\ \/ /\ current /\ CMWrite(t.c, t.obj)
           /\ UNCHANGED <<queue, late, budget>>
        \/ /\ ~current \/ ~store[t.c].ready
           /\ Requeue(t.c)
           /\ UNCHANGED <<cmVars, late, budget>>
        \/ /\ Spend("fault") /\ Requeue(t.c)
           /\ \/ UNCHANGED <<cmVars, late>>
              \/ current /\ CMWrite(t.c, t.obj) /\ UNCHANGED late
              \/ late' = late \cup {[c |-> t.c, obj |-> t.obj]} /\ UNCHANGED cmVars
     /\ task' = [task EXCEPT ![h] = Idle]
     /\ UNCHANGED <<fedVars, cache, listed, inst>>

\* An update that timed out arrives after all, or does not.
LateUpdate(op) ==
  /\ op \in late /\ late' = late \ {op}
  /\ IF cm[op.c].rv = op.obj.rv THEN CMWrite(op.c, op.obj) ELSE UNCHANGED cmVars
  /\ UNCHANGED <<fedVars, cache, listed, inst, queue, task, budget>>

-----------------------------------------------------------------------------
(* Informers *)

Oldest(watch, v) == v \in watch /\ \A w \in watch : v.rv <= w.rv

\* The cluster informer stores a version; a changed annotation or Ready condition
\* stops the target informer, starts another and delivers the cluster
\* (UpdateFunc ll. 198-228, life-cycle handlers ll. 209-218 and 253-257).
DeliverCluster(c) ==
  /\ \E v \in clusterWatch[c] :
       /\ Oldest(clusterWatch[c], v)
       /\ clusterWatch' = [clusterWatch EXCEPT ![c] = @ \ {v}]
       /\ store' = [store EXCEPT ![c] = v]
       /\ IF v.uid = store[c].uid /\ v.ready = store[c].ready
          THEN UNCHANGED <<cmWatch, cache, listed, inst, queue>>
          ELSE /\ listed' = listed \ {c} /\ inst' = [inst EXCEPT ![c] = @ + 1]
               /\ cache' = [cache EXCEPT ![c] = NoConfigMap]
               /\ cmWatch' = [cmWatch EXCEPT ![c] = {}]
               /\ queue' = [queue EXCEPT !["cluster"] = @ \cup {c}]
  /\ UNCHANGED <<clusterObj, cm, task, late, budget>>

\* A target informer lists; a ConfigMap it finds is delivered.
List(c) ==
  /\ store[c].ready /\ c \notin listed
  /\ listed' = listed \cup {c}
  /\ cache' = [cache EXCEPT ![c] = IF cm[c].rv = 0 THEN NoConfigMap
                                   ELSE [cm[c] EXCEPT !.inst = inst[c]]]
  /\ IF cm[c].rv = 0 THEN UNCHANGED queue ELSE Requeue(c)
  /\ UNCHANGED <<fedVars, cmVars, inst, task, late, budget>>

\* Mutant: a change of the ConfigMap triggers nothing.
DeliverConfigMapSilently(c) ==
  /\ \E v \in cmWatch[c] :
       /\ Oldest(cmWatch[c], v)
       /\ cmWatch' = [cmWatch EXCEPT ![c] = @ \ {v}]
       /\ cache' = [cache EXCEPT ![c] = [v EXCEPT !.inst = inst[c]]]
  /\ UNCHANGED <<fedVars, cm, listed, inst, queue, task, late, budget>>

\* A target informer delivers a changed ConfigMap.
DeliverConfigMap(c) ==
  /\ \E v \in cmWatch[c] :
       /\ Oldest(cmWatch[c], v)
       /\ cmWatch' = [cmWatch EXCEPT ![c] = @ \ {v}]
       /\ cache' = [cache EXCEPT ![c] = [v EXCEPT !.inst = inst[c]]]
  /\ Requeue(c)
  /\ UNCHANGED <<fedVars, cm, listed, inst, task, late, budget>>

-----------------------------------------------------------------------------
(* Environment *)

\* The cluster controller refreshes the status of a cluster object.
Heartbeat(c) ==
  /\ Spend("status") /\ ClusterWrite(c, clusterObj[c])
  /\ UNCHANGED <<store, cmVars, cache, listed, inst, queue, task, late>>

Flip(c) ==
  /\ Spend("status") /\ ClusterWrite(c, [clusterObj[c] EXCEPT !.ready = ~@])
  /\ UNCHANGED <<store, cmVars, cache, listed, inst, queue, task, late>>

\* The cluster's ingress controller creates its ConfigMap.
CreateConfigMap(c) ==
  /\ cm[c].rv = 0
  /\ CMWrite(c, [NoConfigMap EXCEPT !.uid = c])
  /\ UNCHANGED <<fedVars, cache, listed, inst, queue, task, late, budget>>

\* Somebody in the cluster writes another UID to the ConfigMap.
Tamper(c, u) ==
  /\ cm[c].rv > 0 /\ cm[c].uid # u /\ Spend("tamper")
  /\ CMWrite(c, [cm[c] EXCEPT !.uid = u])
  /\ UNCHANGED <<fedVars, cache, listed, inst, queue, task, late>>

\* The controller process restarts; all its memory is lost.
Restart ==
  /\ Spend("crash")
  /\ clusterWatch' = [c \in Clusters |-> {clusterObj[c]}]
  /\ store' = [c \in Clusters |-> NoCluster]
  /\ cmWatch' = [c \in Clusters |-> {}]
  /\ cache' = [c \in Clusters |-> NoConfigMap]
  /\ listed' = {} /\ queue' = [h \in Handlers |-> {}]
  /\ late' = late \cup {[c |-> task[h].c, obj |-> task[h].obj] :
                          h \in {g \in Handlers : task[g].pc = "update"}}
  /\ task' = [h \in Handlers |-> Idle]
  /\ UNCHANGED <<clusterObj, cm, inst>>

-----------------------------------------------------------------------------
Init ==
  /\ clusterObj = [c \in Clusters |-> [rv |-> 1, uid |-> NoUid, ready |-> TRUE]]
  /\ clusterWatch = [c \in Clusters |-> {clusterObj[c]}]
  /\ store = [c \in Clusters |-> NoCluster]
  /\ cm = [c \in Clusters |-> NoConfigMap]
  /\ cmWatch = [c \in Clusters |-> {}]
  /\ cache = [c \in Clusters |-> NoConfigMap]
  /\ listed = {} /\ inst = [c \in Clusters |-> 0]
  /\ queue = [h \in Handlers |-> {}] /\ task = [h \in Handlers |-> Idle]
  /\ late = {} /\ budget = Budget

\* The goroutine of a deliverer.
Handler(h) ==
  \/ \E c \in Clusters : Postpone(h, c) \/ Take(h, c)
  \/ Get(h) \/ Known(h) \/ Follow(h) \/ SelfMaster(h) \/ ElectSelf(h) \/ NoFallback(h)
  \/ UpdateConfigMap(h)

Informers ==
  \E c \in Clusters : DeliverCluster(c) \/ List(c) \/ DeliverConfigMap(c)

Environment ==
  \/ \E c \in Clusters : \/ Heartbeat(c) \/ Flip(c) \/ CreateConfigMap(c)
                         \/ \E u \in Uids : Tamper(c, u)
  \/ Restart

Next ==
  \/ \E h \in Handlers : Handler(h)
  \/ \E op \in late : LateUpdate(op)
  \/ Informers \/ Environment

Spec == Init /\ [][Next]_vars

\* The goroutines and informers run; every cluster gets its ConfigMap.  Nothing is
\* assumed of the order in which a deliverer hands out clusters, nor of failures,
\* cluster health and other writers.
Fairness ==
  /\ \A h \in Handlers : WF_vars(Handler(h))
  /\ \A c \in Clusters :
       /\ WF_vars(DeliverCluster(c)) /\ WF_vars(List(c)) /\ WF_vars(DeliverConfigMap(c))
       /\ WF_vars(CreateConfigMap(c))
  /\ WF_vars(\E op \in late : LateUpdate(op))

FairSpec == Spec /\ Fairness

-----------------------------------------------------------------------------
(* Properties *)

\* A UID, once recorded as a cluster's annotation, is never replaced, whatever
\* the stores showed the handler (ll. 572-580, 646-677).
UidStable ==
  [][\A c \in Clusters : clusterObj[c].uid # NoUid
                           => clusterObj'[c].uid = clusterObj[c].uid]_vars

\* The versions of cluster c's object that the controller holds.
Copies(c) ==
  {store[c]} \cup clusterWatch[c] \cup {task[h].seen : h \in {g \in Handlers : task[g].c = c}}

\* The inductive invariant behind UidStable: a copy with the current resource
\* version is the current object, so that the resource version check of
\* Clusters().Update (ll. 652 and 671) protects an annotation the handler has
\* not seen; the handlers never change a stored cluster object (l. 639).
UidInv ==
  /\ TypeOK
  /\ \A h \in Handlers : task[h].pc # "idle" => task[h].c \in Clusters
  /\ \A c \in Clusters :
       /\ clusterObj[c].rv > 0
       /\ \A v \in Copies(c) : /\ v.rv <= clusterObj[c].rv
                               /\ v.rv = clusterObj[c].rv => v = clusterObj[c]

\* Every cluster has a UID annotation and its ConfigMap holds it.
Settled ==
  \A c \in Clusters : clusterObj[c].ready =>
    /\ clusterObj[c].uid # NoUid
    /\ cm[c].uid = clusterObj[c].uid /\ cm[c].prov

\* Once users and clusters are quiet, every ready cluster's ConfigMap has the UID
\* of the cluster's annotation (ll. 546-553), and keeps it.
Settles == <>[]Settled

\* "If the UID in the configmap differs from the UID stored in the cluster's
\* annotation, the configmap is updated." (l. 550): after foreign writes, flips and
\* restarts it ends up with that UID.  After a failed request it need not, because
\* l. 594 has changed the store already and the difference no longer shows.
ConfigMapsFollow ==
  <>[](budget.fault = Budget.fault => \A c \in Clusters :
         clusterObj[c].ready /\ clusterObj[c].uid # NoUid /\ cm[c].rv > 0
           => cm[c].uid = clusterObj[c].uid)

\* Nothing about cluster c is queued, under way in a handler or on its way to a store.
AtRest(c) ==
  /\ c \in listed /\ clusterWatch[c] = {} /\ cmWatch[c] = {}
  /\ \A h \in Handlers : c \notin queue[h] /\ task[h].c # c

\* The two handlers, which change the store's ConfigMap in place and act on cluster
\* objects read before the lock, leave a cluster alone only when its ConfigMap has the
\* UID of its annotation and its provider UID (ll. 498-609), if no request failed.
RestIsSettled ==
  budget.fault = Budget.fault => \A c \in Clusters :
    AtRest(c) /\ clusterObj[c].uid # NoUid /\ cm[c].rv > 0
      => cm[c].uid = clusterObj[c].uid /\ cm[c].prov

\* "All other clusters must use the ingress UID of the elected master." (l. 614)
SingleUid ==
  \A c, d \in Clusters :
    clusterObj[c].uid # NoUid /\ clusterObj[d].uid # NoUid
      => clusterObj[c].uid = clusterObj[d].uid
=============================================================================
