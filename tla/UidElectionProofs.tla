------------------------- MODULE UidElectionProofs -------------------------
(***************************************************************************)
(* Proofs about UidElection: the inductive invariant UidInv, type          *)
(* correctness, and that a recorded UID is never replaced, for any set of  *)
(* clusters and any number of environment events.                          *)
(***************************************************************************)
EXTENDS UidElection, TLAPS

\* What a step does to the cluster objects: each stays, or gets the next version,
\* with the same UID unless it had none.
ClusterStep ==
  \A c \in Clusters :
    \/ clusterObj'[c] = clusterObj[c]
    \/ /\ clusterObj'[c].rv = clusterObj[c].rv + 1
       /\ clusterObj[c].uid # NoUid => clusterObj'[c].uid = clusterObj[c].uid

\* Copies only come from copies or from the API server.
CopiesStep ==
  \A c \in Clusters : Copies(c)' \subseteq Copies(c) \cup {clusterObj'[c], NoCluster}

TasksStep == \A h \in Handlers : task'[h].pc # "idle" => task'[h].c \in Clusters

GoodStep == TypeOK' /\ ClusterStep /\ CopiesStep /\ TasksStep

\* What good steps add up to.
LEMMA GoodStepKeepsUidInv == UidInv /\ GoodStep => UidInv'
<1> SUFFICES ASSUME UidInv, GoodStep PROVE UidInv'
  OBVIOUS
<1>1. TypeOK' /\ TasksStep
  BY DEF GoodStep
<1>2. ASSUME NEW c \in Clusters
      PROVE  /\ clusterObj'[c].rv > 0
             /\ \A v \in Copies(c)' : /\ v.rv <= clusterObj'[c].rv
                                      /\ v.rv = clusterObj'[c].rv => v = clusterObj'[c]
  <2>1. /\ clusterObj[c] \in ClusterVersions /\ clusterObj'[c] \in ClusterVersions
        /\ clusterObj[c].rv > 0
    BY DEF UidInv, TypeOK, GoodStep
  <2>2. clusterObj[c].rv \in Nat /\ clusterObj'[c].rv \in Nat
    BY <2>1 DEF ClusterVersions
  <2>3. clusterObj'[c] = clusterObj[c] \/ clusterObj'[c].rv = clusterObj[c].rv + 1
    BY DEF GoodStep, ClusterStep
  <2>4. ASSUME NEW v \in Copies(c)'
        PROVE  v.rv <= clusterObj'[c].rv /\ (v.rv = clusterObj'[c].rv => v = clusterObj'[c])
    <3>1. CASE v \in Copies(c)
      <4>1. v.rv \in Nat
        BY <3>1 DEF Copies, UidInv, TypeOK, ClusterVersions, Tasks
      <4>2. v.rv <= clusterObj[c].rv /\ (v.rv = clusterObj[c].rv => v = clusterObj[c])
        BY <3>1 DEF UidInv
      <4> QED
        BY <2>2, <2>3, <4>1, <4>2
    <3>2. CASE v = clusterObj'[c]
      BY <2>2, <3>2
    <3>3. CASE v = NoCluster
      BY <2>1, <2>2, <2>3, <3>3 DEF NoCluster
    <3> QED
      BY <2>4, <3>1, <3>2, <3>3 DEF GoodStep, CopiesStep
  <2>5. clusterObj'[c].rv > 0
    BY <2>1, <2>2, <2>3
  <2> QED
    BY <2>4, <2>5
<1> QED
  BY <1>1, <1>2 DEF UidInv, TasksStep

\* The initial cluster, ConfigMap and task records have their types.
LEMMA Constants ==
  /\ NoCluster \in ClusterVersions /\ NoConfigMap \in ConfigMaps /\ Idle \in Tasks
  /\ Idle.pc = "idle" /\ Idle.c = None /\ Idle.seen = NoCluster
BY DEF NoCluster, ClusterVersions, NoConfigMap, ConfigMaps, Idle, Tasks, Uids

\* Spending an event leaves a budget.
LEMMA SpendType ==
  ASSUME TypeOK, NEW e \in Events \ {"any"}, Spend(e)
  PROVE  budget' \in [Events -> Nat]
BY DEF TypeOK, Spend, Events

\* A write of a ConfigMap keeps the types.
LEMMA CMWriteType ==
  ASSUME TypeOK, NEW c \in Clusters, NEW o \in ConfigMaps, CMWrite(c, o)
  PROVE  cm' \in [Clusters -> ConfigMaps] /\ cmWatch' \in [Clusters -> SUBSET ConfigMaps]
<1> DEFINE v == [o EXCEPT !.rv = cm[c].rv + 1, !.inst = 0]
<1>1. v \in ConfigMaps
  <2>1. cm[c] \in ConfigMaps
    BY DEF TypeOK
  <2>2. cm[c].rv + 1 \in Nat
    BY <2>1 DEF ConfigMaps
  <2> QED
    BY Zenon, <2>2 DEF ConfigMaps
<1> HIDE DEF v
<1>2. cm' = [cm EXCEPT ![c] = v]
      /\ cmWatch' = [cmWatch EXCEPT ![c] = IF c \in listed THEN @ \cup {v} ELSE {}]
  BY DEF CMWrite, v
<1> QED
  BY <1>1, <1>2 DEF TypeOK

\* A write of cluster object c with the UID of o, which may replace none.
LEMMA ClusterWriteFacts ==
  ASSUME TypeOK, NEW c \in Clusters, NEW o \in ClusterVersions, ClusterWrite(c, o),
         clusterObj[c].uid # NoUid => o.uid = clusterObj[c].uid
  PROVE  /\ clusterObj' \in [Clusters -> ClusterVersions]
         /\ clusterWatch' \in [Clusters -> SUBSET ClusterVersions]
         /\ ClusterStep
         /\ \A d \in Clusters : clusterWatch'[d] \subseteq clusterWatch[d] \cup {clusterObj'[d]}
<1> DEFINE v == [o EXCEPT !.rv = clusterObj[c].rv + 1]
<1>1. v \in ClusterVersions /\ v.rv = clusterObj[c].rv + 1 /\ v.uid = o.uid
  BY SMTT(30) DEF TypeOK, ClusterVersions
<1> HIDE DEF v
<1>2. /\ clusterObj' = [clusterObj EXCEPT ![c] = v]
      /\ clusterWatch' = [clusterWatch EXCEPT ![c] = @ \cup {v}]
  BY DEF ClusterWrite, v
<1> QED
  BY <1>1, <1>2 DEF TypeOK, ClusterStep

\* Handlers that keep what they have seen, or are idle, make no new copies.
LEMMA CopiesFacts ==
  ASSUME TypeOK, TypeOK',
         \A c \in Clusters : clusterWatch'[c] \subseteq clusterWatch[c] \cup {clusterObj'[c]},
         \A c \in Clusters : store'[c] \in Copies(c) \cup {NoCluster},
         \A h \in Handlers : \/ task'[h].c = task[h].c /\ task'[h].seen = task[h].seen
                             \/ task'[h].seen = NoCluster
                             \/ task'[h].c \in Clusters /\ task'[h].seen = store[task'[h].c]
  PROVE  CopiesStep
<1> SUFFICES ASSUME NEW c \in Clusters, NEW v \in Copies(c)'
             PROVE  v \in Copies(c) \cup {clusterObj'[c], NoCluster}
  BY DEF CopiesStep
<1>1. CASE v = store'[c] \/ v \in clusterWatch'[c]
  BY <1>1 DEF Copies
<1>2. CASE \E h \in Handlers : task'[h].c = c /\ v = task'[h].seen
  BY <1>2 DEF Copies
<1> QED
  BY <1>1, <1>2 DEF Copies

\* A step that leaves the cluster objects, their watch and store alone.
LEMMA FedUnchanged ==
  ASSUME UidInv, TypeOK', UNCHANGED fedVars, TasksStep,
         \A h \in Handlers : \/ task'[h].c = task[h].c /\ task'[h].seen = task[h].seen
                             \/ task'[h].seen = NoCluster
                             \/ task'[h].c \in Clusters /\ task'[h].seen = store[task'[h].c]
  PROVE  GoodStep
<1>1. CopiesStep
  BY CopiesFacts DEF UidInv, fedVars, Copies
<1>2. ClusterStep
  BY DEF fedVars, ClusterStep
<1> QED
  BY <1>1, <1>2 DEF GoodStep

\* Facts about the task of a handler that is at work.
LEMMA TaskFacts ==
  ASSUME UidInv, NEW h \in Handlers, task[h].pc # "idle"
  PROVE  /\ task[h] \in Tasks /\ task[h].c \in Clusters
         /\ task[h].seen \in ClusterVersions /\ task[h].obj \in ConfigMaps
         /\ cache[task[h].c] \in ConfigMaps
         /\ task[h].seen \in Copies(task[h].c)
BY DEF UidInv, TypeOK, Tasks, Copies

\* Redelivery keeps the type of the queues.
LEMMA RequeueType ==
  ASSUME TypeOK, NEW c \in Clusters, Requeue(c)
  PROVE  queue' \in [Handlers -> SUBSET Clusters]
BY DEF TypeOK, Requeue, Handlers

\* A cluster that cannot be handled yet is only put back in the queues.
LEMMA PostponeGood ==
  ASSUME UidInv, NEW h \in Handlers, NEW c \in Clusters, Postpone(h, c)
  PROVE  GoodStep
<1>1. queue' \in [Handlers -> SUBSET Clusters]
  BY RequeueType DEF Postpone, UidInv, TypeOK, Handlers
<1>2. TypeOK'
  BY <1>1 DEF Postpone, UidInv, TypeOK, fedVars, cmVars
<1> QED
  BY <1>2, FedUnchanged DEF Postpone, UidInv, TasksStep

\* GetReadyCluster: the handler's copy is the store's.
LEMMA TakeGood ==
  ASSUME UidInv, NEW h \in Handlers, NEW c \in Clusters, Take(h, c)
  PROVE  GoodStep
<1> DEFINE t == [Idle EXCEPT !.pc = "get", !.c = c, !.seen = store[c]]
<1>1. t \in Tasks /\ t.c = c /\ t.seen = store[c]
  BY Zenon DEF UidInv, TypeOK, Idle, Tasks, NoConfigMap, ConfigMaps, Uids
<1>2. task' = [task EXCEPT ![h] = t]
  BY DEF Take
<1> HIDE DEF t
<1>3. TypeOK'
  BY <1>1, <1>2 DEF Take, UidInv, TypeOK, fedVars, cmVars
<1>4. \A g \in Handlers : task'[g] = IF g = h THEN t ELSE task[g]
  BY <1>2 DEF UidInv, TypeOK
<1> QED
  BY <1>1, <1>3, <1>4, FedUnchanged DEF Take, UidInv, TasksStep

\* GetByKey of the ConfigMap, or redelivery.
LEMMA GetGood ==
  ASSUME UidInv, NEW h \in Handlers, Get(h)
  PROVE  GoodStep
<1> DEFINE t == [task[h] EXCEPT !.pc = "lock", !.obj = cache[task[h].c]]
<1>1. /\ task[h] \in Tasks /\ task[h].c \in Clusters /\ cache[task[h].c] \in ConfigMaps
  BY TaskFacts DEF Get
<1>2. t \in Tasks /\ t.c = task[h].c /\ t.seen = task[h].seen
  BY Zenon, <1>1 DEF Tasks
<1>3. \/ task' = [task EXCEPT ![h] = Idle]
      \/ task' = [task EXCEPT ![h] = t]
  BY Zenon DEF Get, UidInv, TypeOK
<1> HIDE DEF t
<1>4. queue' \in [Handlers -> SUBSET Clusters]
  BY <1>1, RequeueType DEF Get, UidInv, TypeOK
<1>5. TypeOK'
  BY <1>2, <1>3, <1>4, Constants DEF Get, UidInv, TypeOK, fedVars, cmVars
<1>6. \A g \in Handlers : task'[g] = task[g] \/ task'[g] = Idle
                            \/ (g = h /\ task'[g] = t)
  BY <1>3 DEF UidInv, TypeOK
<1> QED
  BY <1>1, <1>2, <1>5, <1>6, FedUnchanged, Constants DEF Get, UidInv, TasksStep

\* Changing the ConfigMap in place and going on to the updater.
LEMMA SettleFacts ==
  ASSUME UidInv, NEW h \in Handlers, task[h].pc # "idle", NEW u \in Uids, Settle(h, u)
  PROVE  /\ task' \in [Handlers -> Tasks] /\ cache' \in [Clusters -> ConfigMaps]
         /\ TasksStep
         /\ \A g \in Handlers : \/ task'[g].c = task[g].c /\ task'[g].seen = task[g].seen
                                \/ task'[g].seen = NoCluster
<1> DEFINE t == task[h]
           new == [t.obj EXCEPT !.uid = u, !.prov = TRUE]
           mine == [t EXCEPT !.pc = "update", !.obj = new]
<1>1. t \in Tasks /\ t.c \in Clusters /\ t.obj \in ConfigMaps
  BY TaskFacts
<1>2. new \in ConfigMaps
  BY Zenon, <1>1 DEF ConfigMaps
<1>3. CASE task' = [task EXCEPT ![h] = Idle] /\ UNCHANGED cache
  BY <1>3, Constants DEF UidInv, TypeOK, TasksStep
<1>4. CASE /\ task' = [g \in Handlers |->
                        IF g = h THEN mine
                        ELSE IF task[g].c = t.c /\ Same(task[g].obj, t.obj)
                        THEN [task[g] EXCEPT !.obj = new] ELSE task[g]]
           /\ cache' = [cache EXCEPT ![t.c] = IF Same(@, t.obj) THEN new ELSE @]
  <2> HIDE DEF new
  <2>1. mine \in Tasks /\ mine.c = t.c /\ mine.seen = t.seen
    BY Zenon, <1>1, <1>2 DEF Tasks
  <2> HIDE DEF mine
  <2>2. \A g \in Handlers : LET p == [task[g] EXCEPT !.obj = new] IN
          /\ task[g] \in Tasks /\ p \in Tasks
          /\ p.c = task[g].c /\ p.seen = task[g].seen /\ p.pc = task[g].pc
    BY <1>2 DEF UidInv, TypeOK, Tasks
  <2>3. cache' \in [Clusters -> ConfigMaps]
    BY <1>1, <1>2, <1>4 DEF UidInv, TypeOK
  <2>4. \A g \in Handlers : task'[g] \in {mine, [task[g] EXCEPT !.obj = new], task[g]}
                             /\ (task'[g] = mine => g = h \/ task'[g] = task[g]
                                   \/ task'[g] = [task[g] EXCEPT !.obj = new])
    BY <1>4
  <2>5. task' \in [Handlers -> Tasks]
    BY <1>4, <2>1, <2>2
  <2> QED
    BY ZenonT(30), <1>1, <2>1, <2>2, <2>3, <2>4, <2>5 DEF TasksStep, UidInv
<1> QED
  BY <1>3, <1>4 DEF Settle

\* A UID known before the lock, or the empty one of l. 661, goes to the ConfigMap only.
LEMMA KnownGood ==
  ASSUME UidInv, NEW h \in Handlers, Known(h) \/ SelfMaster(h)
  PROVE  GoodStep
<1>1. task[h].pc # "idle"
  BY DEF Known, SelfMaster, Lock
<1>2. task[h].seen.uid \in Uids /\ NoUid \in Uids
  BY <1>1, TaskFacts DEF ClusterVersions, Uids
<1>3. Settle(h, task[h].seen.uid) \/ Settle(h, NoUid)
  BY DEF Known, SelfMaster
<1>4. /\ task' \in [Handlers -> Tasks] /\ cache' \in [Clusters -> ConfigMaps]
      /\ TasksStep
      /\ \A g \in Handlers : \/ task'[g].c = task[g].c /\ task'[g].seen = task[g].seen
                             \/ task'[g].seen = NoCluster
  BY <1>1, <1>2, <1>3, SettleFacts
<1>5. TypeOK'
  BY <1>4 DEF Known, SelfMaster, UidInv, TypeOK, fedVars, cmVars
<1> QED
  BY <1>4, <1>5, FedUnchanged DEF Known, SelfMaster

\* The annotation is written over a version that had none: the resource version
\* check makes the version seen the current one.
LEMMA AnnotateGood ==
  ASSUME UidInv, NEW h \in Handlers, task[h].pc # "idle", task[h].seen.uid = NoUid,
         NEW u \in Uids, Annotate(h, u)
  PROVE  GoodStep
<1> DEFINE t == task[h]
           o == [clusterObj[t.c] EXCEPT !.uid = u]
<1>1. t.c \in Clusters /\ t.seen \in Copies(t.c) /\ clusterObj[t.c] \in ClusterVersions
  BY TaskFacts DEF UidInv, TypeOK
<1>2. o \in ClusterVersions
  BY <1>1 DEF ClusterVersions
<1>3. clusterObj[t.c].rv = t.seen.rv => clusterObj[t.c].uid = NoUid
  BY <1>1 DEF UidInv
<1>4. budget' \in [Events -> Nat]
  BY SpendType DEF Annotate, UpdateClusterOK, UpdateClusterFails, UidInv, TypeOK, Events
<1>5. /\ task' \in [Handlers -> Tasks] /\ cache' \in [Clusters -> ConfigMaps]
      /\ TasksStep
      /\ \A g \in Handlers : \/ task'[g].c = task[g].c /\ task'[g].seen = task[g].seen
                             \/ task'[g].seen = NoCluster
  <2>1. CASE Settle(h, u)
    BY <2>1, SettleFacts
  <2>2. CASE task' = [task EXCEPT ![h] = Idle] /\ UNCHANGED cache
    BY <2>2, Constants DEF UidInv, TypeOK, TasksStep
  <2> QED
    BY <2>1, <2>2 DEF Annotate
<1>6. \/ UNCHANGED <<clusterObj, clusterWatch>>
      \/ clusterObj[t.c].rv = t.seen.rv /\ ClusterWrite(t.c, o)
  BY DEF Annotate, UpdateClusterOK, UpdateClusterFails
<1> HIDE DEF o
<1>7. /\ clusterObj' \in [Clusters -> ClusterVersions]
      /\ clusterWatch' \in [Clusters -> SUBSET ClusterVersions]
      /\ ClusterStep
      /\ \A d \in Clusters : clusterWatch'[d] \subseteq clusterWatch[d] \cup {clusterObj'[d]}
  <2>1. CASE UNCHANGED <<clusterObj, clusterWatch>>
    BY <2>1 DEF UidInv, TypeOK, ClusterStep
  <2>2. CASE clusterObj[t.c].rv = t.seen.rv /\ ClusterWrite(t.c, o)
    BY <1>1, <1>2, <1>3, <2>2, ClusterWriteFacts DEF UidInv
  <2> QED
    BY <1>6, <2>1, <2>2
<1>8. TypeOK'
  BY <1>4, <1>5, <1>7 DEF Annotate, UidInv, TypeOK, cmVars
<1>9. CopiesStep
  BY <1>5, <1>7, <1>8, CopiesFacts DEF Annotate, UidInv, Copies
<1> QED
  BY <1>5, <1>7, <1>8, <1>9 DEF GoodStep

\* Following a master and electing oneself replace no UID annotation.
LEMMA ElectionGood ==
  ASSUME UidInv, NEW h \in Handlers, Follow(h) \/ ElectSelf(h)
  PROVE  GoodStep
<1>1. task[h].pc # "idle" /\ task[h].seen.uid = NoUid
  BY DEF Follow, ElectSelf, Lock
<1>2. CASE Follow(h)
  <2>1. PICK m \in Clusters : Annotate(h, store[m].uid)
    BY <1>2 DEF Follow, Masters
  <2>2. store[m].uid \in Uids
    BY DEF UidInv, TypeOK, ClusterVersions
  <2> QED
    BY <1>1, <2>1, <2>2, AnnotateGood
<1>3. CASE ElectSelf(h)
  <2>1. task[h].obj.uid \in Uids
    BY <1>1, TaskFacts DEF ConfigMaps
  <2> QED
    BY <1>1, <1>3, <2>1, AnnotateGood DEF ElectSelf
<1> QED
  BY <1>2, <1>3

\* Steps after which handler h is idle and the cluster objects are as before.
LEMMA EndGood ==
  ASSUME UidInv, NEW h \in Handlers, NoFallback(h) \/ UpdateConfigMap(h)
  PROVE  GoodStep
<1> DEFINE t == task[h]
<1>1. t.c \in Clusters /\ t.obj \in ConfigMaps
  BY TaskFacts DEF NoFallback, UpdateConfigMap, Lock
<1>2. cm' \in [Clusters -> ConfigMaps] /\ cmWatch' \in [Clusters -> SUBSET ConfigMaps]
  <2>1. UNCHANGED cmVars \/ CMWrite(t.c, t.obj)
    BY DEF NoFallback, UpdateConfigMap
  <2> QED
    BY <1>1, <2>1, CMWriteType DEF UidInv, TypeOK, cmVars
<1>3. queue' \in [Handlers -> SUBSET Clusters]
  BY <1>1, RequeueType DEF NoFallback, UpdateConfigMap, UidInv, TypeOK
<1>4. budget' \in [Events -> Nat]
  BY SpendType DEF NoFallback, UpdateConfigMap, UidInv, TypeOK, Events
<1>5. late' \subseteq [c: Clusters, obj: ConfigMaps]
  BY <1>1 DEF NoFallback, UpdateConfigMap, UidInv, TypeOK
<1>6. task' = [task EXCEPT ![h] = Idle]
  BY DEF NoFallback, UpdateConfigMap
<1>7. TypeOK'
  BY <1>2, <1>3, <1>4, <1>5, <1>6, Constants
     DEF NoFallback, UpdateConfigMap, UidInv, TypeOK, fedVars
<1>8. \A g \in Handlers : task'[g] = task[g] \/ task'[g] = Idle
  BY <1>6 DEF UidInv, TypeOK
<1> QED
  BY <1>7, <1>8, Constants, FedUnchanged DEF NoFallback, UpdateConfigMap, UidInv, TasksStep

\* An update that timed out touches ConfigMaps only.
LEMMA LateUpdateGood ==
  ASSUME UidInv, NEW op \in late, LateUpdate(op)
  PROVE  GoodStep
<1>1. op.c \in Clusters /\ op.obj \in ConfigMaps
  BY DEF UidInv, TypeOK
<1>2. cm' \in [Clusters -> ConfigMaps] /\ cmWatch' \in [Clusters -> SUBSET ConfigMaps]
  BY <1>1, CMWriteType DEF LateUpdate, UidInv, TypeOK, cmVars
<1>3. TypeOK'
  BY <1>2 DEF LateUpdate, UidInv, TypeOK, fedVars
<1> QED
  BY <1>3, FedUnchanged DEF LateUpdate, UidInv, TasksStep

\* The cluster informer stores a version that it had on the watch.
LEMMA DeliverClusterGood ==
  ASSUME UidInv, NEW c \in Clusters, DeliverCluster(c)
  PROVE  GoodStep
<1>1. PICK v \in clusterWatch[c] :
        /\ clusterWatch' = [clusterWatch EXCEPT ![c] = @ \ {v}]
        /\ store' = [store EXCEPT ![c] = v]
        /\ \/ UNCHANGED <<cmWatch, cache, listed, inst, queue>>
           \/ /\ listed' = listed \ {c} /\ inst' = [inst EXCEPT ![c] = @ + 1]
              /\ cache' = [cache EXCEPT ![c] = NoConfigMap]
              /\ cmWatch' = [cmWatch EXCEPT ![c] = {}]
              /\ queue' = [queue EXCEPT !["cluster"] = @ \cup {c}]
  BY Zenon DEF DeliverCluster
<1>2. v \in ClusterVersions /\ v \in Copies(c)
  BY DEF UidInv, TypeOK, Copies
<1>3. TypeOK'
  <2>1. /\ clusterWatch' \in [Clusters -> SUBSET ClusterVersions]
        /\ store' \in [Clusters -> ClusterVersions]
    BY <1>1, <1>2 DEF UidInv, TypeOK
  <2>2. /\ cache' \in [Clusters -> ConfigMaps] /\ listed' \subseteq Clusters
        /\ cmWatch' \in [Clusters -> SUBSET ConfigMaps]
    BY SMTT(30), <1>1, Constants DEF UidInv, TypeOK
  <2>3. inst' \in [Clusters -> Nat] /\ queue' \in [Handlers -> SUBSET Clusters]
    BY <1>1 DEF UidInv, TypeOK, Handlers
  <2> QED
    BY <2>1, <2>2, <2>3 DEF DeliverCluster, UidInv, TypeOK
<1>4. \A d \in Clusters : /\ store'[d] \in Copies(d) \cup {NoCluster}
                          /\ clusterWatch'[d] \subseteq clusterWatch[d] \cup {clusterObj'[d]}
  BY <1>1, <1>2 DEF UidInv, TypeOK, Copies
<1>5. CopiesStep
  BY <1>3, <1>4, CopiesFacts DEF DeliverCluster, UidInv
<1>6. ClusterStep /\ TasksStep
  BY DEF DeliverCluster, ClusterStep, TasksStep, UidInv
<1> QED
  BY <1>3, <1>5, <1>6 DEF GoodStep

\* Events of the ConfigMap informers do not concern the cluster objects.
LEMMA ConfigMapEventGood ==
  ASSUME UidInv, NEW c \in Clusters, List(c) \/ DeliverConfigMap(c)
  PROVE  GoodStep
<1>1. ASSUME NEW o \in ConfigMaps
      PROVE  [o EXCEPT !.inst = inst[c]] \in ConfigMaps
  BY SMTT(30) DEF ConfigMaps, UidInv, TypeOK
<1>2. cache' \in [Clusters -> ConfigMaps]
  BY <1>1, Constants DEF List, DeliverConfigMap, UidInv, TypeOK
<1>3. queue' \in [Handlers -> SUBSET Clusters]
  BY RequeueType DEF List, DeliverConfigMap, UidInv, TypeOK
<1>4. TypeOK'
  BY <1>2, <1>3 DEF List, DeliverConfigMap, UidInv, TypeOK, fedVars, cmVars
<1> QED
  BY <1>4, FedUnchanged DEF List, DeliverConfigMap, UidInv, TasksStep

\* Heartbeats and changes of the Ready condition keep the annotation.
LEMMA ClusterControllerGood ==
  ASSUME UidInv, NEW c \in Clusters, Heartbeat(c) \/ Flip(c)
  PROVE  GoodStep
<1> DEFINE o == [clusterObj[c] EXCEPT !.ready = ~@]
<1>1. clusterObj[c] \in ClusterVersions
  BY DEF UidInv, TypeOK
<1>2. o \in ClusterVersions /\ o.uid = clusterObj[c].uid
  BY Zenon, <1>1 DEF ClusterVersions
<1>3. ClusterWrite(c, clusterObj[c]) \/ ClusterWrite(c, o)
  BY DEF Heartbeat, Flip
<1> HIDE DEF o
<1>4. /\ clusterObj' \in [Clusters -> ClusterVersions]
      /\ clusterWatch' \in [Clusters -> SUBSET ClusterVersions]
      /\ ClusterStep
      /\ \A d \in Clusters : clusterWatch'[d] \subseteq clusterWatch[d] \cup {clusterObj'[d]}
  BY <1>1, <1>2, <1>3, ClusterWriteFacts DEF UidInv
<1>5. budget' \in [Events -> Nat]
  BY SpendType DEF Heartbeat, Flip, UidInv, Events
<1>6. TypeOK'
  BY <1>4, <1>5 DEF Heartbeat, Flip, UidInv, TypeOK, cmVars
<1>7. CopiesStep
  BY <1>4, <1>6, CopiesFacts DEF Heartbeat, Flip, UidInv, Copies
<1> QED
  BY <1>4, <1>6, <1>7 DEF GoodStep, TasksStep, Heartbeat, Flip, UidInv

\* Other writers in a cluster touch its ConfigMap only.
LEMMA OthersWriteGood ==
  ASSUME UidInv, NEW c \in Clusters, NEW u \in Uids, CreateConfigMap(c) \/ Tamper(c, u)
  PROVE  GoodStep
<1> DEFINE o1 == [NoConfigMap EXCEPT !.uid = c]
           o2 == [cm[c] EXCEPT !.uid = u]
<1>1. o1 \in ConfigMaps /\ o2 \in ConfigMaps
  BY Constants DEF ConfigMaps, Uids, UidInv, TypeOK
<1>2. CMWrite(c, o1) \/ CMWrite(c, o2)
  BY DEF CreateConfigMap, Tamper
<1> HIDE DEF o1, o2
<1>3. cm' \in [Clusters -> ConfigMaps] /\ cmWatch' \in [Clusters -> SUBSET ConfigMaps]
  BY <1>1, <1>2, CMWriteType DEF UidInv
<1>4. budget' \in [Events -> Nat]
  BY SpendType DEF CreateConfigMap, Tamper, UidInv, TypeOK, Events
<1>5. TypeOK'
  BY <1>3, <1>4 DEF CreateConfigMap, Tamper, UidInv, TypeOK, fedVars
<1> QED
  BY <1>5, FedUnchanged DEF CreateConfigMap, Tamper, UidInv, TasksStep

\* A restart forgets copies and makes none but the API server's.
LEMMA RestartGood == UidInv /\ Restart => GoodStep
<1> SUFFICES ASSUME UidInv, Restart PROVE GoodStep
  OBVIOUS
<1>1. budget' \in [Events -> Nat]
  BY SpendType DEF Restart, UidInv, Events
<1>2. late' \subseteq [c: Clusters, obj: ConfigMaps]
  <2>1. \A h \in {g \in Handlers : task[g].pc = "update"} :
          task[h].c \in Clusters /\ task[h].obj \in ConfigMaps
    BY TaskFacts
  <2> QED
    BY <2>1 DEF Restart, UidInv, TypeOK
<1>3. TypeOK'
  BY <1>1, <1>2, Constants DEF Restart, UidInv, TypeOK
<1>4. CopiesStep
  BY Constants DEF Restart, CopiesStep, Copies
<1>5. ClusterStep /\ TasksStep
  BY Constants DEF Restart, ClusterStep, TasksStep
<1> QED
  BY <1>3, <1>4, <1>5 DEF GoodStep

-----------------------------------------------------------------------------
(* The theorems *)

\* Every step from a state of the invariant is good.
LEMMA NextGood == UidInv /\ [Next]_vars => GoodStep
<1> SUFFICES ASSUME UidInv, [Next]_vars PROVE GoodStep
  OBVIOUS
<1>1. CASE \E h \in Handlers : Handler(h)
  BY <1>1, PostponeGood, TakeGood, GetGood, KnownGood, ElectionGood, EndGood DEF Handler
<1>2. CASE \E op \in late : LateUpdate(op)
  BY <1>2, LateUpdateGood
<1>3. CASE Informers
  BY <1>3, DeliverClusterGood, ConfigMapEventGood DEF Informers
<1>4. CASE Environment
  <2>1. NoUid \in Uids
    BY DEF Uids
  <2> QED
    BY <1>4, <2>1, ClusterControllerGood, OthersWriteGood, RestartGood DEF Environment
<1>5. CASE UNCHANGED vars
  <2>1. TypeOK'
    BY <1>5 DEF UidInv, TypeOK, vars, fedVars, cmVars
  <2> QED
    BY <1>5, <2>1, FedUnchanged DEF vars, UidInv, TasksStep
<1> QED
  BY <1>1, <1>2, <1>3, <1>4, <1>5 DEF Next

\* The invariant holds initially.
LEMMA InitUidInv == Init => UidInv
<1> SUFFICES ASSUME Init PROVE UidInv
  OBVIOUS
<1> DEFINE v == [rv |-> 1, uid |-> NoUid, ready |-> TRUE]
<1>1. v \in ClusterVersions
  BY DEF ClusterVersions, Uids
<1>2. clusterObj = [c \in Clusters |-> v] /\ v.rv = 1
  BY DEF Init
<1> HIDE DEF v
<1>3. TypeOK
  BY Zenon, <1>1, <1>2, Constants, UidBudgetAssumption DEF Init, TypeOK
<1>4. \A c \in Clusters : Copies(c) \subseteq {v, NoCluster}
  BY Zenon, <1>2, Constants DEF Init, Copies
<1> QED
  BY <1>2, <1>3, <1>4, Constants DEF Init, UidInv, NoCluster

\* UidInv holds in every reachable state.
THEOREM Invariance == Spec => []UidInv
<1>1. UidInv /\ [Next]_vars => UidInv'
  BY NextGood, GoodStepKeepsUidInv
<1> QED
  BY <1>1, InitUidInv, PTL DEF Spec

\* Type correctness.
THEOREM TypeCorrect == Spec => []TypeOK
<1>1. UidInv => TypeOK
  BY DEF UidInv
<1> QED
  BY <1>1, Invariance, PTL

\* However stale the cluster object a handler read before it took the lock, it
\* never replaces a UID annotation (ll. 572-580, 646-677).
THEOREM RecordedUidStays == Spec => UidStable
<1> DEFINE Keeps == \A c \in Clusters : clusterObj[c].uid # NoUid
                                         => clusterObj'[c].uid = clusterObj[c].uid
<1>1. UidInv /\ [Next]_vars => [Keeps]_vars
  BY NextGood DEF GoodStep, ClusterStep
<1> QED
  BY <1>1, Invariance, PTL DEF Spec, UidStable
=============================================================================
