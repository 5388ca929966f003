--------------------------- MODULE UidRestProofs ---------------------------
(***************************************************************************)
(* Proof of RestIsSettled of UidElection: without failed requests, the     *)
(* handlers leave a cluster alone only when its ConfigMap has the UID of   *)
(* the cluster's annotation and its provider UID, for any set of clusters  *)
(* and any number of environment events.                                   *)
(***************************************************************************)
EXTENDS UidElectionProofs

-----------------------------------------------------------------------------
(* The inductive invariant *)

\* Until the cluster informer has delivered everything, the current object is on
\* its watch; then it is in the store.
FedView ==
  \A c \in Clusters :
    /\ clusterWatch[c] = {} => store[c] = clusterObj[c]
    /\ clusterWatch[c] # {} => clusterObj[c] \in clusterWatch[c]

\* The same of the ConfigMap of cluster c, by resource version only: l. 594 changes
\* the stored object in place.  Versions arrive in order, and the store's object is one
\* of the running informer.
StoreViewOf(c) ==
  /\ c \in listed => store[c].ready
  /\ c \notin listed => cmWatch[c] = {} /\ cache[c].rv = 0
  /\ c \in listed /\ cmWatch[c] = {} => cache[c].rv = cm[c].rv
  /\ cmWatch[c] # {} => cm[c] \in cmWatch[c]
  /\ \A w \in cmWatch[c] : /\ cache[c].rv < w.rv /\ w.rv <= cm[c].rv
                           /\ \A x \in cmWatch[c] : x.rv = w.rv => x = w
  /\ cache[c].rv > 0 => cache[c].inst = inst[c]

StoreView == \A c \in Clusters : StoreViewOf(c)

\* The ConfigMap that a handler holds is the store's object, and then has its
\* contents, or an older one.
HoldsView(h, c) ==
  task[h].c = c /\ task[h].pc \in {"lock", "update"} =>
    /\ task[h].obj.rv > 0 /\ task[h].obj.inst <= inst[c]
    /\ task[h].obj.inst = inst[c] => c \in listed /\ task[h].obj.rv <= cache[c].rv
    /\ Same(task[h].obj, cache[c]) => task[h].obj = cache[c]

TaskView == \A h \in Handlers, c \in Clusters : HoldsView(h, c)

\* Handler h is about to send the store's ConfigMap of cluster c to the cluster.
Sending(h, c) == task[h].pc = "update" /\ task[h].c = c /\ Same(task[h].obj, cache[c])

\* Handler h will put things right: it is sending a ConfigMap, or it has read the
\* annotation that the store holds and will compare it with the store's ConfigMap.
Working(h, c) ==
  /\ task[h].c = c
  /\ \/ task[h].pc = "update"
     \/ /\ task[h].pc \in {"get", "lock"} /\ task[h].seen.uid = store[c].uid
        /\ task[h].pc = "lock" => Same(task[h].obj, cache[c])

\* When the store shows the last version of the ConfigMap of c: what the store has and
\* the cluster has not is being sent; and the store has the UID of the annotation, or
\* somebody is on the way to see to it.
Followed(c) ==
  c \in listed /\ cmWatch[c] = {} /\ cache[c].rv > 0 =>
    /\ \/ cache[c].uid = cm[c].uid /\ cache[c].prov = cm[c].prov
       \/ \E h \in Handlers : Sending(h, c)
    /\ \/ \E h \in Handlers : c \in queue[h]
       \/ store[c].uid = NoUid
       \/ cache[c].uid = store[c].uid /\ cache[c].prov
       \/ \E h \in Handlers : Working(h, c)

NoFault == budget.fault = Budget.fault

FaultBudget == budget.fault <= Budget.fault

ViewInv == UidInv /\ FaultBudget /\ FedView /\ StoreView /\ TaskView

RestInv == ViewInv /\ (NoFault => \A c \in Clusters : Followed(c))

-----------------------------------------------------------------------------
(* The views *)

\* What a step does to the ConfigMap of c and its store: nothing but perhaps a change
\* in place, a write, the end of the informer, its list, or a delivery.
KeepStep(c) ==
  /\ cm'[c] = cm[c] /\ cmWatch'[c] = cmWatch[c] /\ inst'[c] = inst[c]
  /\ c \in listed' <=> c \in listed
  /\ Same(cache'[c], cache[c])

WriteStep(c) ==
  /\ cm'[c].rv = cm[c].rv + 1 /\ cache'[c] = cache[c] /\ inst'[c] = inst[c]
  /\ c \in listed' <=> c \in listed
  /\ cmWatch'[c] = IF c \in listed THEN cmWatch[c] \cup {cm'[c]} ELSE {}

StopStep(c) ==
  c \notin listed' /\ cm'[c] = cm[c] /\ cmWatch'[c] = {} /\ cache'[c].rv = 0

ListStep(c) ==
  /\ c \notin listed /\ c \in listed' /\ cm'[c] = cm[c] /\ cmWatch'[c] = cmWatch[c]
  /\ inst'[c] = inst[c] /\ cache'[c].rv = cm[c].rv
  /\ cm[c].rv > 0 => cache'[c] = [cm[c] EXCEPT !.inst = inst[c]]

DeliverStep(c) ==
  /\ cm'[c] = cm[c] /\ inst'[c] = inst[c] /\ c \in listed' <=> c \in listed
  /\ \E v \in cmWatch[c] : /\ Oldest(cmWatch[c], v) /\ cmWatch'[c] = cmWatch[c] \ {v}
                           /\ cache'[c] = [v EXCEPT !.inst = inst[c]]

StoreStep(c) ==
  KeepStep(c) \/ WriteStep(c) \/ StopStep(c) \/ ListStep(c) \/ DeliverStep(c)

\* The records of cluster c are what their types say.
LEMMA Records ==
  ASSUME TypeOK, NEW c \in Clusters
  PROVE  /\ cm[c] \in ConfigMaps /\ cm[c].rv \in Nat /\ cache[c] \in ConfigMaps
         /\ cache[c].rv \in Nat /\ cache[c].inst \in Nat /\ inst[c] \in Nat
         /\ \A w \in cmWatch[c] : w \in ConfigMaps /\ w.rv \in Nat
         /\ \A h \in Handlers : /\ task[h].obj \in ConfigMaps
                                /\ task[h].obj.rv \in Nat /\ task[h].obj.inst \in Nat
BY DEF TypeOK, ConfigMaps, Tasks

\* Changing the owner of a ConfigMap object changes nothing else.
LEMMA Owned ==
  ASSUME NEW v \in ConfigMaps, NEW i \in Nat
  PROVE  /\ [v EXCEPT !.inst = i].rv = v.rv /\ [v EXCEPT !.inst = i].inst = i
         /\ [v EXCEPT !.inst = i].uid = v.uid /\ [v EXCEPT !.inst = i].prov = v.prov
BY DEF ConfigMaps

\* A list puts the cluster's ConfigMap in the store.
LEMMA ListFacts ==
  ASSUME TypeOK, NEW c \in Clusters, ListStep(c), cm[c].rv > 0
  PROVE  cache'[c].inst = inst[c] /\ cache'[c].uid = cm[c].uid /\ cache'[c].prov = cm[c].prov
<1> DEFINE w == [cm[c] EXCEPT !.inst = inst[c]]
<1>1. w.inst = inst[c] /\ w.uid = cm[c].uid /\ w.prov = cm[c].prov
  BY Owned, Records
<1>2. cache'[c] = w
  BY DEF ListStep
<1> QED
  BY <1>1, <1>2

\* A delivery leaves only later versions on the watch, or none when it was the last.
LEMMA DeliverFacts ==
  ASSUME TypeOK, NEW c \in Clusters, StoreViewOf(c), DeliverStep(c)
  PROVE  \E v \in cmWatch[c] :
           /\ c \in listed /\ cache[c].rv < v.rv
           /\ cache'[c].rv = v.rv /\ cache'[c].inst = inst[c]
           /\ cache'[c].uid = v.uid /\ cache'[c].prov = v.prov
           /\ cmWatch'[c] = cmWatch[c] \ {v}
           /\ \A w \in cmWatch'[c] : v.rv < w.rv
           /\ cmWatch'[c] # {} => cm[c] \in cmWatch'[c]
           /\ cmWatch'[c] = {} => v = cm[c]
<1>1. PICK v \in cmWatch[c] : /\ Oldest(cmWatch[c], v) /\ cmWatch'[c] = cmWatch[c] \ {v}
                              /\ cache'[c] = [v EXCEPT !.inst = inst[c]]
  BY DEF DeliverStep
<1>2. /\ c \in listed /\ cache[c].rv < v.rv /\ cm[c] \in cmWatch[c]
      /\ \A w \in cmWatch[c] : w.rv <= cm[c].rv /\ (w.rv = v.rv => w = v)
  BY DEF StoreViewOf
<1>3. /\ cache'[c].rv = v.rv /\ cache'[c].inst = inst[c]
      /\ cache'[c].uid = v.uid /\ cache'[c].prov = v.prov
  BY <1>1, Owned, Records
<1>4. \A w \in cmWatch'[c] : v.rv < w.rv
  BY <1>1, <1>2, Records DEF Oldest
<1>5. cmWatch'[c] # {} => cm[c] \in cmWatch'[c]
  BY <1>1, <1>2, <1>4, Records
<1>6. cmWatch'[c] = {} => v = cm[c]
  BY <1>1, <1>2
<1> QED
  BY <1>1, <1>2, <1>3, <1>4, <1>5, <1>6

\* Every such step keeps the view of the store.
LEMMA StoreViewStep ==
  ASSUME TypeOK, TypeOK', NEW c \in Clusters, StoreViewOf(c), StoreStep(c),
         c \in listed' => store'[c].ready
  PROVE  StoreViewOf(c)'
<1>0. /\ cm[c].rv \in Nat /\ cache[c].rv \in Nat /\ inst[c] \in Nat /\ cm[c] \in ConfigMaps
      /\ \A w \in cmWatch[c] : w \in ConfigMaps /\ w.rv \in Nat
  BY Records
<1>1. CASE KeepStep(c)
  BY <1>0, <1>1 DEF KeepStep, StoreViewOf, Same
<1>2. CASE WriteStep(c)
  <2>1. c \in listed => cache[c].rv < cm'[c].rv
    <3>1. CASE cmWatch[c] = {}
      BY <1>0, <1>2, <3>1 DEF WriteStep, StoreViewOf
    <3>2. CASE cmWatch[c] # {}
      BY <1>0, <1>2, <3>2 DEF WriteStep, StoreViewOf
    <3> QED
      BY <3>1, <3>2
  <2>2. \A w \in cmWatch[c] : w.rv < cm'[c].rv
    BY <1>0, <1>2 DEF WriteStep, StoreViewOf
  <2>3. CASE c \in listed
    <3>1. cmWatch'[c] = cmWatch[c] \cup {cm'[c]} /\ cm'[c].rv \in Nat
      BY <1>0, <1>2, <2>3 DEF WriteStep
    <3>2. \A w \in cmWatch'[c] : /\ cache[c].rv < w.rv /\ w.rv <= cm'[c].rv
                                 /\ \A x \in cmWatch'[c] : x.rv = w.rv => x = w
      BY <1>0, <2>1, <2>2, <2>3, <3>1 DEF StoreViewOf
    <3> QED
      BY <1>2, <2>3, <3>1, <3>2 DEF WriteStep, StoreViewOf
  <2>4. CASE c \notin listed
    BY <1>2, <2>4 DEF WriteStep, StoreViewOf
  <2> QED
    BY <2>3, <2>4
<1>3. CASE StopStep(c)
  BY <1>3 DEF StopStep, StoreViewOf
<1>4. CASE ListStep(c)
  <2>1. cm[c].rv > 0 => cache'[c].inst = inst[c]
    BY <1>4, ListFacts
  <2> QED
    BY <1>0, <1>4, <2>1 DEF ListStep, StoreViewOf
<1>5. CASE DeliverStep(c)
  <2>1. PICK v \in cmWatch[c] :
           /\ c \in listed /\ cache[c].rv < v.rv
           /\ cache'[c].rv = v.rv /\ cache'[c].inst = inst[c]
           /\ cmWatch'[c] = cmWatch[c] \ {v}
           /\ \A w \in cmWatch'[c] : v.rv < w.rv
           /\ cmWatch'[c] # {} => cm[c] \in cmWatch'[c]
           /\ cmWatch'[c] = {} => v = cm[c]
    BY <1>5, DeliverFacts
  <2> QED
    BY <1>0, <1>5, <2>1 DEF DeliverStep, StoreViewOf
<1> QED
  BY <1>1, <1>2, <1>3, <1>4, <1>5 DEF StoreStep

\* A write of a cluster object goes on the watch.
LEMMA FedViewWrite ==
  ASSUME TypeOK, FedView, NEW c \in Clusters, NEW o, ClusterWrite(c, o), UNCHANGED store
  PROVE  FedView'
<1> DEFINE v == [o EXCEPT !.rv = clusterObj[c].rv + 1]
<1>1. /\ clusterObj' = [clusterObj EXCEPT ![c] = v]
      /\ clusterWatch' = [clusterWatch EXCEPT ![c] = @ \cup {v}]
  BY DEF ClusterWrite
<1> HIDE DEF v
<1> QED
  BY <1>1 DEF TypeOK, FedView

\* The version delivered last is the current one.
LEMMA FedViewDeliver ==
  ASSUME UidInv, FedView, NEW c \in Clusters, DeliverCluster(c)
  PROVE  FedView'
<1>1. PICK v \in clusterWatch[c] :
        /\ Oldest(clusterWatch[c], v)
        /\ clusterWatch' = [clusterWatch EXCEPT ![c] = @ \ {v}]
        /\ store' = [store EXCEPT ![c] = v]
        /\ clusterObj' = clusterObj
  BY Zenon DEF DeliverCluster
<1>2. \A w \in clusterWatch[c] : w.rv \in Nat /\ w.rv <= clusterObj[c].rv
                                   /\ (w.rv = clusterObj[c].rv => w = clusterObj[c])
  BY DEF UidInv, TypeOK, ClusterVersions, Copies
<1>3. clusterObj[c] \in clusterWatch[c] /\ clusterObj[c].rv \in Nat
  BY DEF FedView, UidInv, TypeOK, ClusterVersions
<1>4. v = clusterObj[c] => clusterWatch[c] = {v}
  BY <1>1, <1>2, <1>3 DEF Oldest
<1>5. clusterWatch'[c] = clusterWatch[c] \ {v} /\ store'[c] = v
  BY <1>1 DEF UidInv, TypeOK
<1>6. \A d \in Clusters \ {c} : clusterWatch'[d] = clusterWatch[d] /\ store'[d] = store[d]
  BY <1>1 DEF UidInv, TypeOK
<1> QED
  BY <1>1, <1>3, <1>4, <1>5, <1>6 DEF FedView

\* Handlers that keep what they hold, or hold nothing.
LEMMA TaskViewKeep ==
  ASSUME TaskView, UNCHANGED <<cache, listed, inst>>,
         \A h \in Handlers : task'[h] = task[h] \/ task'[h].pc \notin {"lock", "update"}
  PROVE  TaskView'
BY DEF TaskView, HoldsView

\* GetByKey: the handler holds the store's object.
LEMMA TaskViewGet ==
  ASSUME UidInv, StoreView, TaskView, NEW h \in Handlers, Get(h)
  PROVE  TaskView'
<1> DEFINE c == task[h].c
           t == [task[h] EXCEPT !.pc = "lock", !.obj = cache[c]]
<1>1. task[h] \in Tasks /\ c \in Clusters /\ cache[c] \in ConfigMaps
  BY TaskFacts DEF Get
<1>2. UNCHANGED <<cache, listed, inst>>
  BY DEF Get
<1>3. CASE cache[c].rv = 0
  <2>1. task' = [task EXCEPT ![h] = Idle]
    BY <1>3 DEF Get
  <2>2. \A g \in Handlers : task'[g] = task[g] \/ task'[g].pc = "idle"
    BY <2>1, Constants DEF UidInv, TypeOK
  <2> QED
    BY <1>2, <2>2, TaskViewKeep
<1>4. CASE cache[c].rv # 0
  <2>1. t.c = c /\ t.obj = cache[c] /\ t.pc = "lock"
    BY <1>1 DEF Tasks
  <2>2. task' = [task EXCEPT ![h] = t]
    BY Zenon, <1>4 DEF Get, UidInv, TypeOK
  <2> HIDE DEF t
  <2>3. \A g \in Handlers : task'[g] = IF g = h THEN t ELSE task[g]
    BY <2>2 DEF UidInv, TypeOK
  <2>4. cache[c].rv \in Nat /\ inst[c] \in Nat
    BY <1>1, Records DEF UidInv
  <2>5. cache[c].rv > 0 /\ cache[c].inst = inst[c] /\ c \in listed
    BY <1>1, <1>4, <2>4 DEF StoreView, StoreViewOf
  <2>6. \A d \in Clusters : HoldsView(h, d)'
    BY <1>2, <2>1, <2>3, <2>4, <2>5 DEF HoldsView
  <2>7. \A g \in Handlers \ {h}, d \in Clusters : HoldsView(g, d)'
    BY <1>2, <2>3 DEF HoldsView, TaskView
  <2> QED
    BY <2>6, <2>7 DEF TaskView
<1> QED
  BY <1>3, <1>4

\* What Settle does when the ConfigMap is right, and when it is not.
SettledAlready(h, u) ==
  /\ task[h].obj.uid = u /\ task[h].obj.prov
  /\ task'[h].pc = "idle" /\ \A g \in Handlers \ {h} : task'[g] = task[g]
  /\ cache' = cache

SettledInPlace(h, u) ==
  LET c == task[h].c IN
  /\ task'[h].pc = "update" /\ task'[h].c = c /\ Same(task'[h].obj, task[h].obj)
  /\ \A g \in Handlers \ {h} :
       /\ task'[g].pc = task[g].pc /\ task'[g].c = task[g].c /\ task'[g].seen = task[g].seen
       /\ IF task[g].c = c /\ Same(task[g].obj, task[h].obj)
          THEN task'[g].obj = task'[h].obj ELSE task'[g].obj = task[g].obj
  /\ IF Same(cache[c], task[h].obj) THEN cache'[c] = task'[h].obj ELSE cache'[c] = cache[c]
  /\ \A d \in Clusters \ {c} : cache'[d] = cache[d]

\* Settle does one or the other.
LEMMA SettleDetail ==
  ASSUME UidInv, NEW h \in Handlers, task[h].pc # "idle", NEW u \in Uids, Settle(h, u)
  PROVE  SettledAlready(h, u) \/ SettledInPlace(h, u)
<1> DEFINE t == task[h]
           new == [t.obj EXCEPT !.uid = u, !.prov = TRUE]
           mine == [t EXCEPT !.pc = "update", !.obj = new]
<1>1. t \in Tasks /\ t.c \in Clusters /\ t.obj \in ConfigMaps
  BY TaskFacts
<1>2. new \in ConfigMaps /\ Same(new, t.obj) /\ new.uid = u /\ new.prov
  BY Zenon, <1>1 DEF ConfigMaps, Same
<1>3. CASE new = t.obj
  <2>1. task' = [task EXCEPT ![h] = Idle] /\ cache' = cache
    BY <1>3 DEF Settle
  <2>2. task'[h] = Idle /\ \A g \in Handlers \ {h} : task'[g] = task[g]
    BY <2>1 DEF UidInv, TypeOK
  <2>3. t.obj.uid = u /\ t.obj.prov
    BY Zenon, <1>2, <1>3
  <2> QED
    BY <2>1, <2>2, <2>3, Constants DEF SettledAlready
<1>4. CASE new # t.obj
  <2>1. /\ task' = [g \in Handlers |->
                        IF g = h THEN mine
                        ELSE IF task[g].c = t.c /\ Same(task[g].obj, t.obj)
                        THEN [task[g] EXCEPT !.obj = new] ELSE task[g]]
        /\ cache' = [cache EXCEPT ![t.c] = IF Same(@, t.obj) THEN new ELSE @]
    BY <1>4 DEF Settle
  <2> HIDE DEF new
  <2>2. mine.pc = "update" /\ mine.c = t.c /\ mine.obj = new
    BY <1>1, <1>2 DEF Tasks
  <2> HIDE DEF mine
  <2>3. \A g \in Handlers : LET p == [task[g] EXCEPT !.obj = new] IN
          p.c = task[g].c /\ p.seen = task[g].seen /\ p.pc = task[g].pc /\ p.obj = new
    BY <1>2 DEF UidInv, TypeOK, Tasks
  <2>4. task'[h] = mine
    BY <2>1
  <2>5. ASSUME NEW g \in Handlers \ {h}
        PROVE  /\ task'[g].pc = task[g].pc /\ task'[g].c = task[g].c
               /\ task'[g].seen = task[g].seen
               /\ IF task[g].c = t.c /\ Same(task[g].obj, t.obj)
                  THEN task'[g].obj = new ELSE task'[g].obj = task[g].obj
    BY Zenon, <2>1, <2>3
  <2>6. /\ IF Same(cache[t.c], t.obj) THEN cache'[t.c] = new ELSE cache'[t.c] = cache[t.c]
        /\ \A d \in Clusters \ {t.c} : cache'[d] = cache[d]
    BY <1>1, <2>1 DEF UidInv, TypeOK
  <2> QED
    BY <1>2, <2>2, <2>4, <2>5, <2>6 DEF SettledInPlace
<1> QED
  BY <1>3, <1>4

\* A change in place reaches the store and every handler that holds the object.
LEMMA TaskViewSettle ==
  ASSUME UidInv, StoreView, TaskView, NEW h \in Handlers, task[h].pc = "lock",
         NEW u \in Uids, Settle(h, u), UNCHANGED <<listed, inst>>
  PROVE  TaskView' /\ \A c \in Clusters : Same(cache'[c], cache[c])
<1>1. CASE SettledAlready(h, u)
  <2>1. \A g \in Handlers : task'[g] = task[g] \/ task'[g].pc = "idle"
    BY <1>1 DEF SettledAlready
  <2> QED
    BY <1>1, <2>1, TaskViewKeep DEF SettledAlready, Same
<1>2. CASE SettledInPlace(h, u)
  <2> DEFINE c == task[h].c
  <2>1. c \in Clusters
    BY TaskFacts
  <2>2. \A d \in Clusters : Same(cache'[d], cache[d])
    BY <1>2, <2>1 DEF SettledInPlace, Same
  <2>3. \A d \in Clusters : HoldsView(h, d)'
    <3>1. HoldsView(h, c)
      BY <2>1 DEF TaskView
    <3> QED
      BY <1>2, <2>1, <2>2, <3>1 DEF SettledInPlace, HoldsView, Same
  <2>4. ASSUME NEW g \in Handlers \ {h}, NEW d \in Clusters PROVE HoldsView(g, d)'
    <3>1. HoldsView(g, d)
      BY DEF TaskView
    <3>2. CASE d # c
      BY <1>2, <3>1, <3>2 DEF SettledInPlace, HoldsView
    <3>3. CASE d = c
      BY <1>2, <2>1, <3>1, <3>3 DEF SettledInPlace, HoldsView, Same
    <3> QED
      BY <3>2, <3>3
  <2> QED
    BY <2>2, <2>3, <2>4 DEF TaskView
<1> QED
  BY <1>1, <1>2, SettleDetail

\* What the informers do leaves a handler with the store's object or an older one.
LEMMA TaskViewEvent ==
  ASSUME UidInv, StoreView, TaskView, UNCHANGED task,
         \A c \in Clusters : \/ UNCHANGED <<cache[c], inst[c]>> /\ (c \in listed => c \in listed')
                             \/ StopStep(c) /\ inst'[c] = inst[c] + 1
                             \/ ListStep(c) \/ DeliverStep(c)
  PROVE  TaskView'
<1> SUFFICES ASSUME NEW h \in Handlers, NEW c \in Clusters PROVE HoldsView(h, c)'
  BY DEF TaskView
<1>1. HoldsView(h, c) /\ StoreViewOf(c)
  BY DEF TaskView, StoreView
<1>2. /\ cm[c] \in ConfigMaps /\ cm[c].rv \in Nat /\ cache[c].rv \in Nat /\ inst[c] \in Nat
      /\ task[h].obj.rv \in Nat /\ task[h].obj.inst \in Nat
      /\ \A w \in cmWatch[c] : w.rv \in Nat
  BY Records DEF UidInv
<1>3. CASE UNCHANGED <<cache[c], inst[c]>> /\ (c \in listed => c \in listed')
  BY <1>1, <1>3 DEF HoldsView
<1>4. CASE StopStep(c) /\ inst'[c] = inst[c] + 1
  BY <1>1, <1>2, <1>4 DEF HoldsView, StopStep, Same
<1>5. CASE ListStep(c)
  <2>1. cache'[c].rv > 0 => cache'[c].inst = inst[c]
    <3>1. cache'[c].rv = cm[c].rv
      BY <1>5 DEF ListStep
    <3> QED
      BY <1>5, <3>1, ListFacts DEF UidInv
  <2> QED
    BY <1>1, <1>2, <1>5, <2>1 DEF HoldsView, ListStep, Same
<1>6. CASE DeliverStep(c)
  <2>1. PICK v \in cmWatch[c] :
           /\ c \in listed /\ cache[c].rv < v.rv
           /\ cache'[c].rv = v.rv /\ cache'[c].inst = inst[c]
    BY <1>1, <1>6, DeliverFacts DEF UidInv
  <2> QED
    BY <1>1, <1>2, <1>6, <2>1 DEF HoldsView, DeliverStep, Same
<1> QED
  BY <1>3, <1>4, <1>5, <1>6

-----------------------------------------------------------------------------
(* One lemma per kind of step *)

RestStep ==
  /\ FaultBudget' /\ FedView' /\ StoreView' /\ TaskView'
  /\ NoFault' => \A c \in Clusters : Followed(c)'

\* The parts of the invariant.
LEMMA Parts ==
  RestInv => /\ TypeOK /\ UidInv /\ ViewInv /\ FaultBudget /\ FedView /\ StoreView /\ TaskView
             /\ \A c \in Clusters : StoreViewOf(c)
BY DEF RestInv, ViewInv, UidInv, StoreView

\* The budget of faults only shrinks, and a fault shows.
LEMMA SpendFacts ==
  ASSUME TypeOK, FaultBudget, NEW e \in Events \ {"any"}, Spend(e)
  PROVE  FaultBudget' /\ (NoFault' => NoFault /\ e # "fault")
<1>1. budget["fault"] \in Nat /\ Budget["fault"] \in Nat
  BY UidBudgetAssumption DEF TypeOK, Events
<1>2. budget'["fault"] = IF e = "fault" THEN budget["fault"] - 1 ELSE budget["fault"]
  BY DEF Spend, TypeOK, Events
<1> QED
  BY <1>1, <1>2 DEF FaultBudget, NoFault

\* A step that leaves the ConfigMaps and their stores alone.
LEMMA StoreViewKeep ==
  ASSUME StoreView, UNCHANGED <<store, cm, cmWatch, cache, listed, inst>>
  PROVE  StoreView'
BY DEF StoreView, StoreViewOf

\* A cluster that a step does not touch, except that it may be delivered.
LEMMA Untouched ==
  ASSUME NEW d \in Clusters, Followed(d),
         d \in listed' => d \in listed, cm'[d] = cm[d], cmWatch'[d] = cmWatch[d],
         cache'[d] = cache[d], store'[d].uid = store[d].uid,
         (\E g \in Handlers : d \in queue[g]) => (\E g \in Handlers : d \in queue'[g]),
         \A g \in Handlers : task[g].c = d /\ task[g].pc # "idle" => task'[g] = task[g]
  PROVE  Followed(d)'
<1>1. \A g \in Handlers : Sending(g, d) => Sending(g, d)'
  BY DEF Sending
<1>2. \A g \in Handlers : Working(g, d) => Working(g, d)'
  BY DEF Working
<1> QED
  BY <1>1, <1>2 DEF Followed

\* Redelivery only adds to the queues.
LEMMA RequeueKeeps ==
  ASSUME TypeOK, NEW c \in Clusters, Requeue(c)
  PROVE  /\ \E g \in Handlers : c \in queue'[g]
         /\ \A d \in Clusters : (\E g \in Handlers : d \in queue[g])
                                  => \E g \in Handlers : d \in queue'[g]
<1>1. /\ queue'["configmap"] = queue["configmap"] \cup {c}
      /\ queue'["cluster"] = queue["cluster"]
  BY DEF TypeOK, Requeue, Handlers
<1> QED
  BY <1>1 DEF Handlers

\* Putting a cluster back in the queues.
LEMMA PostponeRest ==
  ASSUME RestInv, NEW h \in Handlers, NEW c \in Clusters, Postpone(h, c)
  PROVE  RestStep
<1>1. \A d \in Clusters : (\E g \in Handlers : d \in queue[g])
                            => \E g \in Handlers : d \in queue'[g]
  <2>1. CASE Requeue(c)
    BY <2>1, RequeueKeeps, Parts
  <2>2. CASE queue' = [queue EXCEPT !["cluster"] = @ \ {c}, !["configmap"] = @ \cup {c}]
    <3>1. /\ queue'["configmap"] = queue["configmap"] \cup {c}
          /\ queue'["cluster"] = queue["cluster"] \ {c}
      BY <2>2, Parts DEF TypeOK, Handlers
    <3> QED
      BY <3>1 DEF Handlers
  <2> QED
    BY <2>1, <2>2 DEF Postpone
<1>2. UNCHANGED <<clusterObj, clusterWatch, store, cm, cmWatch, cache, listed, inst, task, budget>>
  BY DEF Postpone, fedVars, cmVars
<1>3. FaultBudget' /\ FedView' /\ (NoFault' => NoFault)
  BY <1>2, Parts DEF FaultBudget, FedView, NoFault
<1>4. StoreView' /\ TaskView'
  BY <1>2, StoreViewKeep, TaskViewKeep, Parts
<1>5. ASSUME NoFault', NEW d \in Clusters PROVE Followed(d)'
  BY <1>1, <1>2, <1>3, <1>5, Untouched DEF RestInv
<1> QED
  BY <1>3, <1>4, <1>5 DEF RestStep

\* A handler that takes cluster c has read the annotation the store holds.
LEMMA TakeRest ==
  ASSUME RestInv, NEW h \in Handlers, NEW c \in Clusters, Take(h, c)
  PROVE  RestStep
<1> DEFINE t == [Idle EXCEPT !.pc = "get", !.c = c, !.seen = store[c]]
<1>1. UNCHANGED <<clusterObj, clusterWatch, store, cm, cmWatch, cache, listed, inst, budget>>
  BY DEF Take, fedVars, cmVars
<1>2. t.pc = "get" /\ t.c = c /\ t.seen = store[c]
  BY DEF Idle
<1>3. task' = [task EXCEPT ![h] = t] /\ task[h].pc = "idle"
  BY DEF Take
<1> HIDE DEF t
<1>4. \A g \in Handlers : task'[g] = IF g = h THEN t ELSE task[g]
  BY <1>3, Parts DEF TypeOK
<1>5. FaultBudget' /\ FedView' /\ (NoFault' => NoFault)
  BY <1>1, Parts DEF FaultBudget, FedView, NoFault
<1>6. StoreView' /\ TaskView'
  BY <1>1, <1>2, <1>4, StoreViewKeep, TaskViewKeep, Parts
<1>7. \A d \in Clusters \ {c} : \A g \in Handlers : d \in queue[g] => d \in queue'[g]
  BY Parts DEF Take, TypeOK
<1>8. ASSUME NoFault', NEW d \in Clusters \ {c} PROVE Followed(d)'
  BY <1>1, <1>3, <1>4, <1>5, <1>7, <1>8, Untouched DEF RestInv
<1>9. ASSUME NoFault' PROVE Followed(c)'
  <2>1. Working(h, c)'
    BY <1>1, <1>2, <1>4 DEF Working
  <2>2. \A g \in Handlers : Sending(g, c) => Sending(g, c)'
    BY <1>1, <1>3, <1>4 DEF Sending
  <2>3. Followed(c)
    BY <1>5, <1>9 DEF RestInv
  <2> QED
    BY <1>1, <2>1, <2>2, <2>3 DEF Followed
<1> QED
  BY <1>5, <1>6, <1>8, <1>9 DEF RestStep

\* The ConfigMap is read from the store, or the cluster is redelivered.
LEMMA GetRest ==
  ASSUME RestInv, NEW h \in Handlers, Get(h)
  PROVE  RestStep
<1>0. PICK c \in Clusters : c = task[h].c
  BY TaskFacts, Parts DEF Get
<1> DEFINE t == [task[h] EXCEPT !.pc = "lock", !.obj = cache[c]]
<1>1. UNCHANGED <<clusterObj, clusterWatch, store, cm, cmWatch, cache, listed, inst, budget>>
  BY DEF Get, fedVars, cmVars
<1>2. task[h] \in Tasks /\ c = task[h].c /\ task[h].pc = "get"
  BY <1>0, TaskFacts, Parts DEF Get
<1>3. t.pc = "lock" /\ t.c = c /\ t.seen = task[h].seen /\ t.obj = cache[c]
  BY <1>0, <1>2 DEF Tasks
<1>4. \/ cache[c].rv = 0 /\ task' = [task EXCEPT ![h] = Idle] /\ Requeue(c)
      \/ cache[c].rv # 0 /\ task' = [task EXCEPT ![h] = t] /\ UNCHANGED queue
  BY Zenon, <1>0, Parts DEF Get, TypeOK
<1> HIDE DEF t
<1>5. \A g \in Handlers \ {h} : task'[g] = task[g]
  BY <1>4, Parts DEF TypeOK
<1>6. cache[c].rv # 0 => task'[h] = t
  BY <1>4, Parts DEF TypeOK
<1>7. FaultBudget' /\ FedView' /\ (NoFault' => NoFault)
  BY <1>1, Parts DEF FaultBudget, FedView, NoFault
<1>8. StoreView' /\ TaskView'
  BY <1>1, StoreViewKeep, TaskViewGet, Parts
<1>9. \A d \in Clusters : (\E g \in Handlers : d \in queue[g])
                            => \E g \in Handlers : d \in queue'[g]
  BY <1>2, <1>4, RequeueKeeps, Parts
<1>10. ASSUME NoFault', NEW d \in Clusters \ {c} PROVE Followed(d)'
  BY <1>1, <1>2, <1>5, <1>7, <1>9, <1>10, Untouched DEF RestInv
<1>11. ASSUME NoFault' PROVE Followed(c)'
  <2>1. CASE cache[c].rv = 0
    BY <1>1, <2>1 DEF Followed
  <2>2. CASE cache[c].rv # 0
    <3>1. \A g \in Handlers : Sending(g, c) => Sending(g, c)'
      BY <1>1, <1>2, <1>5 DEF Sending
    <3>2. \A g \in Handlers : Working(g, c) => Working(g, c)'
      BY <1>1, <1>2, <1>3, <1>5, <1>6, <2>2 DEF Working, Same
    <3>3. Followed(c)
      BY <1>2, <1>7, <1>11 DEF RestInv
    <3> QED
      BY <1>1, <1>2, <1>9, <3>1, <3>2, <3>3 DEF Followed
  <2> QED
    BY <2>1, <2>2
<1> QED
  BY <1>7, <1>8, <1>10, <1>11 DEF RestStep

\* Under the lock, with the UID that was read if there was one: either the store's
\* ConfigMap has it, or the handler goes on to send it.
LEMMA SettleFollowed ==
  ASSUME UidInv, TaskView, NEW h \in Handlers, Lock(h), NEW u \in Uids, Settle(h, u),
         task[h].seen.uid # NoUid => u = task[h].seen.uid,
         UNCHANGED <<store, cm, cmWatch, listed, queue>>,
         NEW c \in Clusters, Followed(c)
  PROVE  Followed(c)'
<1>1. task[h].c \in Clusters /\ task[h].pc = "lock"
  BY TaskFacts DEF Lock
<1>2. \A g \in Handlers : ~Sending(g, c)
  BY DEF Lock, Sending
<1>3. CASE SettledAlready(h, u)
  <2>1. \A g \in Handlers : Working(g, c) => g = h \/ Working(g, c)'
    BY <1>3 DEF SettledAlready, Working
  <2>2. Working(h, c) => store[c].uid = NoUid \/ (cache[c].uid = store[c].uid /\ cache[c].prov)
    <3>1. HoldsView(h, c)
      BY DEF TaskView
    <3> QED
      BY <1>1, <1>3, <3>1 DEF Working, HoldsView, SettledAlready
  <2> QED
    BY <1>2, <1>3, <2>1, <2>2 DEF Followed, SettledAlready
<1>4. CASE SettledInPlace(h, u) /\ c = task[h].c
  <2>1. Working(h, c)'
    BY <1>4 DEF SettledInPlace, Working
  <2>2. cache'[c] = cache[c] \/ Sending(h, c)'
    BY <1>4 DEF SettledInPlace, Sending, Same
  <2>3. Same(cache'[c], cache[c])
    BY <1>4 DEF SettledInPlace, Same
  <2> QED
    BY <1>2, <2>1, <2>2, <2>3 DEF Followed, Same
<1>5. CASE SettledInPlace(h, u) /\ c # task[h].c
  <2>1. cache'[c] = cache[c]
    BY <1>5 DEF SettledInPlace
  <2>2. \A g \in Handlers : Working(g, c) => Working(g, c)'
    BY <1>5, <2>1 DEF SettledInPlace, Working
  <2> QED
    BY <1>2, <2>1, <2>2 DEF Followed
<1> QED
  BY <1>1, <1>3, <1>4, <1>5, SettleDetail

\* A handler that found no annotation when it read the cluster object may give up: if
\* the store has one now, it is not the handler that was to see to it.
LEMMA GiveUpFollowed ==
  ASSUME UidInv, NEW h \in Handlers, Lock(h), task[h].seen.uid = NoUid,
         task' = [task EXCEPT ![h] = Idle],
         UNCHANGED <<store, cm, cmWatch, cache, listed, queue>>,
         NEW c \in Clusters, Followed(c)
  PROVE  Followed(c)'
<1>1. \A g \in Handlers \ {h} : task'[g] = task[g]
  BY DEF UidInv, TypeOK
<1>2. \A g \in Handlers : ~Sending(g, c)
  BY DEF Lock, Sending
<1>3. \A g \in Handlers : Working(g, c) => Working(g, c)' \/ store[c].uid = NoUid
  BY <1>1 DEF Working, Lock
<1> QED
  BY <1>2, <1>3 DEF Followed

\* The same of the views.
LEMMA GiveUpViews ==
  ASSUME ViewInv, NEW h \in Handlers, task' = [task EXCEPT ![h] = Idle],
         UNCHANGED <<store, cm, cmWatch, cache, listed, inst>>
  PROVE  StoreView' /\ TaskView'
<1>1. \A g \in Handlers : task'[g] = task[g] \/ task'[g].pc = "idle"
  BY Constants DEF ViewInv, UidInv, TypeOK
<1> QED
  BY <1>1, StoreViewKeep, TaskViewKeep DEF ViewInv

\* A change in place keeps the views.
LEMMA SettleViews ==
  ASSUME ViewInv, NEW h \in Handlers, Lock(h), NEW u \in Uids, Settle(h, u), TypeOK',
         UNCHANGED <<store, cm, cmWatch, listed, inst>>
  PROVE  StoreView' /\ TaskView'
<1>1. TaskView' /\ \A c \in Clusters : Same(cache'[c], cache[c])
  BY TaskViewSettle DEF ViewInv, Lock
<1>2. ASSUME NEW c \in Clusters PROVE StoreViewOf(c)'
  <2>1. StoreViewOf(c) /\ KeepStep(c)
    BY <1>1 DEF ViewInv, StoreView, KeepStep
  <2>2. c \in listed' => store'[c].ready
    BY <2>1 DEF StoreViewOf
  <2> QED
    BY <2>1, <2>2, StoreViewStep DEF StoreStep, ViewInv, UidInv
<1> QED
  BY <1>1, <1>2 DEF StoreView

\* The UID read before the lock, or the empty one of l. 661, is used.
LEMMA KnownRest ==
  ASSUME RestInv, TypeOK', NEW h \in Handlers, Known(h) \/ SelfMaster(h)
  PROVE  RestStep
<1>1. Lock(h) /\ task[h].pc = "lock"
  BY DEF Known, SelfMaster, Lock
<1>2. UNCHANGED <<clusterObj, clusterWatch, store, cm, cmWatch, listed, inst, queue, budget>>
  BY DEF Known, SelfMaster, fedVars, cmVars
<1>3. PICK u \in Uids : Settle(h, u) /\ (task[h].seen.uid # NoUid => u = task[h].seen.uid)
  <2>1. task[h].seen.uid \in Uids /\ NoUid \in Uids
    BY <1>1, TaskFacts, Parts DEF ClusterVersions, Uids
  <2> QED
    BY <2>1 DEF Known, SelfMaster
<1>4. FaultBudget' /\ FedView' /\ (NoFault' => NoFault)
  BY <1>2, Parts DEF FaultBudget, FedView, NoFault
<1>5. StoreView' /\ TaskView'
  BY <1>1, <1>2, <1>3, SettleViews DEF RestInv
<1>6. ASSUME NoFault', NEW c \in Clusters PROVE Followed(c)'
  BY <1>1, <1>2, <1>3, <1>4, <1>6, SettleFollowed, Parts DEF RestInv
<1> QED
  BY <1>4, <1>5, <1>6 DEF RestStep

\* A UID is recorded, and goes to the ConfigMap if the update succeeds.
LEMMA AnnotateRest ==
  ASSUME RestInv, TypeOK', NEW h \in Handlers, Lock(h), task[h].seen.uid = NoUid,
         NEW u \in Uids, Annotate(h, u)
  PROVE  RestStep
<1>1. UNCHANGED <<store, cm, cmWatch, listed, inst, queue>> /\ task[h].c \in Clusters
  BY TaskFacts, Parts DEF Annotate, cmVars, Lock
<1>2. FedView'
  <2> DEFINE o == [clusterObj[task[h].c] EXCEPT !.uid = u]
  <2>1. UNCHANGED <<clusterObj, clusterWatch>> \/ ClusterWrite(task[h].c, o)
    BY DEF Annotate, UpdateClusterOK, UpdateClusterFails
  <2> HIDE DEF o
  <2>2. CASE UNCHANGED <<clusterObj, clusterWatch>>
    BY <1>1, <2>2, Parts DEF FedView
  <2>3. CASE ClusterWrite(task[h].c, o)
    BY <1>1, <2>3, FedViewWrite, Parts
  <2> QED
    BY <2>1, <2>2, <2>3
<1>3. FaultBudget' /\ (NoFault' => NoFault)
  <2>1. UNCHANGED budget \/ Spend("fault")
    BY DEF Annotate, UpdateClusterOK, UpdateClusterFails
  <2>2. CASE UNCHANGED budget
    BY <2>2, Parts DEF FaultBudget, NoFault
  <2>3. CASE Spend("fault")
    BY <2>3, SpendFacts, Parts DEF Events
  <2> QED
    BY <2>1, <2>2, <2>3
<1>4. CASE Settle(h, u)
  <2>1. StoreView' /\ TaskView'
    BY <1>1, <1>4, SettleViews DEF RestInv
  <2>2. ASSUME NoFault', NEW c \in Clusters PROVE Followed(c)'
    BY <1>1, <1>3, <1>4, <2>2, SettleFollowed, Parts DEF RestInv
  <2> QED
    BY <1>2, <1>3, <2>1, <2>2 DEF RestStep
<1>5. CASE task' = [task EXCEPT ![h] = Idle] /\ UNCHANGED cache
  <2>1. StoreView' /\ TaskView'
    BY Zenon, <1>1, <1>5, GiveUpViews DEF RestInv
  <2>2. ASSUME NoFault', NEW c \in Clusters PROVE Followed(c)'
    BY Zenon, <1>1, <1>3, <1>5, <2>2, GiveUpFollowed, Parts DEF RestInv
  <2> QED
    BY <1>2, <1>3, <2>1, <2>2 DEF RestStep
<1> QED
  BY <1>4, <1>5 DEF Annotate

\* Following a master, electing oneself, or having nothing to offer.
LEMMA ElectionRest ==
  ASSUME RestInv, TypeOK', NEW h \in Handlers, Follow(h) \/ ElectSelf(h) \/ NoFallback(h)
  PROVE  RestStep
<1>1. Lock(h) /\ task[h].seen.uid = NoUid
  BY DEF Follow, ElectSelf, NoFallback
<1>2. CASE Follow(h)
  <2>1. PICK m \in Clusters : Annotate(h, store[m].uid)
    BY <1>2 DEF Follow, Masters
  <2>2. store[m].uid \in Uids
    BY Parts DEF TypeOK, ClusterVersions
  <2> QED
    BY <1>1, <2>1, <2>2, AnnotateRest
<1>3. CASE ElectSelf(h)
  <2>1. task[h].obj.uid \in Uids
    BY <1>1, TaskFacts, Parts DEF ConfigMaps, Lock
  <2> QED
    BY <1>1, <1>3, <2>1, AnnotateRest DEF ElectSelf
<1>4. CASE NoFallback(h)
  <2>1. /\ task' = [task EXCEPT ![h] = Idle]
        /\ UNCHANGED <<clusterObj, clusterWatch, store, cm, cmWatch, cache, listed, inst,
                       queue, budget>>
    BY <1>4 DEF NoFallback, fedVars, cmVars
  <2>2. FaultBudget' /\ FedView' /\ (NoFault' => NoFault)
    BY <2>1, Parts DEF FaultBudget, FedView, NoFault
  <2>3. StoreView' /\ TaskView'
    BY Zenon, <2>1, GiveUpViews DEF RestInv
  <2>4. ASSUME NoFault', NEW c \in Clusters PROVE Followed(c)'
    BY Zenon, <1>1, <2>1, <2>2, <2>4, GiveUpFollowed, Parts DEF RestInv
  <2> QED
    BY <2>2, <2>3, <2>4 DEF RestStep
<1> QED
  BY <1>2, <1>3, <1>4

\* A write of the ConfigMap of c goes on the watch of a listed informer.
LEMMA CMWriteRest ==
  ASSUME ViewInv, TypeOK', NEW c \in Clusters, NEW o \in ConfigMaps, CMWrite(c, o),
         UNCHANGED <<store, cache, listed, inst>>
  PROVE  /\ StoreView' /\ Followed(c)'
         /\ \A d \in Clusters \ {c} : cm'[d] = cm[d] /\ cmWatch'[d] = cmWatch[d]
<1> DEFINE v == [o EXCEPT !.rv = cm[c].rv + 1, !.inst = 0]
<1>1. v.rv = cm[c].rv + 1
  BY DEF ConfigMaps
<1>2. cm' = [cm EXCEPT ![c] = v]
      /\ cmWatch' = [cmWatch EXCEPT ![c] = IF c \in listed THEN @ \cup {v} ELSE {}]
  BY DEF CMWrite
<1> HIDE DEF v
<1>3. /\ cm'[c] = v /\ cmWatch'[c] = IF c \in listed THEN cmWatch[c] \cup {v} ELSE {}
      /\ \A d \in Clusters \ {c} : cm'[d] = cm[d] /\ cmWatch'[d] = cmWatch[d]
  BY <1>2 DEF ViewInv, UidInv, TypeOK
<1>4. WriteStep(c) /\ \A d \in Clusters \ {c} : KeepStep(d)
  BY <1>1, <1>3 DEF WriteStep, KeepStep, Same
<1>5. ASSUME NEW d \in Clusters PROVE StoreViewOf(d)'
  <2>1. StoreViewOf(d) /\ StoreStep(d)
    BY <1>4 DEF ViewInv, StoreView, StoreStep
  <2>2. d \in listed' => store'[d].ready
    BY <2>1 DEF StoreViewOf
  <2> QED
    BY <2>1, <2>2, StoreViewStep DEF ViewInv, UidInv
<1>6. Followed(c)'
  BY <1>3 DEF Followed
<1> QED
  BY <1>3, <1>5, <1>6 DEF StoreView

\* The updater sent the ConfigMap, or the cluster is redelivered: a handler that was
\* sending the store's ConfigMap fails only if a newer version is on its way.
LEMMA UpdateConfigMapRest ==
  ASSUME RestInv, TypeOK', NEW h \in Handlers, UpdateConfigMap(h)
  PROVE  RestStep
<1>0. PICK c \in Clusters : c = task[h].c
  BY TaskFacts, Parts DEF UpdateConfigMap
<1> DEFINE o == task[h].obj
<1>1. /\ o \in ConfigMaps /\ task[h].pc = "update" /\ task' = [task EXCEPT ![h] = Idle]
      /\ UNCHANGED <<clusterObj, clusterWatch, store, cache, listed, inst>>
  BY TaskFacts, Parts DEF UpdateConfigMap, fedVars
<1>2. task'[h].pc = "idle" /\ \A g \in Handlers \ {h} : task'[g] = task[g]
  BY <1>1, Constants, Parts DEF TypeOK
<1>3. /\ UNCHANGED budget \/ Spend("fault")
      /\ UNCHANGED <<cm, cmWatch>> \/ CMWrite(c, o)
      /\ UNCHANGED queue \/ Requeue(c)
  BY <1>0 DEF UpdateConfigMap, cmVars
<1>4. FaultBudget' /\ FedView' /\ (NoFault' => NoFault /\ ~Spend("fault"))
  <2>1. Spend("fault") => FaultBudget' /\ ~NoFault'
    BY SpendFacts, Parts DEF Events
  <2> QED
    BY <1>1, <1>3, <2>1, Parts DEF FaultBudget, FedView, NoFault
<1>5. StoreView'
  BY <1>1, <1>3, StoreViewKeep, CMWriteRest, Parts
<1>6. TaskView'
  BY <1>1, <1>2, TaskViewKeep, Parts
<1>7. \A d \in Clusters : (\E g \in Handlers : d \in queue[g])
                            => \E g \in Handlers : d \in queue'[g]
  BY <1>3, RequeueKeeps, Parts
<1>8. ASSUME NoFault', NEW d \in Clusters \ {c} PROVE Followed(d)'
  <2>1. cm'[d] = cm[d] /\ cmWatch'[d] = cmWatch[d]
    BY Zenon, <1>1, <1>3, CMWriteRest DEF RestInv
  <2> QED
    BY Zenon, <1>0, <1>1, <1>2, <1>4, <1>7, <1>8, <2>1, Untouched DEF RestInv
<1>9. ASSUME NoFault' PROVE Followed(c)'
  <2>1. \/ CMWrite(c, o)
        \/ /\ cm[c].rv # o.rv \/ ~store[c].ready
           /\ Requeue(c) /\ UNCHANGED <<cm, cmWatch>>
    BY <1>0, <1>4, <1>9 DEF UpdateConfigMap, cmVars
  <2>2. CASE CMWrite(c, o)
    BY <1>1, <2>2, CMWriteRest DEF RestInv
  <2>3. CASE /\ cm[c].rv # o.rv \/ ~store[c].ready
             /\ Requeue(c) /\ UNCHANGED <<cm, cmWatch>>
    <3>1. \E g \in Handlers : c \in queue'[g]
      BY <2>3, RequeueKeeps, Parts
    <3>2. c \in listed /\ cmWatch[c] = {} => ~Sending(h, c)
      BY <2>3, Parts DEF StoreView, StoreViewOf, Sending, Same
    <3>3. \A g \in Handlers \ {h} : Sending(g, c) => Sending(g, c)'
      BY <1>1, <1>2 DEF Sending
    <3>4. Followed(c)
      BY <1>4, <1>9 DEF RestInv
    <3> QED
      BY <1>1, <2>3, <3>1, <3>2, <3>3, <3>4 DEF Followed
  <2> QED
    BY <2>1, <2>2, <2>3
<1> QED
  BY <1>4, <1>5, <1>6, <1>8, <1>9 DEF RestStep

\* Writes by others: an update that timed out, the cluster's ingress controller,
\* somebody in the cluster.
LEMMA OthersWriteRest ==
  ASSUME RestInv, TypeOK', NEW c \in Clusters, NEW o \in ConfigMaps,
         UNCHANGED cmVars \/ CMWrite(c, o),
         UNCHANGED <<clusterObj, clusterWatch, store, cache, listed, inst, queue, task>>,
         UNCHANGED budget \/ Spend("tamper")
  PROVE  RestStep
<1>1. FaultBudget' /\ (NoFault' => NoFault)
  <2>1. CASE UNCHANGED budget
    BY <2>1, Parts DEF FaultBudget, NoFault
  <2>2. CASE Spend("tamper")
    BY <2>2, SpendFacts, Parts DEF Events
  <2> QED
    BY <2>1, <2>2
<1>2. FedView'
  BY Parts DEF FedView
<1>3. StoreView'
  BY StoreViewKeep, CMWriteRest, Parts DEF cmVars
<1>4. TaskView'
  BY TaskViewKeep, Parts
<1>5. ASSUME NoFault', NEW d \in Clusters PROVE Followed(d)'
  <2>1. CASE cm'[d] = cm[d] /\ cmWatch'[d] = cmWatch[d]
    BY <1>1, <1>5, <2>1, Untouched DEF RestInv
  <2>2. CASE CMWrite(c, o)
    <3>1. /\ Followed(c)'
          /\ \A e \in Clusters \ {c} : cm'[e] = cm[e] /\ cmWatch'[e] = cmWatch[e]
      BY <2>2, CMWriteRest DEF RestInv
    <3> QED
      BY <2>1, <3>1
  <2> QED
    BY <2>1, <2>2 DEF cmVars
<1> QED
  BY <1>1, <1>2, <1>3, <1>4, <1>5 DEF RestStep

\* The API server's version of the cluster object arrives, and may end the informer.
LEMMA DeliverClusterRest ==
  ASSUME RestInv, TypeOK', NEW c \in Clusters, DeliverCluster(c)
  PROVE  RestStep
<1>1. PICK v \in clusterWatch[c] :
        /\ store' = [store EXCEPT ![c] = v]
        /\ \/ /\ v.uid = store[c].uid /\ v.ready = store[c].ready
              /\ UNCHANGED <<cmWatch, cache, listed, inst, queue>>
           \/ /\ listed' = listed \ {c} /\ inst' = [inst EXCEPT ![c] = @ + 1]
              /\ cache' = [cache EXCEPT ![c] = NoConfigMap]
              /\ cmWatch' = [cmWatch EXCEPT ![c] = {}]
              /\ queue' = [queue EXCEPT !["cluster"] = @ \cup {c}]
  BY Zenon DEF DeliverCluster
<1>2. UNCHANGED <<cm, task, budget>>
  BY DEF DeliverCluster
<1>3. FaultBudget' /\ FedView' /\ (NoFault' => NoFault)
  BY <1>2, FedViewDeliver, Parts DEF FaultBudget, NoFault
<1>4. \A d \in Clusters \ {c} : /\ UNCHANGED <<cmWatch[d], cache[d], inst[d], store[d]>>
                                /\ d \in listed' <=> d \in listed
  BY <1>1, Parts DEF TypeOK
<1>5. \/ /\ store'[c].uid = store[c].uid /\ store'[c].ready = store[c].ready
         /\ UNCHANGED <<cmWatch, cache, listed, inst>>
      \/ StopStep(c) /\ inst'[c] = inst[c] + 1
  <2>1. /\ store \in [Clusters -> ClusterVersions] /\ inst \in [Clusters -> Nat]
        /\ cache \in [Clusters -> ConfigMaps] /\ cmWatch \in [Clusters -> SUBSET ConfigMaps]
    BY Parts DEF TypeOK
  <2>2. NoConfigMap.rv = 0
    BY DEF NoConfigMap
  <2>3. store'[c] = v
    BY <1>1, <2>1
  <2>4. CASE UNCHANGED <<cmWatch, cache, listed, inst, queue>>
    BY <1>1, <2>2, <2>3, <2>4, <2>1 DEF StopStep
  <2>5. CASE /\ listed' = listed \ {c} /\ inst' = [inst EXCEPT ![c] = @ + 1]
             /\ cache' = [cache EXCEPT ![c] = NoConfigMap]
             /\ cmWatch' = [cmWatch EXCEPT ![c] = {}]
    BY <1>2, <2>1, <2>2, <2>5 DEF StopStep
  <2> QED
    BY <1>1, <2>3, <2>4, <2>5
<1>6. StoreView'
  <2>1. ASSUME NEW d \in Clusters PROVE StoreViewOf(d)'
    <3>1. StoreViewOf(d) /\ StoreStep(d)
      BY <1>2, <1>4, <1>5, Parts DEF StoreView, StoreStep, KeepStep, Same
    <3>2. d \in listed' => store'[d].ready
      BY <1>4, <1>5, <3>1 DEF StoreViewOf, StopStep
    <3> QED
      BY <3>1, <3>2, StoreViewStep, Parts
  <2> QED
    BY <2>1 DEF StoreView
<1>7. TaskView'
  BY <1>2, <1>4, <1>5, TaskViewEvent, Parts
<1>8. \A d \in Clusters, g \in Handlers : d \in queue[g] => d \in queue'[g]
  BY <1>1, Parts DEF TypeOK, Handlers
<1>9. ASSUME NoFault', NEW d \in Clusters PROVE Followed(d)'
  <2>1. CASE StopStep(c) /\ d = c
    BY <2>1 DEF StopStep, Followed
  <2>2. CASE ~StopStep(c) \/ d # c
    BY Zenon, <1>2, <1>3, <1>4, <1>5, <1>8, <1>9, <2>2, Untouched DEF RestInv
  <2> QED
    BY <2>1, <2>2
<1> QED
  BY <1>3, <1>6, <1>7, <1>9 DEF RestStep

\* A ConfigMap that the informer lists or receives is the cluster's, and is delivered.
LEMMA ConfigMapEventRest ==
  ASSUME RestInv, TypeOK', NEW c \in Clusters, List(c) \/ DeliverConfigMap(c)
  PROVE  RestStep
<1>1. UNCHANGED <<clusterObj, clusterWatch, store, cm, inst, task, budget>>
  BY DEF List, DeliverConfigMap, fedVars, cmVars
<1>2. FaultBudget' /\ FedView' /\ (NoFault' => NoFault)
  BY <1>1, Parts DEF FaultBudget, FedView, NoFault
<1>3. \A d \in Clusters \ {c} : /\ UNCHANGED <<cmWatch[d], cache[d]>>
                                /\ d \in listed' <=> d \in listed
  BY Parts DEF List, DeliverConfigMap, cmVars, TypeOK
<1>4. List(c) => ListStep(c)
  BY Parts DEF List, ListStep, cmVars, TypeOK, NoConfigMap, ConfigMaps
<1>5. DeliverConfigMap(c) => DeliverStep(c)
  BY Zenon, Parts DEF DeliverConfigMap, DeliverStep, TypeOK
<1>6. StoreViewOf(c)
  BY Parts DEF StoreView
<1>7. StoreView'
  <2>1. ASSUME NEW d \in Clusters PROVE StoreViewOf(d)'
    <3>1. StoreViewOf(d) /\ StoreStep(d)
      BY <1>1, <1>3, <1>4, <1>5, Parts DEF StoreView, StoreStep, KeepStep, Same
    <3>2. d \in listed' => store'[d].ready
      BY <1>1, <3>1 DEF StoreViewOf, List, DeliverConfigMap
    <3> QED
      BY <3>1, <3>2, StoreViewStep, Parts
  <2> QED
    BY <2>1 DEF StoreView
<1>8. TaskView'
  BY <1>1, <1>3, <1>4, <1>5, TaskViewEvent, Parts
<1>9. UNCHANGED queue \/ Requeue(c)
  BY DEF List, DeliverConfigMap
<1>10. ASSUME NoFault', NEW d \in Clusters \ {c} PROVE Followed(d)'
  BY <1>1, <1>2, <1>3, <1>9, <1>10, RequeueKeeps, Untouched, Parts DEF RestInv
<1>11. Followed(c)'
  <2>1. CASE List(c)
    <3>1. cm[c] \in ConfigMaps /\ cm[c].rv \in Nat /\ inst[c] \in Nat
      BY Records, Parts
    <3>2. CASE cm[c].rv = 0
      BY <1>4, <2>1, <3>2 DEF ListStep, Followed
    <3>3. CASE cm[c].rv > 0
      <4>1. \E g \in Handlers : c \in queue'[g]
        BY <2>1, <3>3, RequeueKeeps, Parts DEF List
      <4>2. cache'[c].uid = cm[c].uid /\ cache'[c].prov = cm[c].prov
        BY <1>4, <2>1, <3>3, ListFacts, Parts
      <4> QED
        BY <1>1, <4>1, <4>2 DEF Followed
    <3> QED
      BY <3>1, <3>2, <3>3
  <2>2. CASE DeliverConfigMap(c)
    <3>1. \E g \in Handlers : c \in queue'[g]
      BY <2>2, RequeueKeeps, Parts DEF DeliverConfigMap
    <3>2. PICK v \in cmWatch[c] : /\ cache'[c].uid = v.uid /\ cache'[c].prov = v.prov
                                  /\ cmWatch'[c] = {} => v = cm[c]
      BY Zenon, <1>5, <1>6, <2>2, DeliverFacts, Parts
    <3> QED
      BY <1>1, <3>1, <3>2 DEF Followed
  <2> QED
    BY <2>1, <2>2
<1> QED
  BY <1>2, <1>7, <1>8, <1>10, <1>11 DEF RestStep

\* The cluster controller writes cluster objects only.
LEMMA ClusterControllerRest ==
  ASSUME RestInv, NEW c \in Clusters, Heartbeat(c) \/ Flip(c)
  PROVE  RestStep
<1>1. UNCHANGED <<store, cm, cmWatch, cache, listed, inst, queue, task>> /\ Spend("status")
  BY DEF Heartbeat, Flip, cmVars
<1>2. PICK o : ClusterWrite(c, o)
  BY DEF Heartbeat, Flip
<1>3. FaultBudget' /\ (NoFault' => NoFault)
  BY <1>1, SpendFacts, Parts DEF Events
<1>4. FedView'
  BY <1>1, <1>2, FedViewWrite, Parts
<1>5. StoreView' /\ TaskView'
  BY <1>1, StoreViewKeep, TaskViewKeep, Parts
<1>6. ASSUME NoFault', NEW d \in Clusters PROVE Followed(d)'
  BY <1>1, <1>3, <1>6, Untouched DEF RestInv
<1> QED
  BY <1>3, <1>4, <1>5, <1>6 DEF RestStep

\* After a restart no informer has listed and no handler is at work.
LEMMA RestartRest == RestInv /\ Restart => RestStep
<1> SUFFICES ASSUME RestInv, Restart PROVE RestStep
  OBVIOUS
<1>1. FaultBudget'
  BY SpendFacts, Parts DEF Restart, Events
<1>2. FedView'
  BY DEF Restart, FedView
<1>3. \A c \in Clusters : /\ c \notin listed' /\ cmWatch'[c] = {} /\ cache'[c].rv = 0
  BY DEF Restart, NoConfigMap
<1>4. StoreView' /\ \A c \in Clusters : Followed(c)'
  <2>1. ASSUME NEW c \in Clusters PROVE StoreViewOf(c)'
    BY <1>3 DEF StoreViewOf
  <2>2. ASSUME NEW c \in Clusters PROVE Followed(c)'
    BY <1>3 DEF Followed
  <2> QED
    BY <2>1, <2>2 DEF StoreView
<1>5. TaskView'
  BY Constants DEF Restart, TaskView, HoldsView
<1> QED
  BY <1>1, <1>2, <1>4, <1>5 DEF RestStep

-----------------------------------------------------------------------------
(* The theorems *)

\* Every step from a state of the invariant keeps its parts.
LEMMA NextRest == RestInv /\ [Next]_vars => RestInv'
<1> SUFFICES ASSUME RestInv, [Next]_vars PROVE RestInv'
  OBVIOUS
<1>1. UidInv' /\ TypeOK'
  BY NextGood, GoodStepKeepsUidInv, Parts DEF UidInv
<1>2. CASE \E h \in Handlers : Handler(h)
  <2>1. RestStep
    BY <1>1, <1>2, PostponeRest, TakeRest, GetRest, KnownRest, ElectionRest,
       UpdateConfigMapRest DEF Handler
  <2> QED
    BY <1>1, <2>1 DEF RestStep, RestInv, ViewInv
<1>3. CASE \E op \in late : LateUpdate(op)
  <2>1. PICK op \in late : LateUpdate(op)
    BY <1>3
  <2>2. op.c \in Clusters /\ op.obj \in ConfigMaps
    BY Parts DEF TypeOK
  <2>3. RestStep
    BY <1>1, <2>1, <2>2, OthersWriteRest DEF LateUpdate, fedVars
  <2> QED
    BY <1>1, <2>3 DEF RestStep, RestInv, ViewInv
<1>4. CASE Informers
  <2>1. RestStep
    BY <1>1, <1>4, DeliverClusterRest, ConfigMapEventRest DEF Informers
  <2> QED
    BY <1>1, <2>1 DEF RestStep, RestInv, ViewInv
<1>5. CASE Environment
  <2>1. ASSUME NEW c \in Clusters, NEW u \in Uids, CreateConfigMap(c) \/ Tamper(c, u)
        PROVE  RestStep
    <3> DEFINE o1 == [NoConfigMap EXCEPT !.uid = c]
               o2 == [cm[c] EXCEPT !.uid = u]
    <3>1. o1 \in ConfigMaps /\ o2 \in ConfigMaps
      BY Constants, Parts DEF ConfigMaps, Uids, TypeOK
    <3>2. /\ CMWrite(c, o1) \/ CMWrite(c, o2)
          /\ UNCHANGED <<clusterObj, clusterWatch, store, cache, listed, inst, queue, task>>
          /\ UNCHANGED budget \/ Spend("tamper")
      BY <2>1 DEF CreateConfigMap, Tamper, fedVars
    <3> HIDE DEF o1, o2
    <3> QED
      BY <1>1, <3>1, <3>2, OthersWriteRest
  <2>2. NoUid \in Uids
    BY DEF Uids
  <2>3. RestStep
    BY <1>5, <2>1, <2>2, ClusterControllerRest, RestartRest DEF Environment
  <2> QED
    BY <1>1, <2>3 DEF RestStep, RestInv, ViewInv
<1>6. CASE UNCHANGED vars
  <2>1. UNCHANGED <<clusterObj, clusterWatch, store, cm, cmWatch, cache, listed, inst, queue,
                    task, budget>>
    BY <1>6 DEF vars, fedVars, cmVars
  <2>2. FaultBudget' /\ FedView' /\ (NoFault' => NoFault)
    BY <2>1, Parts DEF FaultBudget, FedView, NoFault
  <2>3. StoreView' /\ TaskView'
    BY <2>1, StoreViewKeep, TaskViewKeep, Parts
  <2>4. ASSUME NoFault', NEW c \in Clusters PROVE Followed(c)'
    BY <2>1, <2>2, <2>4, Untouched DEF RestInv
  <2> QED
    BY <1>1, <2>2, <2>3, <2>4 DEF RestInv, ViewInv
<1> QED
  BY <1>2, <1>3, <1>4, <1>5, <1>6 DEF Next

\* The invariant holds initially.
LEMMA InitRest == Init => RestInv
<1> SUFFICES ASSUME Init PROVE RestInv
  OBVIOUS
<1>1. UidInv
  BY InitUidInv
<1>2. FaultBudget
  <2>1. Budget["fault"] \in Nat /\ budget = Budget
    BY UidBudgetAssumption DEF Init, Events
  <2> QED
    BY <2>1 DEF FaultBudget
<1>3. FedView
  BY Zenon DEF Init, FedView
<1>4. \A c \in Clusters : c \notin listed /\ cmWatch[c] = {} /\ cache[c].rv = 0
  BY Zenon DEF Init, NoConfigMap
<1>5. StoreView /\ \A c \in Clusters : Followed(c)
  BY <1>4 DEF StoreView, StoreViewOf, Followed
<1>6. TaskView
  BY Constants DEF Init, TaskView, HoldsView
<1> QED
  BY <1>1, <1>2, <1>3, <1>5, <1>6 DEF RestInv, ViewInv

\* RestInv holds in every reachable state: what the stores and the handlers hold, and
\* that a ConfigMap to be put right is on somebody's way.
THEOREM SomebodySeesToIt == Spec => []RestInv
BY InitRest, NextRest, PTL DEF Spec

\* The handlers leave a cluster alone only when its ConfigMap has the UID of the
\* annotation and its provider UID, if no request failed (ll. 498-609).
THEOREM RestMeansSettled == Spec => []RestIsSettled
<1>1. RestInv => RestIsSettled
  <2> SUFFICES ASSUME RestInv, NoFault, NEW c \in Clusters, AtRest(c),
                      clusterObj[c].uid # NoUid, cm[c].rv > 0
               PROVE  cm[c].uid = clusterObj[c].uid /\ cm[c].prov
    BY DEF RestIsSettled, NoFault
  <2>1. /\ c \in listed /\ cmWatch[c] = {} /\ clusterWatch[c] = {}
        /\ \A h \in Handlers : c \notin queue[h] /\ ~Sending(h, c) /\ ~Working(h, c)
    BY DEF AtRest, Sending, Working
  <2>2. store[c] = clusterObj[c] /\ cache[c].rv = cm[c].rv
    BY <2>1, Parts DEF FedView, StoreView, StoreViewOf
  <2> QED
    BY Zenon, <2>1, <2>2 DEF RestInv, Followed
<1> QED
  BY <1>1, SomebodySeesToIt, PTL
=============================================================================
