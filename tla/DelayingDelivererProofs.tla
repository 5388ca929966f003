----------------------- MODULE DelayingDelivererProofs -----------------------
(***************************************************************************)
(* Proofs about DelayingDeliverer: its invariant, that a jam lasts, and    *)
(* that it implements Deliverer, for every number of keys and callers and  *)
(* all capacities.                                                         *)
(***************************************************************************)
EXTENDS DelayingDeliverer, TLAPS

\* What Append and Tail do to the items of a channel.
LEMMA ChannelItems ==
  ASSUME NEW S, NEW s \in Seq(S), NEW e \in S
  PROVE  /\ Range(Append(s, e)) = Range(s) \cup {e}
         /\ s # <<>> => /\ Head(s) \in Range(s) /\ Head(s) \in S /\ Tail(s) \in Seq(S)
                        /\ Range(s) = Range(Tail(s)) \cup {Head(s)}
<1>1. Range(Append(s, e)) = Range(s) \cup {e}
  <2>1. Range(Append(s, e)) \subseteq Range(s) \cup {e}
    BY DEF Range
  <2>2. \A i \in DOMAIN s : s[i] = Append(s, e)[i] /\ i \in DOMAIN Append(s, e)
    OBVIOUS
  <2>3. Append(s, e)[Len(s) + 1] = e /\ Len(s) + 1 \in DOMAIN Append(s, e)
    OBVIOUS
  <2> QED  BY <2>1, <2>2, <2>3 DEF Range
<1>2. ASSUME s # <<>>
      PROVE  /\ Head(s) \in Range(s) /\ Head(s) \in S /\ Tail(s) \in Seq(S)
             /\ Range(s) = Range(Tail(s)) \cup {Head(s)}
  <2>1. 1 \in DOMAIN s /\ Head(s) = s[1] /\ Head(s) \in S /\ Tail(s) \in Seq(S)
    BY <1>2
  <2>2. \A i \in DOMAIN Tail(s) : Tail(s)[i] = s[i + 1] /\ i + 1 \in DOMAIN s
    BY <1>2
  <2>3. \A i \in DOMAIN s : i # 1 => s[i] = Tail(s)[i - 1] /\ i - 1 \in DOMAIN Tail(s)
    BY <1>2
  <2>4. Range(s) \subseteq Range(Tail(s)) \cup {Head(s)}
    BY <2>1, <2>3 DEF Range
  <2>5. Range(Tail(s)) \subseteq Range(s)
    BY <2>2 DEF Range
  <2> QED  BY <2>1, <2>4, <2>5 DEF Range
<1> QED  BY <1>1, <1>2

\* Taking an update leaves a heap, with no keys but those it had and the new one.
LEMMA UpdatedIsHeap ==
  ASSUME TypeOK, NEW i \in Items
  PROVE  /\ DOMAIN Updated(i) \subseteq Keys
         /\ \A k \in DOMAIN Updated(i) : Updated(i)[k] \in Nat
BY DEF TypeOK, Updated, Items

\* deliver moves at most one item, a due one, from the heap to run's hand, and
\* loses none.
LEMMA DeliverKeeps ==
  ASSUME NEW h, NEW t \in Nat, DOMAIN h \subseteq Keys, \A k \in DOMAIN h : h[k] \in Nat,
         deliver(h, t)
  PROVE  /\ DOMAIN heap' \subseteq Keys /\ \A k \in DOMAIN heap' : heap'[k] \in Nat
         /\ runner' \in [at : {"select"}] \cup [at : {"sending"}, timestamp : {t}, item : Items]
         /\ runner'.at = "sending" => runner'.item.time <= t
         /\ HeapItems(heap') \cup InHand' = HeapItems(h)
<1>1. CASE \E k \in DOMAIN h :
             /\ HeapTop(h, k) /\ h[k] <= t
             /\ heap' = [j \in DOMAIN h \ {k} |-> h[j]]
             /\ runner' = [at |-> "sending", timestamp |-> t, item |-> [key |-> k, time |-> h[k]]]
  <2>1. PICK k \in DOMAIN h :
             /\ h[k] <= t
             /\ heap' = [j \in DOMAIN h \ {k} |-> h[j]]
             /\ runner' = [at |-> "sending", timestamp |-> t, item |-> [key |-> k, time |-> h[k]]]
    BY <1>1
  <2>2. HeapItems(heap') = HeapItems(h) \ {[key |-> k, time |-> h[k]]}
    BY <2>1 DEF HeapItems
  <2>3. InHand' = {[key |-> k, time |-> h[k]]} /\ [key |-> k, time |-> h[k]] \in HeapItems(h)
    BY <2>1 DEF InHand, HeapItems
  <2>4. HeapItems(heap') \cup InHand' = HeapItems(h)
    BY <2>2, <2>3
  <2> QED  BY <2>1, <2>4 DEF Items
<1>2. CASE heap' = h /\ runner' = [at |-> "select"]
  BY <1>2 DEF HeapItems, InHand
<1> QED  BY Zenon, <1>1, <1>2 DEF deliver
-----------------------------------------------------------------------------
\* The type of what a caller is doing.
LEMMA CallType ==
  ASSUME TypeOK, NEW p \in Callers
  PROVE  /\ call[p].at = "sending" => call[p].item \in Items
         /\ call[p].at = "backoff" => call[p].key \in Keys /\ call[p].delay \in Delays
         /\ call[p].at = "idle" => call[p] = Idle
         /\ call[p].at \in {"idle", "backoff", "sending"}
BY DEF TypeOK, Idle

\* The back-off of a key that fails again stays within its maximum.
LEMMA NextBackoffCapped ==
  ASSUME NEW b \in 0..MaxBackoff
  PROVE  NextBackoff(b) \in 0..MaxBackoff
BY DelivererAssumption DEF NextBackoff

\* Every step of run keeps the invariant.
LEMMA RunnerKeepsInv ==
  ASSUME DelivererInv, Runner
  PROVE  DelivererInv'
<1> USE DelivererAssumption DEF DelivererInv
<1>1. CASE SendTarget
  <2>1. runner.timestamp \in Nat /\ runner.timestamp <= now /\ runner.item \in Items
    BY <1>1 DEF SendTarget, TypeOK
  <2>2. deliver(heap, runner.timestamp) /\ UNCHANGED <<now, callVars, updateChannel, serving>>
        /\ targetChannel' = Append(targetChannel, runner.item)
    BY <1>1 DEF SendTarget
  <2>3. /\ DOMAIN heap' \subseteq Keys /\ \A k \in DOMAIN heap' : heap'[k] \in Nat
        /\ runner' \in [at : {"select"}]
                         \cup [at : {"sending"}, timestamp : {runner.timestamp}, item : Items]
        /\ runner'.at = "sending" => runner'.item.time <= runner.timestamp
    BY <2>1, <2>2, DeliverKeeps DEF TypeOK
  <2>4. runner' \in [at : {"select"}] \cup [at : {"sending"}, timestamp : 0..now, item : Items]
    BY <2>1, <2>3 DEF TypeOK
  <2>5. runner'.at = "sending" => runner'.item \in Items /\ runner'.item.time <= now
    BY <2>1, <2>3 DEF TypeOK, Items
  <2>6. targetChannel' \in Seq(Items)
    BY <2>1, <2>2 DEF TypeOK
  <2>7. \A i \in DOMAIN targetChannel' : targetChannel'[i].time <= now
    BY SMTT(30), <1>1, <2>1, <2>2 DEF TypeOK, SendTarget
  <2> QED  BY <2>2, <2>3, <2>4, <2>5, <2>6, <2>7 DEF TypeOK, callVars
<1>2. CASE WakeUp
  <2>2. deliver(heap, now) /\ UNCHANGED <<now, callVars, updateChannel, targetChannel, serving>>
    BY <1>2 DEF WakeUp
  <2>3. /\ DOMAIN heap' \subseteq Keys /\ \A k \in DOMAIN heap' : heap'[k] \in Nat
        /\ runner' \in [at : {"select"}] \cup [at : {"sending"}, timestamp : {now}, item : Items]
        /\ runner'.at = "sending" => runner'.item.time <= now
    BY <2>2, DeliverKeeps DEF TypeOK
  <2>4. runner' \in [at : {"select"}] \cup [at : {"sending"}, timestamp : 0..now, item : Items]
    BY <2>3 DEF TypeOK
  <2> QED  BY <2>2, <2>3, <2>4 DEF TypeOK, callVars
<1>3. CASE TakeUpdate
  <2> DEFINE h == Updated(Head(updateChannel))
  <2>1. Head(updateChannel) \in Items /\ Tail(updateChannel) \in Seq(Items)
    BY <1>3 DEF TakeUpdate, TypeOK
  <2>2. deliver(h, now) /\ UNCHANGED <<now, callVars, targetChannel, serving>>
        /\ updateChannel' = Tail(updateChannel)
    BY <1>3 DEF TakeUpdate
  <2>3. DOMAIN h \subseteq Keys /\ \A k \in DOMAIN h : h[k] \in Nat
    BY <2>1, UpdatedIsHeap
  <2> HIDE DEF h
  <2>4. /\ DOMAIN heap' \subseteq Keys /\ \A k \in DOMAIN heap' : heap'[k] \in Nat
        /\ runner' \in [at : {"select"}] \cup [at : {"sending"}, timestamp : {now}, item : Items]
        /\ runner'.at = "sending" => runner'.item.time <= now
    BY <2>2, <2>3, DeliverKeeps DEF TypeOK
  <2>5. runner' \in [at : {"select"}] \cup [at : {"sending"}, timestamp : 0..now, item : Items]
    BY <2>4 DEF TypeOK
  <2> QED  BY <2>1, <2>2, <2>4, <2>5 DEF TypeOK, callVars
<1> QED  BY <1>1, <1>2, <1>3 DEF Runner

\* Every step of the callers, the handler and the clock keeps the invariant.
LEMMA StepKeepsInv ==
  ASSUME DelivererInv, [Next]_vars
  PROVE  DelivererInv'
<1> USE DelivererAssumption DEF DelivererInv
<1> DEFINE Kinds == [at : {"idle"}] \cup [at : {"backoff"}, key : Keys, delay : Delays]
                      \cup [at : {"sending"}, item : Items]
<1>1. ASSUME NEW p \in Callers, NEW k \in Keys, NEW d \in Delays, Deliver(p, k, d)
      PROVE  DelivererInv'
  <2>1. [at |-> "sending", item |-> [key |-> k, time |-> now + d]] \in Kinds
    BY DEF TypeOK, Items
  <2> QED  BY <1>1, <2>1 DEF TypeOK, Deliver, DeliverAfter, Calling, Idle
<1>2. ASSUME NEW p \in Callers, NEW k \in Keys, NEW d \in Delays, DeliverFailed(p, k, d)
      PROVE  DelivererInv'
  <2>1. backoff' \in [Keys -> 0..MaxBackoff]
    BY <1>2, NextBackoffCapped DEF TypeOK, DeliverFailed
  <2>2. [at |-> "backoff", key |-> k, delay |-> d] \in Kinds
    OBVIOUS
  <2> QED  BY <1>2, <2>1, <2>2 DEF TypeOK, DeliverFailed, Calling, Idle
<1>3. ASSUME NEW p \in Callers, GetBackoff(p)
      PROVE  DelivererInv'
  <2>1. call[p].key \in Keys /\ call[p].delay \in Nat /\ backoff[call[p].key] \in Nat
    <3>1. call[p].key \in Keys /\ call[p].delay \in Delays
      BY <1>3, CallType DEF GetBackoff
    <3>2. backoff[call[p].key] \in 0..MaxBackoff
      BY <3>1 DEF TypeOK
    <3>3. Delays \subseteq Nat /\ 0..MaxBackoff \subseteq Nat
      OBVIOUS
    <3> QED  BY Zenon, <3>1, <3>2, <3>3
  <2> DEFINE new == [at |-> "sending",
                     item |-> [key |-> call[p].key,
                               time |-> now + (call[p].delay + backoff[call[p].key])]]
  <2>2. new \in Kinds
    BY SMTT(30), <2>1 DEF TypeOK, Items
  <2>3. call' = [call EXCEPT ![p] = new] /\ call[p] # Idle
        /\ UNCHANGED <<now, backoff, calls, failed, updateChannel, heap, targetChannel, runner, serving>>
    BY <1>3 DEF GetBackoff, DeliverAfter, Idle
  <2> HIDE DEF new
  <2> QED  BY <2>2, <2>3 DEF TypeOK
<1>4. ASSUME NEW p \in Callers, SendUpdate(p)
      PROVE  DelivererInv'
  <2>1. call[p].item \in Items
    BY <1>4, CallType DEF SendUpdate
  <2> QED  BY <1>4, <2>1 DEF TypeOK, SendUpdate, Idle
<1>5. CASE Runner
  BY <1>5, RunnerKeepsInv
<1>6. CASE HandOut
  <2>1. Head(targetChannel).key \in Keys /\ targetChannel' \in Seq(Items)
        /\ \A i \in DOMAIN targetChannel' : targetChannel'[i].time <= now
    <3>1. targetChannel # <<>> /\ targetChannel' = Tail(targetChannel)
          /\ targetChannel \in Seq(Items)
      BY <1>6 DEF HandOut, TypeOK
    <3>2. Head(targetChannel) \in Items /\ targetChannel' \in Seq(Items)
      BY <3>1
    <3>3. \A i \in DOMAIN targetChannel' :
            i + 1 \in DOMAIN targetChannel /\ targetChannel'[i] = targetChannel[i + 1]
      BY <3>1
    <3> QED  BY <3>2, <3>3 DEF Items
  <2> QED  BY <1>6, <2>1 DEF TypeOK, HandOut, callVars
<1>7. CASE HandlerReturns
  BY <1>7 DEF TypeOK, HandlerReturns, callVars
<1>8. ASSUME NEW k \in Keys, BackoffExpires(k)
      PROVE  DelivererInv'
  BY <1>8 DEF TypeOK, BackoffExpires
<1>9. CASE Tick
  <2>1. now' = now + 1
        /\ UNCHANGED <<callVars, updateChannel, heap, targetChannel, runner, serving>>
    BY <1>9 DEF Tick
  <2>2. now' \in Nat /\ 0..now \subseteq 0..now'
    BY <2>1 DEF TypeOK
  <2>3. runner' \in [at : {"select"}] \cup [at : {"sending"}, timestamp : 0..now', item : Items]
    BY <2>1, <2>2 DEF TypeOK
  <2>4. runner.at = "sending" => runner.item.time <= now'
    BY <2>1 DEF TypeOK, Items
  <2>5. \A i \in DOMAIN targetChannel : targetChannel[i].time <= now'
    <3>1. \A i \in DOMAIN targetChannel : targetChannel[i].time \in Nat
      <4>1. \A i \in DOMAIN targetChannel : targetChannel[i] \in Items
        BY DEF TypeOK
      <4> QED  BY <4>1 DEF Items
    <3> QED  BY <2>1, <3>1 DEF TypeOK
  <2> QED  BY <2>1, <2>2, <2>3, <2>4, <2>5 DEF TypeOK, callVars
<1>10. CASE UNCHANGED vars
  BY <1>10 DEF TypeOK, vars, callVars
<1> QED
  BY <1>1, <1>2, <1>3, <1>4, <1>5, <1>6, <1>7, <1>8, <1>9, <1>10 DEF Next, Caller

\* Nothing is sent to the handler before its time, and the state keeps its types:
\* DelivererInv is inductive.
THEOREM DelivererInvariant == Spec => []DelivererInv
<1>1. Init => DelivererInv
  BY DelivererAssumption DEF Init, DelivererInv, TypeOK, Idle
<1> QED  BY <1>1, StepKeepsInv, PTL DEF Spec

\* Once run and the handler wait for each other, no step ends their waiting.
THEOREM JamIsForeverHolds == Spec => JamIsForever
<1>1. ASSUME DelivererInv, [Next]_vars, Jammed
      PROVE  Jammed'
  <2> USE <1>1, DelivererAssumption DEF Jammed
  <2>1. serving # None /\ TypeOK
    BY DEF DelivererInv, Idle
  <2>2. ASSUME NEW p \in Callers, NEW k \in Keys, NEW d \in Delays,
               Deliver(p, k, d) \/ DeliverFailed(p, k, d)
        PROVE  Jammed'
    <3>1. call[p] = Idle /\ p # Handler
      BY <2>2 DEF Deliver, DeliverFailed, Idle
    <3>2. call'[Handler] = call[Handler]
      BY <2>1, <2>2, <3>1 DEF Deliver, DeliverFailed, DeliverAfter, TypeOK
    <3> QED  BY <2>2, <3>2 DEF Deliver, DeliverFailed
  <2>3. ASSUME NEW p \in Callers, Caller(p)
        PROVE  Jammed'
    BY <2>1, <2>3 DEF Caller, GetBackoff, SendUpdate, DeliverAfter, TypeOK
  <2>4. ~ Runner
    BY <2>1 DEF Runner, SendTarget, WakeUp, TakeUpdate, TypeOK
  <2>5. ~ HandOut /\ ~ HandlerReturns
    BY <2>1 DEF HandOut, HandlerReturns, Idle
  <2>6. ASSUME NEW k \in Keys, BackoffExpires(k)
        PROVE  Jammed'
    BY <2>6 DEF BackoffExpires
  <2>7. CASE Tick
    BY <2>7 DEF Tick, callVars
  <2>8. CASE UNCHANGED vars
    BY <2>8 DEF vars, callVars
  <2> QED  BY <2>2, <2>3, <2>4, <2>5, <2>6, <2>7, <2>8 DEF Next
<1>2. DelivererInv /\ [Next]_vars => [Jammed => Jammed']_vars
  BY <1>1
<1> QED  BY <1>2, DelivererInvariant, PTL DEF Spec, JamIsForever
-----------------------------------------------------------------------------
(* The refinement *)

\* A caller that begins to send has one item more on its way.
LEMMA BeginSend ==
  ASSUME DelivererInv, NEW p \in Callers, NEW i \in Items, call[p].at # "sending",
         call' = [call EXCEPT ![p] = [at |-> "sending", item |-> i]],
         UNCHANGED <<updateChannel, heap, targetChannel, runner>>
  PROVE  Pending' = Pending \cup {i}
<1>1. Sending' = Sending \cup {i}
  <2>1. \A q \in Callers : q # p => call'[q] = call[q]
    BY DEF DelivererInv, TypeOK
  <2>2. call'[p] = [at |-> "sending", item |-> i]
    BY DEF DelivererInv, TypeOK
  <2> QED  BY <2>1, <2>2 DEF Sending
<1>2. HeapItems(heap)' = HeapItems(heap) /\ InHand' = InHand
  BY DEF HeapItems, InHand
<1> QED  BY <1>1, <1>2 DEF Pending, Range

\* Taking an update merges it with the item of its key in the heap; of the two
\* the earlier one stays.
LEMMA UpdatedItems ==
  ASSUME TypeOK, NEW i \in Items
  PROVE  \/ HeapItems(Updated(i)) = HeapItems(heap) \cup {i}
         \/ \E j \in HeapItems(heap) :
              /\ j.key = i.key /\ j # i
              /\ \/ j.time <= i.time /\ HeapItems(Updated(i)) = HeapItems(heap)
                 \/ i.time <= j.time /\ HeapItems(Updated(i)) = (HeapItems(heap) \ {j}) \cup {i}
<1>1. i.key \in Keys /\ i.time \in Nat /\ i = [key |-> i.key, time |-> i.time]
  BY DEF Items
<1>2. CASE i.key \notin DOMAIN heap
  BY Zenon, <1>1, <1>2 DEF HeapItems, Updated
<1>3. CASE i.key \in DOMAIN heap
  <2> DEFINE j == [key |-> i.key, time |-> heap[i.key]]
  <2>1. j \in HeapItems(heap) /\ j.key = i.key /\ j.time = heap[i.key] /\ j.time \in Nat
    BY <1>3 DEF HeapItems, TypeOK
  <2>2. CASE heap[i.key] <= i.time
    <3>1. Updated(i) = heap
      BY <1>3, <2>2 DEF Updated
    <3>2. CASE j = i
      BY <2>1, <3>1, <3>2
    <3>3. CASE j # i
      BY <2>1, <2>2, <3>1, <3>3
    <3> QED  BY <3>2, <3>3
  <2>3. CASE ~ (heap[i.key] <= i.time)
    <3>1. Updated(i) = [k \in DOMAIN heap |-> IF k = i.key THEN i.time ELSE heap[k]]
      BY <1>3, <2>3 DEF Updated
    <3>2. \A k \in DOMAIN heap \ {i.key} : Updated(i)[k] = heap[k]
      BY <3>1
    <3>3. DOMAIN Updated(i) = DOMAIN heap /\ Updated(i)[i.key] = i.time
      BY <1>3, <3>1
    <3>4. HeapItems(Updated(i)) = (HeapItems(heap) \ {j}) \cup {i}
      BY <1>1, <1>3, <3>2, <3>3 DEF HeapItems
    <3>5. i.time <= j.time /\ j # i
      BY <1>1, <2>1, <2>3
    <3> QED  BY <2>1, <3>4, <3>5
  <2> QED  BY <2>2, <2>3
<1> QED  BY <1>2, <1>3

\* A step of run keeps every request, or drops one for a key that has another,
\* earlier one.
LEMMA RunnerRefines ==
  ASSUME DelivererInv, Runner
  PROVE  /\ UNCHANGED <<now, serving>>
         /\ \/ Pending' = Pending
            \/ \E i, j \in Pending : /\ i # j /\ i.key = j.key /\ j.time <= i.time
                                     /\ Pending' = Pending \ {i}
<1> USE DEF DelivererInv
<1>0. now \in Nat /\ DOMAIN heap \subseteq Keys /\ \A k \in DOMAIN heap : heap[k] \in Nat
  BY DEF TypeOK
<1>1. CASE SendTarget
  <2>1. runner.timestamp \in Nat /\ runner.item \in Items /\ InHand = {runner.item}
    BY <1>1 DEF SendTarget, TypeOK, InHand
  <2>2. HeapItems(heap') \cup InHand' = HeapItems(heap)
    BY <1>0, <1>1, <2>1, DeliverKeeps DEF SendTarget
  <2>3. Range(targetChannel') = Range(targetChannel) \cup {runner.item}
    BY <1>1, <2>1, ChannelItems DEF SendTarget, TypeOK
  <2>4. Sending' = Sending /\ Range(updateChannel') = Range(updateChannel)
        /\ UNCHANGED <<now, serving>>
    BY <1>1 DEF SendTarget, callVars, Sending
  <2>5. Pending' = Sending' \cup Range(updateChannel') \cup HeapItems(heap') \cup InHand'
                     \cup Range(targetChannel')
    BY DEF Pending, Range, HeapItems
  <2> QED  BY <2>1, <2>2, <2>3, <2>4, <2>5 DEF Pending
<1>2. CASE WakeUp
  <2>1. InHand = {}
    BY <1>2 DEF WakeUp, InHand
  <2>2. HeapItems(heap') \cup InHand' = HeapItems(heap)
    BY <1>0, <1>2, DeliverKeeps DEF WakeUp
  <2>3. Sending' = Sending /\ Range(updateChannel') = Range(updateChannel)
        /\ Range(targetChannel') = Range(targetChannel) /\ UNCHANGED <<now, serving>>
    BY <1>2 DEF WakeUp, callVars, Sending
  <2>4. Pending' = Sending' \cup Range(updateChannel') \cup HeapItems(heap') \cup InHand'
                     \cup Range(targetChannel')
    BY DEF Pending, Range, HeapItems
  <2> QED  BY <2>1, <2>2, <2>3, <2>4 DEF Pending
<1>3. CASE TakeUpdate
  <2> DEFINE i == Head(updateChannel)
  <2>1. updateChannel # <<>> /\ updateChannel' = Tail(updateChannel) /\ updateChannel \in Seq(Items)
        /\ deliver(Updated(i), now) /\ InHand = {} /\ UNCHANGED <<now, serving>>
    BY <1>3 DEF TakeUpdate, TypeOK, InHand
  <2>2. i \in Items /\ Range(updateChannel) = Range(updateChannel') \cup {i}
    BY <2>1, ChannelItems
  <2>3. HeapItems(heap') \cup InHand' = HeapItems(Updated(i))
    BY <1>0, <2>1, <2>2, DeliverKeeps, UpdatedIsHeap
  <2>4. Sending' = Sending /\ Range(targetChannel') = Range(targetChannel)
    BY <1>3 DEF TakeUpdate, callVars, Sending
  <2>5. Pending' = Sending' \cup Range(updateChannel') \cup HeapItems(heap') \cup InHand'
                     \cup Range(targetChannel')
    BY DEF Pending, Range, HeapItems
  <2> HIDE DEF i
  <2> DEFINE Rest == Sending \cup Range(updateChannel') \cup Range(targetChannel)
  <2>6. Pending = Rest \cup {i} \cup HeapItems(heap) /\ Pending' = Rest \cup HeapItems(Updated(i))
    BY <2>1, <2>2, <2>3, <2>4, <2>5 DEF Pending
  <2> HIDE DEF Rest
  <2>7. CASE HeapItems(Updated(i)) = HeapItems(heap) \cup {i}
    BY <2>1, <2>6, <2>7
  <2>8. ASSUME NEW j \in HeapItems(heap), j.key = i.key, j # i,
               \/ j.time <= i.time /\ HeapItems(Updated(i)) = HeapItems(heap)
               \/ i.time <= j.time /\ HeapItems(Updated(i)) = (HeapItems(heap) \ {j}) \cup {i}
        PROVE  \/ Pending' = Pending
               \/ \E x, y \in Pending : /\ x # y /\ x.key = y.key /\ y.time <= x.time
                                        /\ Pending' = Pending \ {x}
    <3>1. i \in Pending /\ j \in Pending
      BY <2>6
    <3>2. CASE j.time <= i.time /\ HeapItems(Updated(i)) = HeapItems(heap)
      <4>1. Pending' = Pending \/ Pending' = Pending \ {i}
        BY <2>6, <3>2
      <4> QED  BY <2>8, <3>1, <3>2, <4>1
    <3>3. CASE i.time <= j.time /\ HeapItems(Updated(i)) = (HeapItems(heap) \ {j}) \cup {i}
      <4>1. Pending' = Pending \/ Pending' = Pending \ {j}
        BY <2>6, <2>8, <3>3
      <4> QED  BY <2>8, <3>1, <3>3, <4>1
    <3> QED  BY <2>8, <3>2, <3>3
  <2> QED  BY <2>1, <2>2, <2>7, <2>8, UpdatedItems
<1> QED  BY <1>1, <1>2, <1>3 DEF Runner

\* Every step of the deliverer is a step of Deliverer or leaves its state alone.
LEMMA StepRefines ==
  ASSUME DelivererInv, DelivererInv', [Next]_vars
  PROVE  [D!Next]_(D!dVars)
<1> USE DelivererAssumption DEF DelivererInv
<1>1. ASSUME NEW p \in Callers, NEW k \in Keys, NEW d \in Delays, Deliver(p, k, d)
      PROVE  D!Next
  <2>1. [key |-> k, time |-> now + d] \in Items /\ now + d \in now..(now + MaxWait)
    BY DEF TypeOK, Items, MaxWait
  <2>2. Pending' = Pending \cup {[key |-> k, time |-> now + d]}
    <3> DEFINE i == [key |-> k, time |-> now + d]
    <3>1. call' = [call EXCEPT ![p] = [at |-> "sending", item |-> i]] /\ call[p].at # "sending"
          /\ UNCHANGED <<updateChannel, heap, targetChannel, runner>>
      BY <1>1 DEF Deliver, DeliverAfter, Idle
    <3> HIDE DEF i
    <3>2. i \in Items => Pending' = Pending \cup {i}
      BY Zenon, <3>1, BeginSend
    <3> QED  BY <2>1, <3>2 DEF i
  <2>3. UNCHANGED <<now, serving>>
    BY <1>1 DEF Deliver
  <2> QED  BY <2>1, <2>2, <2>3 DEF D!Next, D!Ask
<1>2. ASSUME NEW p \in Callers, NEW k \in Keys, NEW d \in Delays, DeliverFailed(p, k, d)
      PROVE  UNCHANGED (D!dVars)
  <2>1. call[p] = Idle /\ call' = [call EXCEPT ![p] = [at |-> "backoff", key |-> k, delay |-> d]]
        /\ UNCHANGED <<now, updateChannel, heap, targetChannel, runner, serving>>
    BY <1>2 DEF DeliverFailed
  <2>2. Sending' = Sending
    <3> DEFINE w == [at |-> "backoff", key |-> k, delay |-> d]
    <3>1. w.at = "backoff" /\ call[p].at = "idle"
      BY <2>1 DEF Idle
    <3>2. DOMAIN call = Callers
      BY DEF TypeOK
    <3> HIDE DEF w
    <3>3. call'[p] = w /\ \A q \in Callers : q # p => call'[q] = call[q]
      BY <2>1, <3>2 DEF w
    <3> QED  BY <3>1, <3>3 DEF Sending
  <2> QED  BY <2>1, <2>2 DEF D!dVars, Pending, Range, HeapItems, InHand
<1>3. ASSUME NEW p \in Callers, GetBackoff(p)
      PROVE  D!Next
  <2> DEFINE t == now + (call[p].delay + backoff[call[p].key])
  <2>1. call[p].key \in Keys /\ call[p].delay \in Delays
    BY <1>3, CallType DEF GetBackoff
  <2>2. call[p].delay \in 0..MaxBackoff /\ backoff[call[p].key] \in 0..MaxBackoff
    BY Zenon, <2>1 DEF TypeOK
  <2>3. t \in now..(now + MaxWait) /\ t \in Nat
    <3>1. ASSUME NEW n \in Nat, NEW x \in 0..MaxBackoff, NEW y \in 0..MaxBackoff
          PROVE  n + (x + y) \in n..(n + MaxWait) /\ n + (x + y) \in Nat
      BY DEF MaxWait
    <3> QED  BY Zenon, <2>2, <3>1 DEF TypeOK
  <2>4. call' = [call EXCEPT ![p] = [at |-> "sending", item |-> [key |-> call[p].key, time |-> t]]]
        /\ call[p].at # "sending"
        /\ UNCHANGED <<now, updateChannel, heap, targetChannel, runner, serving>>
    BY <1>3 DEF GetBackoff, DeliverAfter
  <2> HIDE DEF t
  <2>5. [key |-> call[p].key, time |-> t] \in Items
    BY <2>1, <2>3 DEF Items
  <2>6. Pending' = Pending \cup {[key |-> call[p].key, time |-> t]}
    BY Zenon, <2>4, <2>5, BeginSend
  <2> QED  BY <2>1, <2>3, <2>4, <2>6 DEF D!Next, D!Ask
<1>4. ASSUME NEW p \in Callers, SendUpdate(p)
      PROVE  UNCHANGED (D!dVars)
  <2>1. call[p].at = "sending" /\ call[p].item \in Items
    BY <1>4, CallType DEF SendUpdate
  <2>2. Range(updateChannel') = Range(updateChannel) \cup {call[p].item}
    BY <1>4, <2>1, ChannelItems DEF SendUpdate, TypeOK
  <2>3. /\ \A q \in Callers : q # p => call'[q] = call[q]
        /\ call'[p] = Idle
    BY <1>4 DEF SendUpdate, TypeOK
  <2>4. Sending = Sending' \cup {call[p].item}
    BY <2>1, <2>3 DEF Sending, Idle
  <2>5. UNCHANGED <<now, heap, targetChannel, runner, serving>>
    BY <1>4 DEF SendUpdate
  <2>6. Pending' = Sending' \cup Range(updateChannel') \cup HeapItems(heap) \cup InHand
                     \cup Range(targetChannel)
    BY <2>5 DEF Pending, Range, HeapItems, InHand
  <2>7. Pending' = Pending
    BY <2>2, <2>4, <2>6 DEF Pending
  <2> QED  BY <2>5, <2>7 DEF D!dVars
<1>5. CASE Runner
  BY <1>5, RunnerRefines DEF D!Next, D!Supersede, D!dVars
<1>6. CASE HandOut
  <2> DEFINE i == Head(targetChannel)
  <2>1. targetChannel \in Seq(Items) /\ targetChannel # <<>> /\ targetChannel' = Tail(targetChannel)
        /\ serving = None /\ serving' = i.key
        /\ UNCHANGED <<now, callVars, updateChannel, heap, runner>>
    BY <1>6 DEF HandOut, TypeOK
  <2>2. Range(targetChannel) = Range(targetChannel') \cup {i}
    BY <2>1, ChannelItems
  <2>3. i.time <= now
    BY <2>1
  <2>4. Pending' = Sending \cup Range(updateChannel) \cup HeapItems(heap) \cup InHand
                     \cup Range(targetChannel')
    BY <2>1 DEF Pending, Range, HeapItems, InHand, Sending, callVars
  <2>5. i \in Pending /\ Pending' \in {Pending, Pending \ {i}}
    BY <2>2, <2>4 DEF Pending
  <2> QED  BY <2>1, <2>3, <2>5 DEF D!Next, D!HandOut
<1>7. CASE HandlerReturns
  <2>1. Pending' = Pending
    BY <1>7 DEF HandlerReturns, callVars, Pending, Range, HeapItems, InHand, Sending
  <2> QED  BY <1>7, <2>1 DEF HandlerReturns, D!Next, D!Return
<1>8. ASSUME NEW k \in Keys, BackoffExpires(k)
      PROVE  UNCHANGED (D!dVars)
  BY <1>8 DEF BackoffExpires, D!dVars, Pending, Range, HeapItems, InHand, Sending
<1>9. CASE Tick
  <2>1. Pending' = Pending
    BY <1>9 DEF Tick, callVars, Pending, Range, HeapItems, InHand, Sending
  <2> QED  BY <1>9, <2>1 DEF Tick, D!Next, D!Tick
<1>10. CASE UNCHANGED vars
  BY <1>10 DEF vars, callVars, D!dVars, Pending, Range, HeapItems, InHand, Sending
<1> QED
  BY <1>1, <1>2, <1>3, <1>4, <1>5, <1>6, <1>7, <1>8, <1>9, <1>10 DEF Next, Caller

\* The channels, the heap and the two goroutines together do what Deliverer says:
\* no request is forgotten, and none is answered before its time.
THEOREM DelivererRefinement == Spec => DelivererSpec
<1>1. Init => D!Init
  BY DEF Init, D!Init, Pending, Range, HeapItems, InHand, Sending, Idle
<1>2. DelivererInv /\ DelivererInv' /\ [Next]_vars => [D!Next]_(D!dVars)
  BY StepRefines
<1> QED  BY <1>1, <1>2, DelivererInvariant, PTL DEF Spec, DelivererSpec, D!Spec
=============================================================================
