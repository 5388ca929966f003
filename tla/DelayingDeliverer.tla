-------------------------- MODULE DelayingDeliverer --------------------------
(***************************************************************************)
(* The delaying deliverer of the federation library (delaying_deliverer.go)*)
(* with the back-off of the keys that fail, as deliverIngress and          *)
(* deliverConfigMap use them.  Callers put items into updateChannel; the   *)
(* goroutine of run moves them to a heap with one item for a key, and from *)
(* there, when their time has come, to targetChannel; the goroutine of     *)
(* StartWithHandler hands them to the handler, which is a caller itself.   *)
(* Both channels are bounded, and a send to a full one blocks.  stopChannel*)
(* is never closed: the program runs with wait.NeverStop.                  *)
(***************************************************************************)
EXTENDS Integers, Sequences, Functions

CONSTANTS
  Keys, None,
  Callers, Handler,       \* goroutines that deliver; the handler is one of them
  Delays,                 \* the delays callers ask for
  UpdateCap, TargetCap,   \* capacities of the two channels
  InitialBackoff, MaxBackoff,
  MaxCalls, MaxFailed     \* bounds: deliveries asked for, and those after a failure

ASSUME DelivererAssumption ==
  /\ Handler \in Callers /\ None \notin Keys
  /\ Delays \subseteq 0..MaxBackoff /\ Delays # {}
  /\ UpdateCap \in Nat \ {0} /\ TargetCap \in Nat \ {0}
  /\ InitialBackoff \in Nat \ {0} /\ MaxBackoff \in Nat /\ InitialBackoff <= MaxBackoff
  /\ MaxCalls \in Nat /\ MaxFailed \in Nat

VARIABLES
  now,            \* the clock
  backoff,        \* perItemBackoff: the back-off of each key; 0 is no entry
  call,           \* what each caller is doing in its delivery
  updateChannel, heap, targetChannel,
  runner,         \* where run is: its timestamp, and the item it is sending
  serving,        \* the key of the item in the handler, or None
  calls, failed   \* deliveries asked for so far, and after failures

callVars == <<backoff, call, calls, failed>>
vars == <<now, callVars, updateChannel, heap, targetChannel, runner, serving>>

Items == [key : Keys, time : Nat]
Idle == [at |-> "idle"]

-----------------------------------------------------------------------------
(* deliverIngress and flowcontrol.Backoff *)

NextBackoff(entry) ==
  IF entry = 0 THEN InitialBackoff
  ELSE IF 2 * entry < MaxBackoff THEN 2 * entry ELSE MaxBackoff

Calling(p) == p = Handler => serving # None

\* DeliverAfter fixes the delivery time before it waits for updateChannel.
DeliverAfter(p, k, delay) ==
  call' = [call EXCEPT ![p] = [at |-> "sending", item |-> [key |-> k, time |-> now + delay]]]

\* failed is false: Reset, then DeliverAfter.
Deliver(p, k, delay) ==
  /\ call[p] = Idle /\ Calling(p) /\ calls < MaxCalls
  /\ calls' = calls + 1 /\ UNCHANGED failed
  /\ backoff' = [backoff EXCEPT ![k] = 0]
  /\ DeliverAfter(p, k, delay)
  /\ UNCHANGED <<now, updateChannel, heap, targetChannel, runner, serving>>

\* failed is true: Next, and in a step of its own, since Backoff is locked only
\* within each call, Get and DeliverAfter.
DeliverFailed(p, k, delay) ==
  /\ call[p] = Idle /\ Calling(p) /\ calls < MaxCalls /\ failed < MaxFailed
  /\ calls' = calls + 1 /\ failed' = failed + 1
  /\ backoff' = [backoff EXCEPT ![k] = NextBackoff(@)]
  /\ call' = [call EXCEPT ![p] = [at |-> "backoff", key |-> k, delay |-> delay]]
  /\ UNCHANGED <<now, updateChannel, heap, targetChannel, runner, serving>>

GetBackoff(p) ==
  /\ call[p].at = "backoff"
  /\ DeliverAfter(p, call[p].key, call[p].delay + backoff[call[p].key])
  /\ UNCHANGED <<now, backoff, calls, failed, updateChannel, heap, targetChannel, runner, serving>>

\* Mutant: the send does not wait for room.
SendUpdateAnyway(p) ==
  /\ call[p].at = "sending"
  /\ updateChannel' = Append(updateChannel, call[p].item)
  /\ call' = [call EXCEPT ![p] = Idle]
  /\ UNCHANGED <<now, backoff, calls, failed, heap, targetChannel, runner, serving>>

\* The send to updateChannel, which blocks while the channel is full.
SendUpdate(p) ==
  /\ call[p].at = "sending" /\ Len(updateChannel) < UpdateCap
  /\ updateChannel' = Append(updateChannel, call[p].item)
  /\ call' = [call EXCEPT ![p] = Idle]
  /\ UNCHANGED <<now, backoff, calls, failed, heap, targetChannel, runner, serving>>

-----------------------------------------------------------------------------
(* The goroutine of run.  The heap, which only run uses, holds the times of its *)
(* keys; what run does between two channel operations is one step with them.   *)

HeapTop(h, k) == k \in DOMAIN h /\ \A j \in DOMAIN h : h[k] <= h[j]

\* Mutant: the wake-up delivers the earliest item even if its time is to come.
deliverEarly(h, timestamp) ==
  \/ \E k \in DOMAIN h :
       /\ HeapTop(h, k)
       /\ heap' = [j \in DOMAIN h \ {k} |-> h[j]]
       /\ runner' = [at |-> "sending", timestamp |-> timestamp,
                     item |-> [key |-> k, time |-> h[k]]]
  \/ DOMAIN h = {} /\ heap' = h /\ runner' = [at |-> "select"]

\* deliver, ll. 102-107: up to the next send of an item that is due, or, when
\* none is left, up to the select of l. 122.
deliver(h, timestamp) ==
  \/ \E k \in DOMAIN h :
       /\ HeapTop(h, k) /\ h[k] <= timestamp
       /\ heap' = [j \in DOMAIN h \ {k} |-> h[j]]
       /\ runner' = [at |-> "sending", timestamp |-> timestamp,
                     item |-> [key |-> k, time |-> h[k]]]
  \/ /\ \A k \in DOMAIN h : timestamp < h[k]
     /\ heap' = h /\ runner' = [at |-> "select"]

\* The send to targetChannel, which blocks while the channel is full, l. 107.
SendTarget ==
  /\ runner.at = "sending" /\ Len(targetChannel) < TargetCap
  /\ targetChannel' = Append(targetChannel, runner.item)
  /\ deliver(heap, runner.timestamp)
  /\ UNCHANGED <<now, callVars, updateChannel, serving>>

\* Mutant: run sleeps for the full hour, with items in the heap as well.
WakeUpHourly ==
  /\ runner.at = "select" /\ DOMAIN heap = {}
  /\ deliver(heap, now)
  /\ UNCHANGED <<now, callVars, updateChannel, targetChannel, serving>>

\* The timer of the earliest item fires.  The hourly one of an empty heap finds
\* nothing to do and is left out.
WakeUp ==
  /\ runner.at = "select" /\ \E k \in DOMAIN heap : heap[k] <= now
  /\ deliver(heap, now)
  /\ UNCHANGED <<now, callVars, updateChannel, targetChannel, serving>>

\* Mutant: a key that is in the heap keeps the time it has there.
UpdatedFirst(item) ==
  IF item.key \in DOMAIN heap THEN heap
  ELSE [k \in DOMAIN heap \cup {item.key} |-> IF k = item.key THEN item.time ELSE heap[k]]

\* The earlier time of a key stays, ll. 126-134.
Updated(item) ==
  IF item.key \in DOMAIN heap /\ heap[item.key] <= item.time THEN heap
  ELSE [k \in DOMAIN heap \cup {item.key} |-> IF k = item.key THEN item.time ELSE heap[k]]

TakeUpdate ==
  /\ runner.at = "select" /\ updateChannel # <<>>
  /\ updateChannel' = Tail(updateChannel)
  /\ deliver(Updated(Head(updateChannel)), now)
  /\ UNCHANGED <<now, callVars, targetChannel, serving>>

-----------------------------------------------------------------------------
(* The goroutine of StartWithHandler *)

HandOut ==
  /\ serving = None /\ targetChannel # <<>>
  /\ serving' = Head(targetChannel).key
  /\ targetChannel' = Tail(targetChannel)
  /\ UNCHANGED <<now, callVars, updateChannel, heap, runner>>

\* The handler returns; it is not in the middle of a delivery of its own.
HandlerReturns ==
  /\ serving # None /\ call[Handler] = Idle
  /\ serving' = None
  /\ UNCHANGED <<now, callVars, updateChannel, heap, targetChannel, runner>>

-----------------------------------------------------------------------------
(* Every item on its way to the handler: Deliverer's requests. *)

Sending == {call[p].item : p \in {q \in Callers : call[q].at = "sending"}}
HeapItems(h) == {[key |-> k, time |-> h[k]] : k \in DOMAIN h}
InHand == IF runner.at = "sending" THEN {runner.item} ELSE {}

Pending ==
  Sending \cup Range(updateChannel) \cup HeapItems(heap) \cup InHand \cup Range(targetChannel)

\* Bound: the clock is followed while somebody waits for it.
Tick ==
  /\ \E i \in Pending : now < i.time
  /\ now' = now + 1
  /\ UNCHANGED <<callVars, updateChannel, heap, targetChannel, runner, serving>>

\* hasExpired and StartBackoffGC: an entry that was not updated for twice the
\* maximum no longer counts.  How long that is, is left open but for the retry
\* of the failure, which by then is due: no delay exceeds the maximum.
BackoffExpires(k) ==
  /\ backoff[k] # 0
  /\ \A i \in Pending : i.key = k => i.time <= now
  /\ \A p \in Callers : call[p].at = "backoff" => call[p].key # k
  /\ backoff' = [backoff EXCEPT ![k] = 0]
  /\ UNCHANGED <<now, call, calls, failed, updateChannel, heap, targetChannel, runner, serving>>

Init ==
  /\ now = 0 /\ calls = 0 /\ failed = 0
  /\ backoff = [k \in Keys |-> 0]
  /\ call = [p \in Callers |-> Idle]
  /\ updateChannel = <<>> /\ targetChannel = <<>>
  /\ heap = [k \in {} |-> 0]
  /\ runner = [at |-> "select"]
  /\ serving = None

Caller(p) == GetBackoff(p) \/ SendUpdate(p)

Runner == SendTarget \/ WakeUp \/ TakeUpdate

Next ==
  \/ \E p \in Callers, k \in Keys, d \in Delays : Deliver(p, k, d) \/ DeliverFailed(p, k, d)
  \/ \E p \in Callers : Caller(p)
  \/ Runner
  \/ HandOut \/ HandlerReturns
  \/ \E k \in Keys : BackoffExpires(k)
  \/ Tick

Spec == Init /\ [][Next]_vars

\* Goroutines run, time passes, and a handler comes back unless its delivery blocks.
FairSpec ==
  /\ Spec
  /\ \A p \in Callers : WF_vars(Caller(p))
  /\ WF_vars(Runner) /\ WF_vars(HandOut) /\ WF_vars(HandlerReturns) /\ WF_vars(Tick)

-----------------------------------------------------------------------------
(* Properties *)

\* Type correctness of the deliverer's state.
TypeOK ==
  /\ now \in Nat /\ calls \in Nat /\ failed \in Nat
  /\ backoff \in [Keys -> 0..MaxBackoff]
  /\ call \in [Callers -> [at : {"idle"}] \cup [at : {"backoff"}, key : Keys, delay : Delays]
                            \cup [at : {"sending"}, item : Items]]
  /\ updateChannel \in Seq(Items) /\ targetChannel \in Seq(Items)
  /\ DOMAIN heap \subseteq Keys /\ \A k \in DOMAIN heap : heap[k] \in Nat
  /\ runner \in [at : {"select"}] \cup [at : {"sending"}, timestamp : 0..now, item : Items]
  /\ serving \in Keys \cup {None}

\* Nothing is in the target channel, or on its way there, before its time
\* (deliver, l. 103), and a handler that delivers has not returned: the
\* inductive invariant behind the refinement.
DelivererInv ==
  /\ TypeOK
  /\ runner.at = "sending" => runner.item.time <= now
  /\ \A i \in DOMAIN targetChannel : targetChannel[i].time <= now
  /\ call[Handler] # Idle => serving # None

\* The longest delay a caller may ask for, and the longest back-off on top.
MaxWait == 2 * MaxBackoff

D == INSTANCE Deliverer WITH pending <- Pending

\* The deliverer keeps every request until its key is handed out, not before its
\* time, or an earlier request for the key replaces it (l. 127, "Ignore if later").
DelivererSpec == D!Spec

\* run waits for room in the target channel and the handler, in a delivery of its
\* own, for room in the update channel: each is the only one that could make it.
Jammed ==
  /\ runner.at = "sending" /\ Len(targetChannel) = TargetCap
  /\ call[Handler].at = "sending" /\ Len(updateChannel) = UpdateCap

\* The two goroutines that wait for each other (ll. 107 and 153) do so for ever.
JamIsForever == [][Jammed => Jammed']_vars

\* "Delivers value at the given time." (l. 151): a key somebody asked for is
\* handed to the handler, if the two goroutines never jam; nothing else stops it.
Delivered == \A k \in Keys : (\E i \in Pending : i.key = k) ~> (serving = k \/ Jammed)
=============================================================================
