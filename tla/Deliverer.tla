------------------------------ MODULE Deliverer ------------------------------
(***************************************************************************)
(* What the controllers rely on when they deliver a key: the request is    *)
(* kept until the key is handed to the handler, never before a time        *)
(* somebody asked for, or until an earlier request for the same key makes  *)
(* it superfluous.  The queues of IngressController and UidElection are    *)
(* deliverers whose requests are all due.                                  *)
(***************************************************************************)
EXTENDS Naturals

CONSTANTS Keys, MaxWait, None

VARIABLES
  now,      \* the clock
  pending,  \* requests [key, time] that nothing has answered yet
  serving   \* the key the handler works on, or None

dVars == <<now, pending, serving>>

Init == now = 0 /\ pending = {} /\ serving = None

Tick == now' = now + 1 /\ UNCHANGED <<pending, serving>>

\* A key is asked for at most MaxWait ahead.
Ask(k, t) ==
  /\ pending' = pending \cup {[key |-> k, time |-> t]}
  /\ UNCHANGED <<now, serving>>

Supersede(i, j) ==
  /\ i # j /\ i.key = j.key /\ j.time <= i.time
  /\ pending' = pending \ {i}
  /\ UNCHANGED <<now, serving>>

\* Requests are not counted: an equal one may be pending after the hand-out.
HandOut(i) ==
  /\ serving = None /\ i.time <= now
  /\ pending' \in {pending, pending \ {i}}
  /\ serving' = i.key
  /\ UNCHANGED now

Return == serving' = None /\ UNCHANGED <<now, pending>>

Next ==
  \/ Tick
  \/ \E k \in Keys, t \in now..(now + MaxWait) : Ask(k, t)
  \/ \E i, j \in pending : Supersede(i, j)
  \/ \E i \in pending : HandOut(i)
  \/ Return

Spec == Init /\ [][Next]_dVars
=============================================================================
