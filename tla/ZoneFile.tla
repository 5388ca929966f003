------------------------------ MODULE ZoneFile ------------------------------
(***************************************************************************)
(* What the DNS controller promises to resolvers: the records of a name    *)
(* change all at once, from one whole set to another, and no other name    *)
(* changes with it.                                                        *)
(***************************************************************************)
CONSTANTS
  Names,        \* fully qualified names
  Whole(_, _)   \* Whole(n, S): n may have the records S

VARIABLE zone   \* the records that resolvers see

At(S, n) == {r \in S : r.fqdn = n}

Elsewhere(S, n) == {r \in S : r.fqdn # n}

Replace(n) ==
  /\ Whole(n, At(zone', n))
  /\ Elsewhere(zone', n) = Elsewhere(zone, n)

Init == zone = {}

Next == \E n \in Names : Replace(n)

Spec == Init /\ [][Next]_zone
=============================================================================
