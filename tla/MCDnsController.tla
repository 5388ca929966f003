-------------------------- MODULE MCDnsController --------------------------
(***************************************************************************)
(* Instances of DnsController for TLC.                                     *)
(***************************************************************************)
EXTENDS DnsController

CONSTANTS c1, c2, c3, a, b, d, host,
  MaxChanges, MaxDeletes, MaxCreates, MaxReads, MaxFaults, MaxCrashes

MCBudget == [change |-> MaxChanges, delete |-> MaxDeletes, create |-> MaxCreates,
             read |-> MaxReads, fault |-> MaxFaults, crash |-> MaxCrashes]

MCLookup == [h \in {host} |-> {b, d}]

\* c1 and c2 are in one region and in one zone, which is not the first of c2's; c3
\* is in two zones of another region.
MCZones == [c \in Clusters |-> CASE c = c1 -> << <<"1">> >>
                                  [] c = c2 -> << <<"2">>, <<"1">> >>
                                  [] OTHER -> << <<"3">>, <<"4">> >>]
MCRegion == [c \in Clusters |-> IF c = c3 THEN <<"s">> ELSE <<"r">>]

\* The domain e.c. in the zone e.c, chosen over c.
MCPrefix == <<"i">>
MCDomain == <<"e", ".", "c", ".">>
MCDnsZones == {<<"c">>, <<"e", ".", "c">>}

Report(s, f) == [status |-> s, lb |-> f]

\* The addresses of c1 and of one other cluster.
Two(other, x, y) == [c \in {c1, other} |-> IF c = c1 THEN x ELSE y]

\* Addresses come, go and move, within a region and across; some reports are of no use.
ServedReports ==
  {Report(TRUE, Two(c2, {a}, {host})), Report(TRUE, Two(c2, {}, {b})),
   Report(TRUE, Two(c3, {}, {b})), Report(TRUE, Two(c3, {a}, {NoAddress})),
   Report(FALSE, Two(c2, {}, {})), Report(TRUE, Malformed)}

\* Two addresses of a neighbour, then none but another region's, behind a hostname.
FaultyReports ==
  {Report(TRUE, Two(c2, {}, {a, b})), Report(TRUE, Two(c3, {}, {host}))}
=============================================================================
