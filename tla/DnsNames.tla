------------------------------ MODULE DnsNames ------------------------------
(***************************************************************************)
(* DNS names as the DNS controller builds and splits them: the name of an  *)
(* ingress at its zone, region and global level (dns.go, ensureDNSRecords),*)
(* the choice of the hosted zone (util/dns.go, GetDNSZone) and the split   *)
(* of a name into a record name and a zone (rrsets.go,                     *)
(* populateRecordWithName).  A name is a sequence of characters.           *)
(***************************************************************************)
EXTENDS Naturals, Sequences

Dot == <<".">>

\* strings.HasSuffix, strings.TrimSuffix and strings.Contains.
HasSuffix(s, t) ==
  Len(t) <= Len(s) /\ SubSeq(s, Len(s) - Len(t) + 1, Len(s)) = t

TrimSuffix(s, t) ==
  IF HasSuffix(s, t) THEN SubSeq(s, 1, Len(s) - Len(t)) ELSE s

HasInfix(s, t) ==
  \E i \in 0 .. Len(s) : Len(t) <= Len(s) - i /\ SubSeq(s, i + 1, i + Len(t)) = t

\* The configured zones whose name occurs in the domain, ll. 89-96.
MatchingZones(domain, zones) ==
  {z \in zones : HasInfix(TrimSuffix(domain, Dot), TrimSuffix(z, Dot))}

\* GetDNSZone: the zones it may choose; the sort of ll. 83-87 leaves the order of
\* equally long names open, and the result is nil when there are none.
GetDNSZone(domain, zones) ==
  LET matching == MatchingZones(domain, zones) IN
  {z \in matching : \A y \in matching : Len(y) <= Len(z)}

\* populateRecordWithName: the name of a record within its zone, and in full.
RecordName(name, zone) ==
  LET n == TrimSuffix(name, Dot) IN
  [Name |-> TrimSuffix(n, Dot \o zone),
   FQDN |-> IF HasSuffix(n, Dot \o zone) THEN n ELSE n \o Dot \o zone]

\* GetRecordsFromDNSRRS splits a listed record's name again, from its Name only
\* (ll. 105-109 and 117).
Relisted(fqdn, zone) == RecordName(TrimSuffix(fqdn, Dot \o zone), zone).FQDN

\* dnsNames of ensureDNSRecords: levels 1 (zone), 2 (region), 3 (global), and
\* nowhere to go up from there.
DnsName(prefix, zoneName, regionName, domain, level) ==
  CASE level = 1 -> prefix \o Dot \o zoneName \o Dot \o regionName \o Dot \o domain
    [] level = 2 -> prefix \o Dot \o regionName \o Dot \o domain
    [] level = 3 -> prefix \o Dot \o domain
    [] OTHER -> <<>>
=============================================================================
