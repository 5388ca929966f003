------------------------------- MODULE DynDns -------------------------------
(***************************************************************************)
(* The DynDNS provider (pkg/dnsprovider/providers/dyndns) and the Dyn      *)
(* service as it uses it.  A changeset is applied one request at a time to *)
(* the draft of the zone that belongs to the controller's session, and     *)
(* PublishZone makes the draft the zone that resolvers see.  A request may *)
(* fail, or take effect and have its answer lost.                          *)
(***************************************************************************)
EXTENDS DnsNames

CONSTANTS
  Budget      \* Budget[e]: how many times environment event e may happen

VARIABLES
  draft,      \* the records of the zone in the session, published or not
  published,  \* the records that resolvers see
  changes,    \* the changeset being applied: what is left of it
  applied,    \* where Apply is: "idle", "running", or its result
  budget      \* environment events left

zoneVars == <<draft, published>>
dynVars == <<zoneVars, changes, applied>>

NoChanges == [remove |-> {}, add |-> {}]

Spend(e) ==
  /\ budget[e] > 0
  /\ budget' = [budget EXCEPT ![e] = @ - 1]

\* A resource record set of n values is n records (GetRecordsFromDNSRRS), with
\* the same TTL, minDNSTTL, throughout; a CNAME to nowhere is not added.
ARecords(fqdn, addrs) == {[fqdn |-> fqdn, type |-> "A", value |-> x] : x \in addrs}

\* Mutant: the CNAME is added even where there is no name to go up to.
CNAMERecordsToNowhere(fqdn, target) ==
  {[fqdn |-> fqdn, type |-> "CNAME", value |-> target]}

CNAMERecords(fqdn, target) ==
  {[fqdn |-> fqdn, type |-> "CNAME", value |-> x] : x \in {target} \ {<<>>}}

\* DynectClient.GetRecordByName: the records of a name, with one value each.
GetRecordByName(fqdn) == {r \in draft : r.fqdn = fqdn}

\* DynectClient.GetRecordID finds a record with the same name, type and value.
GetRecordID(record) == record \in draft

\* ResourceRecordSets.Get: an error is logged, and the list is empty.
Get(fqdn, list) ==
  \/ list = GetRecordByName(fqdn) /\ UNCHANGED budget
  \/ list = {} /\ Spend("read")

-----------------------------------------------------------------------------
(* ResourceRecordChangeset.Apply *)

\* StartChangeset, Add, Remove and the call of Apply.
StartApply(remove, add) ==
  /\ changes' = [remove |-> remove, add |-> add]
  /\ applied' = "running"
  /\ UNCHANGED zoneVars

ApplyReturns(result) == applied' = result /\ changes' = NoChanges

\* The record a deletion names, ll. 94 and 105-109.
Deleted(r, zone) == [r EXCEPT !.fqdn = Relisted(r.fqdn, zone)]

\* Deletions come first: GetRecordID, which must find the record, and DeleteRecord.
DeleteRecord(r, zone) ==
  /\ applied = "running" /\ r \in changes.remove
  /\ \/ /\ GetRecordID(Deleted(r, zone)) /\ draft' = draft \ {Deleted(r, zone)}
        /\ \/ changes' = [changes EXCEPT !.remove = @ \ {r}] /\ UNCHANGED <<applied, budget>>
           \/ Spend("fault") /\ ApplyReturns("failed")
     \/ /\ ~GetRecordID(Deleted(r, zone)) /\ ApplyReturns("failed")
        /\ UNCHANGED <<draft, budget>>
     \/ Spend("fault") /\ ApplyReturns("failed") /\ UNCHANGED draft
  /\ UNCHANGED published

\* Mutant: additions do not wait for the deletions.
CreateRecordBeforeDeletions(r) ==
  /\ applied = "running" /\ r \in changes.add \ draft
  /\ draft' = draft \cup {r} /\ changes' = [changes EXCEPT !.add = @ \ {r}]
  /\ UNCHANGED <<published, applied, budget>>

\* Mutant: every addition is published at once.
CreateRecordPublished(r) ==
  /\ applied = "running" /\ changes.remove = {} /\ r \in changes.add \ draft
  /\ draft' = draft \cup {r} /\ changes' = [changes EXCEPT !.add = @ \ {r}]
  /\ published' = draft' /\ UNCHANGED <<applied, budget>>

\* Then CreateRecord, one for each value; an existing record is refused.
CreateRecord(r) ==
  /\ applied = "running" /\ changes.remove = {} /\ r \in changes.add
  /\ \/ /\ r \notin draft /\ draft' = draft \cup {r}
        /\ \/ changes' = [changes EXCEPT !.add = @ \ {r}] /\ UNCHANGED <<applied, budget>>
           \/ Spend("fault") /\ ApplyReturns("failed")
     \/ r \in draft /\ ApplyReturns("failed") /\ UNCHANGED <<draft, budget>>
     \/ Spend("fault") /\ ApplyReturns("failed") /\ UNCHANGED draft
  /\ UNCHANGED published

\* Last, everything in the session is published, l. 107.
PublishZone ==
  /\ applied = "running" /\ changes = NoChanges
  /\ \/ published' = draft /\ ApplyReturns("done") /\ UNCHANGED budget
     \/ Spend("fault") /\ published' \in {draft, published} /\ ApplyReturns("failed")
  /\ UNCHANGED draft

Apply(zone) ==
  \/ \E r \in changes.remove : DeleteRecord(r, zone)
  \/ \E r \in changes.add : CreateRecord(r)
  \/ PublishZone

\* A new login has a new session: what the old one had not published is either
\* still part of the zone's draft or gone with the session.
NewSession == draft' \in {draft, published} /\ UNCHANGED published
=============================================================================
