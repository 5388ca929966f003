SPECIFICATION Spec
CONSTANTS
  c1 = c1
  c2 = c2
  c3 = c3
  a = a
  b = b
  d = d
  host = host
  Clusters = {c1, c2, c3}
  Addresses = {a, b, d}
  NoAddress = NoAddress
  None = None
  Malformed = Malformed
  Zones <- MCZones
  Region <- MCRegion
  Lookup <- MCLookup
  Reports <- FaultyReports
  Prefix <- MCPrefix
  Domain <- MCDomain
  DnsZones <- MCDnsZones
  Budget <- MCBudget
  MaxChanges = 2
  MaxDeletes = 0
  MaxCreates = 1
  MaxReads = 1
  MaxFaults = 1
  MaxCrashes = 1
INVARIANTS
  CnameAlone
  Locality
PROPERTIES
  EnsuredIsThere
CHECK_DEADLOCK FALSE
