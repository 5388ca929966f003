SPECIFICATION FairSpec
CONSTANTS
  c1 = c1
  c2 = c2
  c3 = c3
  a = a
  b = b
  d = d
  host = host
  Clusters = {c1, c2, c3}
  Addresses = {a, b, d}
  NoAddress = NoAddress
  None = None
  Malformed = Malformed
  Zones <- MCZones
  Region <- MCRegion
  Lookup <- MCLookup
  Reports <- ServedReports
  Prefix <- MCPrefix
  Domain <- MCDomain
  DnsZones <- MCDnsZones
  Budget <- MCBudget
  MaxChanges = 2
  MaxDeletes = 0
  MaxCreates = 1
  MaxReads = 0
  MaxFaults = 0
  MaxCrashes = 0
PROPERTIES
  OthersRemoved
CHECK_DEADLOCK FALSE
