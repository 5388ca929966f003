SPECIFICATION FairSpec

CONSTANTS
  Clusters = {c1}
  NoUid = NoUid
  None = None
  Budget <- MCBudget
  MaxStatus = 1
  MaxTampers = 1
  MaxFaults = 1
  MaxCrashes = 1
  MaxEvents = 3

INVARIANTS
  TypeOK
  UidInv
  RestIsSettled
PROPERTIES
  ConfigMapsFollow
CHECK_DEADLOCK FALSE
