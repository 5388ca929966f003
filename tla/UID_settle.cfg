SPECIFICATION FairSpec

CONSTANTS
  Clusters = {c1, c2}
  NoUid = NoUid
  None = None
  Budget <- MCBudget
  MaxStatus = 0
  MaxTampers = 0
  MaxFaults = 0
  MaxCrashes = 0
  MaxEvents = 0

PROPERTIES
  UidStable
  Settles
CHECK_DEADLOCK FALSE
