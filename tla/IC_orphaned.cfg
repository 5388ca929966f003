SPECIFICATION Spec

CONSTANTS
  c1 = c1
  c2 = c2
  s1 = s1
  s2 = s2
  None = None
  Malformed = Malformed
  Clusters = {c1, c2}
  Specs = {s1, s2}
  Addrs = {a1}
  Contents <- OneContent
  Budget <- MCBudget
  MaxEdits = 0
  MaxDeletes = 1
  MaxCreates = 1
  MaxLBChanges = 0
  MaxFlips = 0
  MaxFaults = 0
  MaxTimeouts = 0
  MaxCrashes = 0

PROPERTIES
  DeletionComplete
CHECK_DEADLOCK FALSE
