SPECIFICATION FairSpec

CONSTANTS
  c1 = c1
  c2 = c2
  s1 = s1
  s2 = s2
  None = None
  Malformed = Malformed
  Clusters = {c1}
  Specs = {s1, s2}
  Addrs = {a1}
  Contents <- SelectorContents
  Budget <- MCBudget
  MaxEdits = 1
  MaxDeletes = 1
  MaxCreates = 1
  MaxLBChanges = 1
  MaxFlips = 0
  MaxFaults = 1
  MaxTimeouts = 1
  MaxCrashes = 0

INVARIANTS
  IInv
PROPERTIES
  Convergence
  DeletionFinishes
CHECK_DEADLOCK FALSE
