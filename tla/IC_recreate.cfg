SPECIFICATION SpecH

CONSTANTS
  c1 = c1
  c2 = c2
  s1 = s1
  s2 = s2
  None = None
  Malformed = Malformed
  Clusters = {c1}
  Specs = {s1, s2}
  Addrs = {a1}
  Contents <- UnselectiveContents
  Budget <- MCBudget
  MaxEdits = 1
  MaxDeletes = 1
  MaxCreates = 2
  MaxLBChanges = 0
  MaxFlips = 0
  MaxFaults = 1
  MaxTimeouts = 1
  MaxCrashes = 1

INVARIANTS
  TypeOK
  NoLostEdit
  FinalizerCoversClusters
  QuietIsConverged
PROPERTIES
  DeletionSeesAll
CHECK_DEADLOCK FALSE
