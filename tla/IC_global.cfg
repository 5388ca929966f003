SPECIFICATION Spec

CONSTANTS
  c1 = c1
  c2 = c2
  s1 = s1
  s2 = s2
  None = None
  Malformed = Malformed
  Clusters = {c1, c2}
  Specs = {s1, s2}
  Addrs = {a1}
  Contents <- GlobalContent
  Budget <- MCBudget
  MaxEdits = 0
  MaxDeletes = 1
  MaxCreates = 1
  MaxLBChanges = 0
  MaxFlips = 1
  MaxFaults = 1
  MaxTimeouts = 0
  MaxCrashes = 0

INVARIANTS
  OneAllocator
  QuietIsConverged
PROPERTIES
  OrphansKept
  IPNeverChanges
  ClusterAnnotationKept
CHECK_DEADLOCK FALSE
SYMMETRY ClusterSymmetry
