SPECIFICATION FairSpec
CONSTANTS
  Keys = {k1, k2}
  None = None
  Callers = {handler, informer}
  Handler = handler
  Delays = {0}
  UpdateCap = 1
  TargetCap = 1
  InitialBackoff = 1
  MaxBackoff = 2
  MaxCalls = 5
  MaxFailed = 2
INVARIANTS
  DelivererInv
PROPERTIES
  DelivererSpec
  JamIsForever
  Delivered
CHECK_DEADLOCK FALSE
