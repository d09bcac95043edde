CONSTANTS
  None = None
  ClusterIDs = {c1, c2}
  EipIDs = {e1}
  Public = FALSE
  StaleReads = FALSE
  MaxFaults = 0
  MaxCrashes = 0
  MaxLives = 1
SPECIFICATION Spec
INVARIANTS FinalizerGuards
CHECK_DEADLOCK FALSE
