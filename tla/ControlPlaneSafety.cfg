CONSTANTS
  None = None
  ClusterIDs = {c1, c2, c3}
  EipIDs = {e1, e2}
  Public = TRUE
  StaleReads = TRUE
  MaxFaults = 1
  MaxCrashes = 1
  MaxLives = 2
SPECIFICATION Spec
SYMMETRY Interchangeable
INVARIANTS TypeOK PassSound BoundTagged
PROPERTIES ReleaseClean KeepsContract
CHECK_DEADLOCK FALSE
