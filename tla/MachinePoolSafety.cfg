CONSTANTS
  None = None
  PoolIDs = {p1, p2, p3}
  Clusters = {c1, c2}
  Attrs = {a1}
  StaleReads = TRUE
  MaxReplicas = 0
  MaxFaults = 1
  MaxLosses = 2
  MaxEdits = 0
SPECIFICATION Spec
SYMMETRY Interchangeable
INVARIANTS TypeOK PoolOwnedOnly
PROPERTIES PoolReleaseClean PoolRecordKept
CHECK_DEADLOCK FALSE
