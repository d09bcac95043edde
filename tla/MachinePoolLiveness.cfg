CONSTANTS
  None = None
  PoolIDs = {p1}
  Clusters = {c1}
  Attrs = {a1, a2}
  StaleReads = FALSE
  MaxReplicas = 1
  MaxFaults = 1
  MaxLosses = 1
  MaxEdits = 1
SPECIFICATION FairSpec
PROPERTIES PoolDeletionCompletes ReplicasConverge CountReported AttrsConverge
CHECK_DEADLOCK FALSE
