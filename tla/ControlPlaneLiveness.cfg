CONSTANTS
  None = None
  ClusterIDs = {c1, c2, c3}
  EipIDs = {e1, e2}
  Public = TRUE
  StaleReads = TRUE
  MaxFaults = 1
  MaxCrashes = 0
  MaxLives = 1
SPECIFICATION FairSpec
PROPERTIES DeletionCompletes SelfHeals BecomesReady
CHECK_DEADLOCK FALSE
