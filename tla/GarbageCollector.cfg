CONSTANTS
  None = None
  ClusterIDs = {c1, c2}
  EipIDs = {e1}
  Public = TRUE
  StaleReads = FALSE
  MaxFaults = 1
  MaxCrashes = 0
  MaxLives = 1
SPECIFICATION GCFairSpec
PROPERTIES SparesCreated ContractBesideSweep OrphansCollected TaggedEipsCollected NetworkCollected
CHECK_DEADLOCK FALSE
