CONSTANTS
  None = None
  IDs = {i1, i2}
  MaxFaults = 2
  MaxLosses = 1
SPECIFICATION FairSpec
INVARIANTS AdoptsOwned
PROPERTIES EipKept NetworkReleaseClean NetworkDeletionCompletes NetworkProvisions
ACTION_CONSTRAINT InOrder
CHECK_DEADLOCK FALSE
