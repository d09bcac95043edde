CONSTANTS
  UserKeys = {k1, k2}
  MaxResourceTags = 3
  MaxPasses = 1
  MaxTroubles = 2
SPECIFICATION FairSpec
INVARIANTS PermittedUse
PROPERTIES DeletionThroughIdentity TagsConverge
CHECK_DEADLOCK FALSE
