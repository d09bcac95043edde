CONSTANTS
  None = None
  IDs = {i1, i2}
  MaxFaults = 1
  MaxLosses = 1
SPECIFICATION Spec
INVARIANTS ForeignSpared
CHECK_DEADLOCK FALSE
