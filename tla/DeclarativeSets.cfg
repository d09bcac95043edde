CONSTANTS
  Names = {n1, n2}
  Versions = {v1, v2}
  Absent = Absent
  Any = Any
  MaxFaults = 1
  MaxStrangers = 1
  MaxEdits = 1
SPECIFICATION FairSpec
INVARIANTS LedgerSound
PROPERTIES SparesForeign DeclaredApplied UndeclaredRemoved
CHECK_DEADLOCK FALSE
