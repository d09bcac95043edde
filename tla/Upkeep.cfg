CONSTANTS
  MaxVersion = 2
  TaskIDs = {t1, t2}
  None = None
  MaxFaults = 1
  MaxEdits = 1
  MaxMoves = 1
SPECIFICATION FairSpec
PROPERTIES SecretsSpared UpgradeReaches KubeconfigRotated ServerFollows
CHECK_DEADLOCK FALSE
