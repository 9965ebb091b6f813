SPECIFICATION Spec
CONSTANTS
  Shapes <- TwoShowsOnly
  AttemptBudget = 1
  TroubleBudget = 0
  None = None
CHECK_DEADLOCK FALSE
PROPERTIES OwnTorrentsOnly
