SPECIFICATION Spec
CONSTANTS
  Shapes <- CleanShowOnly
  AttemptBudget = 1
  TroubleBudget = 1
  None = None
CHECK_DEADLOCK FALSE
PROPERTIES DryRunTouchesNothing
