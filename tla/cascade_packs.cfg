SPECIFICATION Spec
CONSTANTS
  Shapes <- CleanShowOnly
  AttemptBudget = 1
  TroubleBudget = 0
  None = None
CHECK_DEADLOCK FALSE
PROPERTIES FilesLast
