SPECIFICATION Spec
CONSTANTS
  Shapes <- Libraries
  AttemptBudget = 2
  TroubleBudget = 2
  None = None
CHECK_DEADLOCK FALSE
INVARIANTS CompletedIsDone RetryTouchedNothing
PROPERTIES TorrentsFirst ScopeKept PresentMeansUntouched SourceLast DryRunBinds
