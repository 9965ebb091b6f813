SPECIFICATION JobsSpec
CONSTANTS
  r1 = r1 r2 = r2 r3 = r3 k1 = k1 k2 = k2 b1 = b1 b2 = b2
  Requests = {r1, r2, r3}
  Keys = {k1, k2}
  KeyOf <- OwnKeys
  BodyOf <- OwnBodies
  MaxAttempts = 2
  HistoryLimit = 1
  CrashBudget = 1
  FaultBudget = 1
  None = None
INVARIANTS WriteAhead AttemptBudget NoJobForgotten
PROPERTIES NoReplay FinishedIsFinal ImplementsLifecycle
