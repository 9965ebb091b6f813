SPECIFICATION Spec
CONSTANTS
  r1 = r1 r2 = r2 r3 = r3 k1 = k1 k2 = k2 b1 = b1 b2 = b2
  Requests = {r1, r2}
  Keys = {k1}
  KeyOf <- RepeatedKeys
  BodyOf <- RepeatedBodies
  MaxAttempts = 2
  HistoryLimit = 1
  CrashBudget = 0
  FaultBudget = 0
  None = None
PROPERTIES FinishedIsFinal
