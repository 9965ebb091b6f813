SPECIFICATION BatchesSpec
CONSTANTS
  r1 = r1 r2 = r2 r3 = r3 r4 = r4 k1 = k1 k2 = k2 k4 = k4 b1 = b1 b2 = b2
  Requests = {r1, r2, r3, r4}
  Keys = {k1, k2, k4}
  KeyOf <- OwnKeys
  Bodies = {b1, b2}
  BodyOf <- OwnBodies
  ChildCount = 2
  HistoryLimit = 1
  MaxPending = 1
  CrashBudget = 1
  FaultBudget = 1
  None = None
INVARIANTS RunOnce AheadOfChild QueueBounded
PROPERTIES ChildIsFinal EveryBatchEnds
