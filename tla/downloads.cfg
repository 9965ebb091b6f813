SPECIFICATION Spec
CONSTANTS
  c1 = c1 c2 = c2 h1 = h1 h2 = h2 k1 = k1 films = films
  k2 = k2 l1 = l1 l2 = l2 o1 = o1
  None = None
  Clients = {c1, c2}
  Order <- TorrentOrder
  Managed = {h1}
  Metrics <- Reported
  Policy <- StopPolicy
  Cycles = {l1, l2}
  Operators = {o1}
  Keys = {k1}
  Modes <- DryOrLive
  Fleets <- OneClient
  CycleBudget = 2
  CallBudget = 1
  UserBudget = 1
  FaultBudget = 1
  CrashBudget = 1
  TroubleBudget = 2
CHECK_DEADLOCK FALSE
INVARIANTS SentOnce RunningIsRun ManagedIsUnique PolicyStaysInScope
