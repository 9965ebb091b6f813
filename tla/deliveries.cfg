SPECIFICATION EitherSpec
CONSTANTS
  d1 = d1 d2 = d2 d3 = d3 e1 = e1 e2 = e2
  r1 = r1 r2 = r2 k1 = k1 k2 = k2 b1 = b1 b2 = b2
  Deliveries = {d1, d2, d3}
  Events = {e1, e2}
  Payload <- RepeatedPayload
  CrashBudget = 1
  FaultBudget = 1
  None = None
INVARIANTS MarkerTellsFate ViewIsDurable
PROPERTIES OnlySafeReplays DeliveriesEnd EveryJobEnds
