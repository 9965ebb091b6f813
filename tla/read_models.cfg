SPECIFICATION ViewsSpec
CONSTANTS
  i1 = i1 i2 = i2 x1 = x1 x2 = x2 x3 = x3 u1 = u1 u2 = u2 u3 = u3 c1 = c1 c2 = c2 h1 = h1
  None = None Unnamed = Unnamed ReadError = ReadError
  Items = {i1, i2}
  Titles = {x1, x2, x3}
  Kind <- KindOf
  Ids <- IdsOf
  Users = {u1, u2, u3}
  Hashes = {h1}
  Clients = {c1, c2}
  Rows <- SomeRows
  Starts <- SomeStarts
  Policy <- StopPolicy
  Configured = {"movie", "series"}
  UserCap = 2
  ItemCap = 2
  HistoryCap = 1
  RecordCap = 2
  TroubleBudget = 3
  p1 = p1 p2 = p2 r1 = r1 r2 = r2 m0 = m0 m1 = m1 g1 = g1 g2 = g2
  Error = Error
  Profiles = {p1, p2}
  Roots = {r1, r2}
  Mounts = {m0, m1}
  Owner <- RootOwner
  Under <- RootMounts
  Start <- AllHealthy
  Changes = {0, 3, 4}
  Configs <- SomeConfigs
  Callers = {g1, g2}
  Throttle = 1
  Cache = 2
  Fresh = 3
  CallBudget = 3
  DiskBudget = 2
SYMMETRY EqualCallers
CHECK_DEADLOCK FALSE
INVARIANTS NeverWatchedIsProven HealthyIsProven AnswersAreCurrent
PROPERTIES EligibleIsProven
