SPECIFICATION CallsSpec
CONSTANTS
  r1 = r1 r2 = r2 r3 = r3 r4 = r4 r5 = r5 k1 = k1 k4 = k4 k5 = k5 b1 = b1 b2 = b2 None = None
  alice = alice bob = bob NoUser = NoUser NoState = NoState
  Users = {alice, bob}
  Policies <- BothPolicies
  Ids = {1, 2}
  EditBudget = 1
  WriteFaults = 1
  CrashBudget = 2
  Requests = {r1, r2}
  Older <- OldConfigs
  StateCap = 1
  StateBudget = 2
  AdminToken = TRUE
SYMMETRY Interchangeable
CHECK_DEADLOCK FALSE
INVARIANTS NothingArmsItself RuntimeIsConfig SomeoneAdministers KeyOwnsOneJob KeyOwnsOneBatch
PROPERTIES UpgradeIsReversible
