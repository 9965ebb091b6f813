SPECIFICATION Spec
CONSTANTS
  c1 = c1 c2 = c2 h1 = h1 h2 = h2
  Clients = {c1, c2}
  Hashes = {h1, h2}
  Order <- FleetOrder
  Places <- DataPlaces
  Fleets <- StartFleets
  KindChoices <- Mixes
  PolicyChoices <- RemovalPolicies
  RequestChoices <- Asked
  Attempts = 2
  UserBudget = 1
  FaultBudget = 1
  MaxScopes = 2
  Unread = Unread
  Unreadable = Unreadable
  None = None
CHECK_DEADLOCK FALSE
INVARIANTS NoSiblingHit ReadyMeansSettled ResultsAreTrue
