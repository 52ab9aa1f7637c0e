SPECIFICATION Spec
CONSTANTS
  a = a
  b = b
  Id = {a, b}
  Account <- OwnAccount
  Request <- Requests
  NoInvite = "none"
  AnyMode = "any"
  MaxSockets = 3
CHECK_DEADLOCK FALSE
INVARIANTS
  PlacesAreKept
PROPERTIES
  AbandonedRoomsGo
