SPECIFICATION FairRoomSpec
CONSTANTS
  StartingStack = 2
  SmallBlind = 1
  BigBlind = 2
  Modes <- BothModes
  Movers = {1, 2}
  MaxJoins = 2
  MaxLeft = 1
  MaxHands = 2
  MaxFired = 1
INVARIANTS
  TurnIsTimed
  ReadyIsFresh
PROPERTIES
  ForfeitHasCause
  NoLateTimeout
  RefinesTable
  HandEnds
CHECK_DEADLOCK FALSE
