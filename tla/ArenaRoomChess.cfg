SPECIFICATION Spec
CONSTANTS
  Kind = "chess"
  Misere = FALSE
  BestOf = 1
  TurnLimit = 0
  ClockInitial = 3
  ClockIncrement = 1
  FirstMoveWindow = 1
  Cells = 5
  Earliest = 4
  MaxVersion = 8
  MaxLag = 1
INVARIANTS
  OfferAwaitsOpponent
  ClockHonest
  TurnIsTimed
PROPERTIES
  NoEarlyTimeout
  RoundEnds
CHECK_DEADLOCK FALSE
