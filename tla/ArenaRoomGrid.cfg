SPECIFICATION Spec
CONSTANTS
  Kind = "grid"
  Misere = FALSE
  BestOf = 3
  TurnLimit = 2
  ClockInitial = 1
  ClockIncrement = 0
  FirstMoveWindow = 1
  Cells = 4
  Earliest = 3
  MaxVersion = 12
  MaxLag = 1
INVARIANTS
  TypeOK
  SeriesConsistent
  TurnAlternates
  RematchFresh
PROPERTIES
  KeepsPromise
  RoundEnds
CHECK_DEADLOCK FALSE
