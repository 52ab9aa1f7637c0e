SPECIFICATION Spec
CONSTANTS
  Layout <- SmallLayout
  Group = {g1, g2}
  TilesOfGroup = 4
  Modes <- AllModes
  StartingHints = 1
  Movers = {0}
  MaxJoins = 1
  MaxLeft = 1
  MaxFired = 1
INVARIANTS
  EveryPairCounted
  PairUnlessIrreducible
  DuelHintFits
PROPERTIES
  DealsAreSolvable
  DuelEndHasCause
  TimedRoundEnds
CHECK_DEADLOCK FALSE
