SPECIFICATION Spec
CONSTANTS
  StartingStack = 6
  SmallBlind = 1
  BigBlind = 2
  Modes <- BothModes
INVARIANTS
  TypeOK
  ChipsConserved
  TurnCanAct
  BetIsMatchable
  NobodyOverpays
PROPERTIES
  KeepsPromise
  StreetsAreEarned
  BothHaveActed
