SPECIFICATION Spec
CONSTANTS
  a = a
  b = b
  q1 = q1
  q2 = q2
  Id = {a, b}
  Account <- OwnAccount
  Key = {q1, q2}
  Kind <- AllChess
  Mode <- AllBlitz
  Private = {}
  MaxSockets = 3
CHECK_DEADLOCK FALSE
PROPERTY OnlyFinishedIsCleaned
