SPECIFICATION Spec
CONSTANTS
  Jobs = {a, b}
  Sockets = {s1, s2}
  BoxSize = 1
  MaxMessages = 3
PROPERTIES NothingPilesUp OwnMessages KeptIsShown
CHECK_DEADLOCK FALSE
