SPECIFICATION Spec
CONSTANTS
  Jobs = {a, b}
  Sockets = {s1, s2}
  BoxSize = 1
  MaxMessages = 3
INVARIANTS TypeOK InOrder
CHECK_DEADLOCK FALSE
