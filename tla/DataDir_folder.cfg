SPECIFICATION Spec
CONSTANTS
  Folders = {d1, d2}
  MaxRequests = 3
INVARIANT AskedOnce
CHECK_DEADLOCK FALSE
