SPECIFICATION Spec
CONSTANTS
  Updaters = {a, b}
  Chunks = 2
  MaxReleases = 2
  MaxStops = 0
INVARIANT WorkingCopyIsWhole
CHECK_DEADLOCK FALSE
