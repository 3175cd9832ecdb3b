SPECIFICATION Spec
CONSTANTS
  Updaters = {a, b, c}
  Chunks = 2
  MaxReleases = 2
  MaxStops = 1
INVARIANTS CopyIsWhole CopyRuns
CHECK_DEADLOCK FALSE
