SPECIFICATION DirSpec
CONSTANTS
  Names = {n1, n2}
  Imports = {{n1}, {n2}, {n1, n2}}
  MaxOps = 4
  MaxStops = 1
  Folders = {d1, d2}
  MaxRequests = 3
  MaxBegun = 4
INVARIANTS OnePerName LibraryKept Remembered
CHECK_DEADLOCK FALSE
