SPECIFICATION Spec
CONSTANTS
  FileJobs = {f1}
  UrlJobs = {}
  Songs = {s1, s2}
  MaxRequests = 4
  MaxStops = 0
  f1 = f1
  u1 = u1
  s1 = s1
  s2 = s2
INVARIANT FolderHoldsOnlyItsRender
CHECK_DEADLOCK FALSE
