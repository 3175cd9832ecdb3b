SPECIFICATION Spec
CONSTANTS
  FileJobs = {}
  UrlJobs = {u1}
  Songs = {s1}
  MaxRequests = 3
  MaxStops = 0
  f1 = f1
  u1 = u1
  s1 = s1
  s2 = s2
INVARIANT RerunDownloadsAgain
CHECK_DEADLOCK FALSE
