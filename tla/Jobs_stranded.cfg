SPECIFICATION FairSpec
CONSTANTS
  FileJobs = {f1}
  UrlJobs = {}
  Songs = {s1}
  MaxRequests = 1
  MaxStops = 1
  f1 = f1
  u1 = u1
  s1 = s1
  s2 = s2
PROPERTY SettlesAcrossStops
CHECK_DEADLOCK FALSE
