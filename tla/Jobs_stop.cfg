SPECIFICATION FairSpec
CONSTANTS
  FileJobs = {f1}
  UrlJobs = {u1}
  Songs = {s1}
  MaxRequests = 2
  MaxStops = 1
  f1 = f1
  u1 = u1
  s1 = s1
  s2 = s2
INVARIANTS TypeOK StatusBacked
PROPERTY Settles
CHECK_DEADLOCK FALSE
