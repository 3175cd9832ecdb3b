SPECIFICATION Spec
CONSTANTS
  FileJobs = {f1}
  UrlJobs = {u1}
  Songs = {s1}
  MaxRequests = 3
  MaxStops = 1
  f1 = f1
  u1 = u1
  s1 = s1
  s2 = s2
INVARIANTS StatusBacked
PROPERTIES CancelObeyed ImplementsLife
CHECK_DEADLOCK FALSE
