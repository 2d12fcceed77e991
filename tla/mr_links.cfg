SPECIFICATION Spec
CONSTANTS
  Deployments = {d1, d2}
  MergeRequests = {m1}
  Production = {d1, d2}
  Jobs = {j1}
  Overlap = 2
  BackfillDays = {0, 3}
  Month = 9
  Timeout = 1
  PerPage = 2
  MaxRetry = 1
  Concurrency = {1}
  MaxTime = 2
  MaxRuns = 2
  MaxFaults = 1
INVARIANTS
  SerialLinkedToFirst
  SerialLinksComplete
SYMMETRY Symmetry
CHECK_DEADLOCK FALSE
