SPECIFICATION Spec
CONSTANTS
  Deployments = {d1, d2}
  MergeRequests = {}
  Production = {d1, d2}
  Jobs = {j1}
  Overlap = 2
  BackfillDays = {0}
  Month = 9
  Timeout = 1
  PerPage = 1
  MaxRetry = 1
  Concurrency = {1}
  MaxTime = 3
  MaxRuns = 2
  MaxFaults = 0
INVARIANTS
  NothingLost
SYMMETRY Symmetry
CHECK_DEADLOCK FALSE
