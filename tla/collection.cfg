SPECIFICATION Spec
CONSTANTS
  Deployments = {d1}
  MergeRequests = {m1}
  Production = {d1}
  Jobs = {j1, j2}
  Overlap = 2
  BackfillDays = {0}
  Month = 9
  Timeout = 1
  PerPage = 2
  MaxRetry = 1
  Concurrency = {2}
  MaxTime = 4
  MaxRuns = 2
  MaxFaults = 1
INVARIANTS
  TypeOK
  NothingLost
  LinksReal
SYMMETRY Symmetry
CHECK_DEADLOCK FALSE
