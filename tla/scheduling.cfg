SPECIFICATION Spec
CONSTANTS
  g1 = g1
  j1 = j1
  j2 = j2
  p1 = p1
  t1 = t1
  Instances = {g1, j1, j2}
  Kind <- MCKind
  TenantOf <- MCTenant
  Projects = {p1}
  Home <- MCHome
  ExternalID <- MCID
  Installed <- MCRows
  Workers = {w1}
  MaxRetry = 1
  MaxChanges = 1
  MaxEdits = 2
  MaxFaults = 2
INVARIANT
  GivenUpForFailures
PROPERTY
  ChangesCollected
CHECK_DEADLOCK FALSE
