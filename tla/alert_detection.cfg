SPECIFICATION Spec
CONSTANTS
  p1 = p1  p2 = p2  t1 = t1  t2 = t2
  r1 = r1  r2 = r2  j1 = j1  j2 = j2  j3 = j3
  Projects = {p1, p2}
  Tenants = {t1, t2}
  TenantOf <- MCTenantOf
  Windows = {30}
  RuleIds = {r1, r2}
  RuleValues <- MCRuleValues2
  NoRule = NoRule
  AnyScope = AnyScope
  Jobs = {j1, j2, j3}
  Outcomes = {"elite", "low"}
  MaxRetry = 1
  Concurrency = {1, 2}
  MaxFaults = 1
  MaxRuleOps = 1
SYMMETRY TaskSymmetry
INVARIANTS
  TypeOK
  EventsWitnessed
  OneEventPerRowAndRule
  EventsOfOwnTenant
  EventsGetTheirTask
  SerialStepsOfTheSeries
  TransitionsAlerted
CHECK_DEADLOCK FALSE
