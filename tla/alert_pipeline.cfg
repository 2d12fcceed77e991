SPECIFICATION FairPipelineSpec
CONSTANTS
  p1 = p1  t1 = t1
  Projects = {p1}
  Tenants = {t1}
  TenantOf <- MCTenantOf
  Windows = {30}
  RuleIds = {r1}
  RuleValues <- MCRuleValues
  NoRule = NoRule
  AnyScope = AnyScope
  Jobs = {j1, j2}
  Outcomes = {"elite", "low"}
  Concurrency = {1, 2}
  MaxRetry = 1
  DispatchRetry = 1
  MaxFaults = 1
  MaxRuleOps = 1
  MaxEvents = 2
INVARIANTS
  LateCallsBounded
  QuietMeansSettled
  OnePendingPerFailure
  TransitionsMadeKnown
PROPERTIES
  FallsQuiet
CHECK_DEADLOCK FALSE
