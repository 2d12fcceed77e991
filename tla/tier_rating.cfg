SPECIFICATION TeamSpec
CONSTANTS
  p1 = p1
  p2 = p2
  d1 = d1
  d2 = d2
  d3 = d3
  r1 = r1
  r2 = r2
  r3 = r3
  i1 = i1
  i2 = i2
  WindowDays = {30}
  Configs <- MCConfigs
  Durations <- MCDurations
  MaxDeploys = 6
  Assignable = {p1, p2}
  Deployments = {d1, d2, d3}
  ProjectOf <- MCProjectOf
  Links <- MCLinks
  Incidents = {i1, i2}
  Times <- MCTimes
  Affected <- MCAffected
CONSTRAINT HalfAtATime
INVARIANT
  NotBelowWorstMember
PROPERTY
  ImprovementNeverDemotes
CHECK_DEADLOCK FALSE
