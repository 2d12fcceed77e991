SPECIFICATION Spec
CONSTANTS
  Issues = {i1, i2}
  Deployments = {d1, d2}
  Runs = {r1, r2}
  Lookback = 1
  Window = 1
  PageSize = 1
  MaxTime = 2
  MaxChanges = 1
  MaxFaults = 1
  MaxActors = 4
SYMMETRY Symmetry
CONSTRAINT Small
INVARIANTS
  OneBlamed
PROPERTIES
  Mirrored
  LatestLinked
CHECK_DEADLOCK FALSE
