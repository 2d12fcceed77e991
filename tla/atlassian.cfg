SPECIFICATION Spec
CONSTANTS
  States = {s1, s2}
  Callbacks = {c1, c2}
  Collectors = {p1, p2}
  Sites = {acme, apex}
  Keys = {k1, k2}
  StateTTL = 2
  Margin = 3
  Timeout = 1
  Life = 4
  MaxTime = 4
  MaxGrants = 2
  MaxFaults = 1
SYMMETRY Symmetry
INVARIANTS
  KeptUnlessLost
  RowOfOneGrant
  StateUsedOnce
  TakenTokensLive
CHECK_DEADLOCK FALSE
