SPECIFICATION Spec
CONSTANTS
  acme = acme
  st = st
  MaxRows = 2
  Codes = {c1, c2}
  Tokens = {t1, t2}
  Clients = {acme, zeta}
  Redirects = {u1, u2}
  Verifiers = {v1}
  StaticTokens = {st}
  Environments <- MCEnvironments
  Exchanges = {e1, e2}
  Requests = {r1}
  Projects = {p1}
  Teams = {m1, m2}
  MaxTeams = 2
  Days = {30, 90}
  CodeTTL = 1
  TokenTTL = 1
  MaxTime = 2
  MaxWindows = 2
  MaxRestarts = 1
SYMMETRY Symmetry
CONSTRAINT HalfAtATime
INVARIANTS
  ReplyCurrent
PROPERTIES
  ImplementsGrant
  AcceptedWasGranted
CHECK_DEADLOCK FALSE
