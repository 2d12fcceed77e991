SPECIFICATION Spec
CONSTANTS
  ana = ana
  ANA = ANA
  m1 = m1
  d1 = d1
  Tenants = {t1, t2}
  Names = {ana, ANA}
  Lower <- MCLower
  Bots = {}
  Persons = {p1, p2}
  Events = {m1, d1}
  Kind <- MCKind
  Linkers = {l1, l2}
  MaxThings = 6
  MaxLoaded = 2
  MaxRenames = 1
  MaxFaults = 1
CONSTRAINT Small
SYMMETRY Symmetry
INVARIANTS
  RowsFollowLinks
  AttributedByLink
CHECK_DEADLOCK FALSE
