CONSTANTS
  r1 = r1
  r2 = r2
  f1 = f1
  u1 = u1
  Jobs = {p1}
  Files = {f1}
  Routes <- MCRoutes
  VarOf <- MCVarOf
  UserValues = {u1}
  UserHosts = {h1}
  Loopback = loopback
  NoValue = none
  MaxSlugs = 2
  MaxPort = 1
  MaxEdits = 1
SPECIFICATION LinkSpec
SYMMETRY MCSymmetry
CHECK_DEADLOCK FALSE
INVARIANTS
  LinkTypeOK
  LinesHaveLinks
  UntouchedReturns
