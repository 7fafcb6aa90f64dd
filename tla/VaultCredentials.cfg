SPECIFICATION Spec
CONSTANTS
  Procs = {p1, p2}
  Projects = {j1}
  Creds = {c1, c2}
  MaxKey = 3
  MaxVersion = 3
  KeepVersions = 1
SYMMETRY Symmetry
CHECK_DEADLOCK FALSE
INVARIANTS
  AlwaysDecryptable
  
