CONSTANTS
  Actors = {a1, a2}
  Routes = {r1}
  MaxOps = 3
  MaxTime = 2
  MaxEvents = 2
  Skew = 0
SPECIFICATION Spec
SYMMETRY MCSymmetry
CHECK_DEADLOCK FALSE
INVARIANTS
  
  EvidenceOfSession
PROPERTY
  FailureKept
