SPECIFICATION FairSpec
CONSTANTS
  Exchanges = {e1}
  MaxPush = 2
  Ttls = {0, 1, 3}
  Cap = 2
  Capacity = 1
CHECK_DEADLOCK FALSE
INVARIANTS
  TypeOK
  RevokeIsFinal
  MatcherNotOlder
  WithinCap
PROPERTY LockedKeyEnds
