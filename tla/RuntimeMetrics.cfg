SPECIFICATION FairSpec
CONSTANTS
  Events = {e1}
  Attributed = {}
  Maintainers = {"gateway"}
  MaxTime = 4
  HourLen = 2
  DayLen = 2
  EventLife = 1
  BucketLife = 2
  Lag = 1
CHECK_DEADLOCK FALSE
INVARIANTS
  TypeOK
  BehindWatermarkCounted
  ErasedStaysErased
PROPERTIES
  PruneOnlyCounted
