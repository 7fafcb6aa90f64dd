SPECIFICATION FairSpec
CONSTANTS
  Procs = {p1}
  Ttl = 1
  MaxTime = 1
  MaxSessions = 1
  Conns = {c1}
  MaxConnections = 1
  ChannelCap = 1
  ReapTries = 1
CHECK_DEADLOCK FALSE
INVARIANTS
  TypeOK
  VerdictAfterTeardown
  OrphanOnly
PROPERTIES
  TerminalFinal
  LockEndsRun
  OrphanClosed
