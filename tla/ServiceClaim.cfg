\* Three processes on the port that is persisted; crashes, stops and a vault that is renamed
\* aside and back.
CONSTANTS
  Procs = {p1, p2, p3}
  Ports = {8080}
  Confirmations = 2
  MaxLaunches = 3
  MaxMoves = 2
SPECIFICATION FairSpec
CHECK_DEADLOCK FALSE
PROPERTIES
  StartsSpareOwner
  ServiceComesUp
