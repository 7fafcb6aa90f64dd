\* One message of each kind; liveness under the fairness of FairSpec.
CONSTANTS
  Records = {r1}
  Counters = {c1}
  Matchers = {m1}
  FlushMsg = flush
  QueueCapacity = 2
  BatchMax = 2
  TailFactor = 1
  Wrap = 64
SPECIFICATION FairSpec
PROPERTIES
  ForwardingNeverWaits
  StopReturns
  WorkerDrains
CHECK_DEADLOCK FALSE
