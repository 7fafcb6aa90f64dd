\* Two concurrent exchanges, a counter bump, one matcher change and a stop, over a
\* queue of two: every call can meet a full queue, and a batch can hold any two messages.
CONSTANTS
  Records = {r1, r2}
  Counters = {c1}
  Matchers = {m1}
  FlushMsg = flush
  QueueCapacity = 2
  BatchMax = 2
  TailFactor = 1
  Wrap = 64
SPECIFICATION Spec
INVARIANTS
  TypeOK
  EveryOutcomeCounted
  DepthExactWhenQuiet
  FlushIsBarrier
PROPERTY
  ImplementsSink
SYMMETRY Symmetry
CHECK_DEADLOCK FALSE
