\* Three threads: a combiner does not serve the last one on the list.
SPECIFICATION ProgramsSpec
CONSTANTS
  N_THREADS = 3
  Programs = {"dsmstack", "hstack"}
  Load <- Short
  SimQueueLoads = {}
  Stopped = {}
  HelpBound = 3
  CounterStart = {0}
  LOCAL_POOL_SIZE = 16
  Puts <- OneAndBoth
  Enqueuer = {0, 1}
  Dequeuer = {2}
  Value = {1, 2}
  Node = {n1, n2}
  Dummy = n0
  NULL = 0
  MergedReads = TRUE
  EMPTY = 0
  RingSize = 2
  Refresh = 3
  Patience = 1
  CloseTries = 2
  MaxDraws = 20
  MaxCalls = 2
PROPERTY
  SimulatesAtomicObject
\* the threads stop when their calls are used up
CHECK_DEADLOCK FALSE
