\* Three threads with two calls or one; in the Sim programs two threads, the
\* first with more, in simqueue enough to use an enqueue record again. A combiner
\* serves at most two requests.
SPECIFICATION FairPrograms
CONSTANTS
  N_THREADS = 3
  Programs = {"ccuobject", "dsmuobject", "huobject", "oyamauobject", "locksuobject",
              "locksstack", "lfobject", "lfstack", "sim", "simstack", "simqueue",
              "ccqueue", "locksqueue", "ccstack",
              "msqueue", "lcrq"}
  Load <- Short
  SimQueueLoads <- RacingAndReuse
  Stopped = {0}
  HelpBound = 2
  CounterStart = {0, 1}
  LOCAL_POOL_SIZE = 3
  Puts <- OneAndBoth
  Enqueuer = {0, 1}
  Dequeuer = {2}
  Value = {1, 2}
  Node = {n1, n2}
  Dummy = n0
  NULL = 0
  MergedReads = TRUE
  EMPTY = 0
  RingSize = 2
  Refresh = 3
  Patience = 1
  CloseTries = 2
  MaxDraws = 20
  MaxCalls = 2
INVARIANTS
  SynchTypeOK
  MutualExclusion
PROPERTIES
  AtomicRefinement
  ReturnsItsResult
  ChainStaysWhole
  EmptyIsHonest
  CallsReturn
\* the threads stop when their calls are used up
CHECK_DEADLOCK FALSE
