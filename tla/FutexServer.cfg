\* Two descriptors that are reused, the client of c1 stops after its request
\* line; with two cells a third put waits until one is free. A broadcast wakes
\* one thread of two.
SPECIFICATION FairFutexServer
CONSTANTS
  c1 = c1
  Main = main
  Worker = {w1, w2}
  Conn = {c1, c2}
  POISON = POISON
  Thread <- ThreadSet
  Value <- ValueSet
  Node = {n1, n2}
  NULL = NULL
  Silent <- OneConn
  MaxSignals = 1
  MaxFdopenFailure = 1
  MaxSpurious = 0
  MaxWakeup = 1
  MaxBlocks = 2
INVARIANTS
  FutexServerTypeOK
  StrandedWasMissed
  HeapAccounts
  AnswerIsDue
PROPERTIES
  FutexFifoRefinement
  AcceptedUnlessStuck
  ShutdownUnlessStuck
\* the process ends
CHECK_DEADLOCK FALSE
