\* Two descriptors that are reused, the client of c1 never sends a request; a
\* cell for each descriptor and each poison: calloc is never short of cells.
SPECIFICATION FairServerSpec
CONSTANTS
  c1 = c1
  Main = main
  Worker = {w1, w2}
  Conn = {c1, c2}
  POISON = POISON
  Thread <- ThreadSet
  Value <- ValueSet
  Node = {n1, n2, n3, n4}
  NULL = NULL
  Silent <- OneConn
  MaxSignals = 2
  MaxFdopenFailure = 1
  MaxSpurious = 1
INVARIANTS
  ServerTypeOK
  OnePlace
  ShutdownDrains
PROPERTIES
  KeepsQueueRules
  AcceptedIsHandled
  ShutdownEnds
\* the process ends
CHECK_DEADLOCK FALSE
