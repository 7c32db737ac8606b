\* A SIGINT that does not interrupt accept: the comment at http-server.c:515
\* expects the accept loop to end.
SPECIFICATION BusyServerSpec
CONSTANTS
  c1 = c1
  Main = main
  Worker = {w1, w2}
  Conn = {c1, c2}
  POISON = POISON
  Thread <- ThreadSet
  Value <- ValueSet
  Node = {n1, n2, n3, n4}
  NULL = NULL
  Silent <- NoConn
  MaxSignals = 1
  MaxFdopenFailure = 0
  MaxSpurious = 0
PROPERTY
  SigintEndsAccept
\* the process ends
CHECK_DEADLOCK FALSE
