\* One of two workers dies of a failed fdopen; the other one sleeps on.
SPECIFICATION FairSpec
CONSTANTS
  c1 = c1
  Worker = {w1, w2}
  Conn = {c1, c2}
  Silent <- NoConn
  NONE = NONE
  MaxFdopenFailure = 1
PROPERTY
  FdopenFailureIsLocal
\* the process ends
CHECK_DEADLOCK FALSE
