\* One of two workers has a silent client; the other one sleeps on.
SPECIFICATION FairSpec
CONSTANTS
  c1 = c1
  Worker = {w1, w2}
  Conn = {c1, c2, c3}
  Silent <- OneConn
  NONE = NONE
  MaxFdopenFailure = 0
PROPERTY
  WakeupOnTransitionSuffices
\* the process ends
CHECK_DEADLOCK FALSE
