\* Three workers, of which one may fail; puts and gets overlap in every order.
SPECIFICATION FairSpec
CONSTANTS
  c1 = c1
  Worker = {w1, w2, w3}
  Conn = {c1, c2, c3}
  Silent <- NoConn
  NONE = NONE
  MaxFdopenFailure = 1
INVARIANTS
  CountedTypeOK
  CounterAccounts
  NotAllAsleep
PROPERTY
  AcceptedIsHandled
\* the process ends
CHECK_DEADLOCK FALSE
