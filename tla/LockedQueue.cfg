\* Three threads that may all put and get, four cells, two values.
SPECIFICATION Spec
CONSTANTS
  Thread = {t1, t2, t3}
  Node = {n1, n2, n3, n4}
  Value = {s1, s2}
  NULL = NULL
  MaxSpurious = 2
SYMMETRY Symmetry
INVARIANTS
  TypeOK
  ListShape
  LengthAccounts
  HeapAccounts
  NoSleeperWithWork
PROPERTY
  FifoRefinement
\* queue_get of every thread may block for ever, and the process may exit
CHECK_DEADLOCK FALSE
