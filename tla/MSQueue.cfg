\* Two enqueuers and two dequeuers, three nodes.
SPECIFICATION Spec
CONSTANTS
  Enqueuer = {e1, e2}
  Dequeuer = {d1, d2}
  Node = {n1, n2, n3}
  Dummy = n0
  Value = {v1, v2}
  NULL = NULL
  MergedReads = TRUE
SYMMETRY Symmetry
INVARIANTS
  MSTypeOK
  OneList
  NoNullRead
  EmptyIsHonest
PROPERTY
  FifoRefinement
\* the enqueuers stop when the nodes are used up
CHECK_DEADLOCK FALSE
