\* Two enqueuers and two dequeuers on rings of one cell, on which
\* dequeuers wait.
SPECIFICATION Spec
CONSTANTS
  Enqueuer = {e1, e2}
  Dequeuer = {d1, d2}
  Value = {v1, v2}
  EMPTY = EMPTY
  RingSize = 1
  Refresh = 2
  Patience = 0
  CloseTries = 2
  MaxDraws = 2
  MaxCalls = 2
SYMMETRY Symmetry
INVARIANTS
  LCRQTypeOK
  NothingBehind
  EmptyIsHonest
PROPERTY
  OverlapRefinement
\* the threads stop when the values and the indices are used up
CHECK_DEADLOCK FALSE
