\* The real MAX_WAKEUP: every sleeper is woken, and a wake-up is lost all the same.
SPECIFICATION FutexSpec
CONSTANTS
  Thread = {t1, t2, t3}
  Node = {n1, n2}
  Value = {s1, s2}
  NULL = NULL
  MaxSpurious = 1
  MaxWakeup = 16
SYMMETRY Symmetry
INVARIANT
  WakesSleepers
\* queue_get of every thread may block for ever, and the process may exit
CHECK_DEADLOCK FALSE
