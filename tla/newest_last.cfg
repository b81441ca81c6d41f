\* The TUI thread walks the list while events are evicted.
CONSTANTS
  MAX_ENTRIES = 2
  Nodes = {n1, n2, n3, n4}
  NULL = NULL
  MaxEvents = 5
  WeakMayFail = TRUE
  MayExit = FALSE
SPECIFICATION Spec
INVARIANTS
  NewestLast
CHECK_DEADLOCK FALSE
