\* Events of two files, the cache having room for one, while bars and table are
\* drawn at the start and for three keys.
CONSTANTS
  CPUs = {c1}
  Tasks = {t1}
  Inodes = {i1, i2}
  Operations = {"create", "open", "read"}
  Elements = {e1, e2}
  NULL = NULL
  RING_CAPACITY = 2
  MQ_MAXMSG = 1
  MaxCalls = 2
  MaxPreemptions = 0
  MayInterrupt = FALSE
  MAX_ENTRIES = 2
  Keys = {"q", "KEY_UP", "KEY_DOWN", "TAB", "SHIFT+TAB"}
  MaxKeys = 3
SPECIFICATION TuiSpec
INVARIANTS
  TuiTypeOK
  BarsBetween
CHECK_DEADLOCK FALSE
