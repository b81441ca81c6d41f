\* Every kind of operation.
CONSTANTS
  CPUs = {c1}
  Tasks = {t1}
  Inodes = {i1}
  Operations = {"open", "create", "link", "unlink", "symlink", "mkdir", "rmdir", "mknod", "rename"}
  Elements = {e1, e2}
  NULL = NULL
  RING_CAPACITY = 2
  MQ_MAXMSG = 1
  MaxCalls = 3
  MaxPreemptions = 0
  MayInterrupt = FALSE
SPECIFICATION Spec
INVARIANTS
  OperationsCounted
CHECK_DEADLOCK FALSE
