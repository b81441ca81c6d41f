\* Up to six events on two CPUs with rings of two events, and a message queue
\* of one; SIGINT may arrive, and the dispatcher die, at any moment.
CONSTANTS
  CPUs = {c1, c2}
  Tasks = {t1}
  Inodes = {i1}
  Operations = {"read+write", "rename"}
  Elements = {e1, e2, e3}
  NULL = NULL
  RING_CAPACITY = 2
  MQ_MAXMSG = 1
  MaxCalls = 3
  MaxPreemptions = 0
  MayInterrupt = TRUE
SPECIFICATION FairSpec
INVARIANTS
  TypeOK
  PerCpuOrder
  CountersTrack
PROPERTIES
  EventuallyRecorded
  SigIntStops
CHECK_DEADLOCK FALSE
