\* Two files opened and read on two CPUs, and one hook preempted: a fifth call is
\* enough to fill, for a file, the element a hook still has of the other.
CONSTANTS
  CPUs = {c1, c2}
  Tasks = {t1, t2}
  Inodes = {i1, i2}
  Operations = {"open", "read", "rename"}
  Elements = {e1, e2, e3, e4}
  NULL = NULL
  MaxCalls = 5
  MaxPreemptions = 1
SPECIFICATION HooksSpec
SYMMETRY Symmetry
INVARIANTS
  HooksTypeOK
  QuietHookIsGenuine
CHECK_DEADLOCK FALSE
