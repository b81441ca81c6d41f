\* Two entries are kept, a freed node may be the next malloc() gives out, and
\* compare-exchanges may fail spuriously.
CONSTANTS
  MAX_ENTRIES = 2
  Nodes = {n1, n2, n3, n4}
  NULL = NULL
  MaxEvents = 4
  WeakMayFail = TRUE
  MayExit = TRUE
SPECIFICATION FairSpec
INVARIANTS
  TypeOK
  KeepsNewest
  NoLeakNoDangling
  QuietWalkIsExact
PROPERTIES
  RecordsRecentEvents
  PushReturns
CHECK_DEADLOCK FALSE
