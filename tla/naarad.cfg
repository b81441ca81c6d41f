\* Two consumers, two runs; every step that can fail may.
CONSTANTS
  NUM_CONSUMERS = 2
  StepsMayFail = TRUE
  MQ_MAXMSG = 2
  PIPE_CAPACITY = 1
  MaxPosts = 4
  MaxRuns = 2
SPECIFICATION FairSpec
INVARIANTS
  NaaradTypeOK
  NoEarlyEof
  PipesWired
  LossNeedsDeath
PROPERTIES
  CtrlCEndsChildren
  CtrlCEndsMain
  ConsumersNotLeftBehind
  QueueServed
CHECK_DEADLOCK FALSE
