\* The dispatcher dies and the main process keeps sending.
CONSTANTS
  NUM_GROUPS = 1
  NUM_CONSUMERS_PER_GROUP = 2
  SentCategories = {0}
  MQ_MAXMSG = 2
  PIPE_CAPACITY = 2
  MaxPosts = 4
  OperatorMayStop = FALSE
  DispatcherMayDie = TRUE
  ConsumersMayDie = FALSE
SPECIFICATION FairSpec
PROPERTIES
  SendReturns
CHECK_DEADLOCK FALSE
