\* Nothing dies; an ack may come late.
CONSTANTS
  NUM_GROUPS = 1
  NUM_CONSUMERS_PER_GROUP = 2
  SentCategories = {0}
  MQ_MAXMSG = 2
  PIPE_CAPACITY = 2
  MaxPosts = 3
  OperatorMayStop = TRUE
  DispatcherMayDie = FALSE
  ConsumersMayDie = FALSE
SPECIFICATION Spec
PROPERTIES
  StopAckIsOfStop
CHECK_DEADLOCK FALSE
