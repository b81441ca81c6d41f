\* A queue of two and pipes of one; anything may time out, die or be stopped.
CONSTANTS
  NUM_GROUPS = 1
  NUM_CONSUMERS_PER_GROUP = 2
  SentCategories = {0}
  MQ_MAXMSG = 2
  PIPE_CAPACITY = 1
  MaxPosts = 4
  OperatorMayStop = TRUE
  DispatcherMayDie = TRUE
  ConsumersMayDie = TRUE
SPECIFICATION FairSpec
PROPERTIES
  EventuallyHandled
  ConsumersFollowDispatcher
CHECK_DEADLOCK FALSE
