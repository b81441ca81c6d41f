\* Two groups, both sent to; anything may time out, die or be stopped.
CONSTANTS
  NUM_GROUPS = 2
  NUM_CONSUMERS_PER_GROUP = 2
  SentCategories = {0, 1}
  MQ_MAXMSG = 2
  PIPE_CAPACITY = 2
  MaxPosts = 3
  OperatorMayStop = TRUE
  DispatcherMayDie = TRUE
  ConsumersMayDie = TRUE
SPECIFICATION Spec
INVARIANTS
  TypeOK
  HandledOnceInOrder
  LossIsBounded
  AckDebt
  AckGenuine
  RoundRobinBalanced
  GracefulStop
PROPERTIES
  DeliversInTurn
CHECK_DEADLOCK FALSE
