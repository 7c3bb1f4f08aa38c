SPECIFICATION Spec
CONSTANTS
  MAX_NUM_CLIENT = 2
  MAX_MESSAGE_QUEUE_SIZE = 3
  SocketCapacity = 1
  MaxLines <- NoneAndFourLines
  Leavers = {0}
  Junk = junk
  NoThread = nobody
INVARIANTS
  TypeOK
  QueueHoldsTheLatest
  BroadcastsAreFaithful
  NoBroadcastIsMissed
CHECK_DEADLOCK FALSE
