SPECIFICATION FairSpec
CONSTANTS
  MAX_NUM_CLIENT = 2
  MAX_MESSAGE_QUEUE_SIZE = 2
  SocketCapacity = 1
  MaxLines <- TwoAndOneLines
  Leavers = {0}
  Junk = junk
  NoThread = nobody
PROPERTIES
  NewestClientIsHeard
  OnlyTheLastIsHeldBack
CHECK_DEADLOCK FALSE
