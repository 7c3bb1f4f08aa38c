SPECIFICATION FairSpec
CONSTANTS
  MAX_NUM_CLIENT = 1
  MAX_MESSAGE_QUEUE_SIZE = 3
  SocketCapacity = 1
  MaxLines <- OneLine
  Leavers = {}
  Junk = junk
  NoThread = nobody
PROPERTIES
  EveryLineIsShown
CHECK_DEADLOCK FALSE
