SPECIFICATION Spec
CONSTANTS
  MAX_NUM_CLIENT = 2
  MAX_MESSAGE_QUEUE_SIZE = 3
  SocketCapacity = 1
  MaxLines <- OneLine
  Leavers = {}
  Junk = junk
  NoThread = nobody
INVARIANTS
  LinesAreStampedWithTheirSender
CHECK_DEADLOCK FALSE
