SPECIFICATION FairSpec
CONSTANTS
  Users = {u1}
  Topics = {1}
  Contents = {text}
  Garbage = garbage
  RaceOutcomes = {"intact"}
  SocketCapacity = 1
  Leavers = {}
  MaxPosts = 1
  MaxRequests = 1
  NoThread = nobody
PROPERTIES
  LaterMessagesArrive
CHECK_DEADLOCK FALSE
