SPECIFICATION Spec
CONSTANTS
  Users = {u1}
  Topics = {1, 2}
  Contents = {text}
  Garbage = garbage
  RaceOutcomes = {"intact", "garbage", "crash"}
  SocketCapacity = 2
  Leavers = {u1}
  MaxPosts = 2
  MaxRequests = 3
  NoThread = nobody
INVARIANTS
  TypeOK
  InOrderAndOnce
PROPERTIES
  ImplementsFeed
CHECK_DEADLOCK FALSE
