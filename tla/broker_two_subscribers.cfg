SPECIFICATION ThreadFairSpec
CONSTANTS
  Users = {u1, u2}
  Topics = {1}
  Contents = {text}
  Garbage = garbage
  RaceOutcomes = {"intact"}
  SocketCapacity = 1
  Leavers = {}
  MaxPosts = 2
  MaxRequests = 1
  NoThread = nobody
INVARIANTS
  OnePassAtATime
PROPERTIES
  PublishersAreServed
  SenderLockIsReleased
  PassesCatchUp
CHECK_DEADLOCK FALSE
