SPECIFICATION Spec
CONSTANTS
  Users = {u1}
  Topics = {1}
  Contents = {text}
  Garbage = garbage
  RaceOutcomes = {"intact"}
  SocketCapacity = 1
  Leavers = {}
  MaxPosts = 2
  MaxRequests = 1
  NoThread = nobody
INVARIANTS
  CursorCoversOnlySent
CHECK_DEADLOCK FALSE
