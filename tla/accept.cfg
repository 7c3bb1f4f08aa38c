SPECIFICATION FairSpec
CONSTANTS
  MaxSubscribers = 3
  FirstPort = 20000
  Settings <- AllSettings
  Arrivals <- AllArrivals
INVARIANTS
  TypeOK
  SubscribersCanListen
  ThreadsServeTheirUser
  NobodyExits
PROPERTIES
  ArrivedAreServed
CHECK_DEADLOCK FALSE
