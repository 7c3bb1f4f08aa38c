SPECIFICATION Spec
CONSTANTS
  MaxSubscribers = 2
  FirstPort = 20000
  Settings <- SleepOnly
  Arrivals <- TwoArrivals
INVARIANTS
  EachReadsItsOwnTopics
CHECK_DEADLOCK FALSE
