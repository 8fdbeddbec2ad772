\* Does the process report itself unhealthy once its shutdown has begun?
SPECIFICATION FairSpec
CONSTANTS
  Reqs = {r1}
  Burst = 1
  Rate = 1
  MaxServed = 1
  MaxTime = 0
CHECK_DEADLOCK FALSE
PROPERTIES NotReadyInShutdown
