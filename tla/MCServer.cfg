\* A process of each kind, with two requests at a time, from its start to its exit.
SPECIFICATION FairSpec
CONSTANTS
  Reqs = {r1, r2}
  Burst = 1
  Rate = 1
  MaxServed = 2
  MaxTime = 1
CHECK_DEADLOCK FALSE
INVARIANTS TypeOK ClosedAfterDrain NobodyCutOff HealthNotLimited ReadyMeansOpen
PROPERTIES ShutdownEnds
