\* Does a process leave rescue mode once redis is back?
SPECIFICATION FairSpec
CONSTANTS
  Procs = {p1}
  Rate = 3
  Capacity = 2
  Second = 4
  MaxSkew = 0
  MaxTime = 1
  MaxBehind = 0
  MaxProbes = 1
PROPERTIES RescueEnds
