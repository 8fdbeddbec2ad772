\* Two processes share the bucket; time to let the keys expire, clocks that differ.
\* Two goroutines share the item limiters; failures until the backoff overflows.
\* Codes of 3 or 4 digits in base 3: all numbers that have one, all strings.
SPECIFICATION PackagesSpec
CONSTANTS
  Procs = {p1, p2}
  Rate = 3
  Capacity = 2
  Second = 4
  MaxSkew = 1
  MaxTime = 6
  MaxBehind = 2
  MaxProbes = 1
  Items = {i1, i2}
  Goroutines = {g1, g2}
  BaseDelay = 3
  MaxDelay = 10
  FastDelay = 1
  SlowDelay = 4
  MaxFast = 2
  MaxInt = 15
  MaxFailures = 4
  chars <- Digits3
  Bytes = {"0", "1", "2", "3"}
  maxBytes = 4
  MinLen = 3
  StartNum = 9
  MaxNum = 81
INVARIANTS
  TypeOK GlobalLimit RescueLimit
  LimiterTypeOK NeverSooner LimitersAgree
  CodeTypeOK FoundByItsCode CodesResolve
SYMMETRY PackagesSymmetry
