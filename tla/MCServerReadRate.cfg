\* Are redirects limited?
SPECIFICATION Spec
CONSTANTS
  Reqs = {r1}
  Burst = 2
  Rate = 1
  MaxServed = 4
  MaxTime = 1
CHECK_DEADLOCK FALSE
INVARIANTS RedirectsLimited
