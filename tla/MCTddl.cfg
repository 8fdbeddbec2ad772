\* Two processes, with segments of 2 and of 1 numbers, share the sequence.
SPECIFICATION FairSpec
CONSTANTS
  c1 = c1
  c2 = c2
  Clients = {c1, c2}
  Callers = {k1}
  Step <- StepMixed
  StartNum = 1
  MaxSequence = 4
INVARIANTS TypeOK IdsAccounted
PROPERTIES NoLostUpdate ImplementsLease ClosedSilent NextServed StartReturns
