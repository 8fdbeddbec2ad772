\* Does Close return?
SPECIFICATION FairSpec
CONSTANTS
  c1 = c1
  c2 = c2
  Clients = {c1, c2}
  Callers = {k1}
  Step <- StepMixed
  StartNum = 1
  MaxSequence = 4
PROPERTIES CloseReturns
