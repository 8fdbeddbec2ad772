\* One link, deleted by its code or an alias; calls are slow, some too slow to be answered.
SPECIFICATION Spec
CONSTANTS
  u1 = u1
  u2 = u2
  NoLong = NoLong
  RWNodes = {"a"}
  RONodes = {}
  Reqs = {r1, r2}
  Ops = {"create", "retrieve", "delete"}
  Longs = {u1}
  Collate <- CollateExact
  MaxSeq = 1
  MaxPad = 1
  TTLs = {0}
  RedisTTL = 1
  Jitter = 1
  LocalTTL = 2
  ReqTimeout = 1
  SocketTimeout = 1
  BatchSize = 1
  MaxTime = 8
  Faults = FALSE
SYMMETRY ReqSymmetry
INVARIANTS DeletedFadesOut
