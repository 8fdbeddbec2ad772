\* Every request is answered and every expired row reaped, two URLs, one row a batch.
SPECIFICATION FairSpec
CONSTANTS
  u1 = u1
  u2 = u2
  NoLong = NoLong
  RWNodes = {"a"}
  RONodes = {}
  Reqs = {r1}
  Ops = {"create", "retrieve", "delete"}
  Longs = {u1, u2}
  Collate <- CollateExact
  MaxSeq = 2
  MaxPad = 0
  TTLs = {1}
  RedisTTL = 1
  Jitter = 0
  LocalTTL = 1
  ReqTimeout = 1
  SocketTimeout = 1
  BatchSize = 1
  MaxTime = 4
  Faults = FALSE
PROPERTIES RequestsAnswered ExpiredReaped
