\* Is a deleted link still resolvable? One client, one process, no failure.
SPECIFICATION Spec
CONSTANTS
  u1 = u1
  u2 = u2
  NoLong = NoLong
  RWNodes = {"a"}
  RONodes = {}
  Reqs = {r1}
  Ops = {"create", "retrieve", "delete"}
  Longs = {u1}
  Collate <- CollateExact
  MaxSeq = 1
  MaxPad = 0
  TTLs = {0}
  RedisTTL = 1
  Jitter = 1
  LocalTTL = 2
  ReqTimeout = 1
  SocketTimeout = 0
  BatchSize = 1
  MaxTime = 3
  Faults = FALSE
INVARIANTS DeletedNotServed
