\* Can a deleted URL be shortened again? One client, no failure.
SPECIFICATION Spec
CONSTANTS
  u1 = u1
  u2 = u2
  NoLong = NoLong
  RWNodes = {"a"}
  RONodes = {}
  Reqs = {r1}
  Ops = {"create", "retrieve", "delete"}
  Longs = {u1}
  Collate <- CollateExact
  MaxSeq = 3
  MaxPad = 0
  TTLs = {0}
  RedisTTL = 1
  Jitter = 1
  LocalTTL = 1
  ReqTimeout = 1
  SocketTimeout = 0
  BatchSize = 1
  MaxTime = 2
  Faults = FALSE
INVARIANTS CreateSucceeds
