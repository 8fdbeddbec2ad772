\* All operations with failures: two requests at a time, a case-insensitive index.
SPECIFICATION Spec
CONSTANTS
  u1 = u1
  u2 = u2
  NoLong = NoLong
  RWNodes = {"a"}
  RONodes = {}
  Reqs = {r1, r2}
  Ops = {"create", "retrieve", "info", "delete"}
  Longs = {u1, u2}
  Collate <- CollateFold
  MaxSeq = 2
  MaxPad = 0
  TTLs = {1}
  RedisTTL = 1
  Jitter = 0
  LocalTTL = 1
  ReqTimeout = 1
  SocketTimeout = 0
  BatchSize = 1
  MaxTime = 3
  Faults = TRUE
SYMMETRY ReqSymmetry
INVARIANTS TypeOK CacheCoherent NeverServesExpired SameURLSameLink
PROPERTIES ImplementsLinkMap
