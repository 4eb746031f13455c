SPECIFICATION MCSpec
CONSTANTS
  Clients = {"rust", "python", "async"}
  AutoReconnect = TRUE
  ChunkSizes = {1}
  DefaultChunk = 2
  MaxRows = 2
  MaxCalls = 2
  MaxFaults = 2
  Users = {u1, u2, u3}
  Pools = {"rust", "python", "async"}
  MaxSize = 2
  MinSizes = {1, 3}
  Sockets = {s1, s2, s3}
  MaxUses = 3
  ShardIds = {0, 1, 2}
  NodeIds = {0, 1, 2, 3}
  ShardLabels = {l1, l2}
  MaxCount = 4
  MaxRanges = 1
  Shards = {a, b}
  Asked <- AskedRequests
  MaxQueries = 2
  MaxShardFaults = 1
  RequireToken = TRUE
INVARIANTS CallsCoherent PoolSound MapSound ShardsExact
PROPERTIES WaitersServed QueriesAnswered
CHECK_DEADLOCK FALSE
