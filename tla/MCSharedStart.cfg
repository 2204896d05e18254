CONSTANTS
  d1 = d1
  d2 = d2
  d3 = d3
  d4 = d4
  r1 = r1
  r2 = r2
  Drivers = {d1, d2, d3, d4}
  Bytes <- Limits
  Capacity = 3
  Threads <- Shards
  Reads = {r1}
  ShardOf <- Shard
  Size = 2
  MayLeak = {d1}
  Starting = d1
  NShards = 2
  ExtArg = TRUE
  Signals = TRUE
SPECIFICATION FairStart
INVARIANTS
  PoolAccounted
  ProbeBufferSafe
  AllOrNothing
PROPERTIES
  
  RefundComes
CHECK_DEADLOCK FALSE
