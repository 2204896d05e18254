CONSTANTS
  Procs = {"p1", "p2", "p3"}
  Size = 2
  User = "user"
  UserSize = 2
  Crashes = {"p1", "p2"}
  ConcurrentConfigs <- Concurrent
  Block = 2
  MAX_READ_SIZE = 3
  MAX_CONCURRENCY = 3
  MaxFile = 7
  Truncated = {3}
  FailingOps = {3}
  StreamConfigs <- Streams
  MAX_CHUNK = 4
  MAX_QD = 3
  Aligns = {2, 4}
  Lengths = {3, 9}
  FailingOffsets = {2}
SPECIFICATION BenchSpec
INVARIANTS
  
  OutcomeHonest
PROPERTIES
  BenchEnds
CHECK_DEADLOCK FALSE
