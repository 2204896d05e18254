CONSTANTS
  Reads <- AllReads
  Others <- Foreign
  Charge <- Lengths
  Configs <- MCConfigs
  NShards = 2
  Entries = 1
  Limited = TRUE
  MaxBytes = 2
  CapacityAware = TRUE
  Streams = {101}
  MayDrop = {0, 2, 4, 101}
  MayFail = {0}
  Stoppers = {200, 201}
  MAX_WINDOW = 3
  MAX_CHUNK = 2
  MaxI64 = 10
  MaxU64 = 21
  FileLen = 5
  Faults = {0}
  Oversized = {}
SPECIFICATION MCSpec
INVARIANTS
  PermitsAccounted
  ClosedForAll
  PassesOnlyClosed
PROPERTIES
  ConsumerEnds
  DeferredSettles
CHECK_DEADLOCK FALSE
