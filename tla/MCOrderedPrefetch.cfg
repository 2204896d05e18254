CONSTANTS
  Configs <- Ranges
  MAX_WINDOW = 4
  MAX_CHUNK = 3
  MaxI64 = 10
  MaxU64 = 21
  FileLen = 6
  Faults = {0, 4}
  Oversized = {2}
SPECIFICATION FairSpec
INVARIANTS
  WindowBound
  ReadsInRange
PROPERTIES
  Sequential
  Ends
CHECK_DEADLOCK FALSE
