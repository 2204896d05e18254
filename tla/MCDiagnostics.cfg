CONSTANTS
  Reads = {r1, r2, r3}
  NShards = 2
  Interval = 2
  Word = 4
  MaxClock = 3
  MaxRetries = 1
SPECIFICATION MCSpec
SYMMETRY Symmetry
INVARIANTS
  DeltaExact
  SamplesHonest
CHECK_DEADLOCK FALSE
