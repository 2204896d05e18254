CONSTANTS
  r1 = r1
  r2 = r2
  Reads = {r1, r2}
  Shape <- MCShape
  Results <- Complete
  Want = 1
  Entries = 1
  SqEntries = 1
  TURN_MESSAGES = 2
  TURN_ALLOCATION = 4
  TURN_COMPLETIONS = 1
  MAX_SUBMIT_ERRORS = 1
  Faults = TRUE
  MayDrop = {r1}
  MayStop = TRUE
  MAX_TRANSIENT_RETRIES = 1
  CURRENT_POSITION = 100
SPECIFICATION HungKernelSpec
PROPERTIES
  ShutdownReturns
  ShutdownSettlesAll
  ReadsSettle
  KeepsOwnership
CHECK_DEADLOCK FALSE
