CONSTANTS
  r1 = r1
  r2 = r2
  r3 = r3
  Reads = {r1, r2, r3}
  Shape <- MCShape
  Results <- Complete
  Want = 1
  Entries = 2
  SqEntries = 2
  TURN_MESSAGES = 64
  TURN_ALLOCATION = 64
  TURN_COMPLETIONS = 64
  MAX_SUBMIT_ERRORS = 128
  Faults = FALSE
  MayDrop = {r1, r2, r3}
  MayStop = FALSE
  MAX_TRANSIENT_RETRIES = 16
  CURRENT_POSITION = 100
SYMMETRY Symmetry
SPECIFICATION Spec
INVARIANTS
  CqNeverOverflows
CHECK_DEADLOCK FALSE
