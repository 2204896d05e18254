CONSTANTS
  r1 = r1
  r2 = r2
  Reads = {r1, r2}
  Shape <- MCShape
  Results <- ShortAndTransient
  Want = 2
  Entries = 1
  SqEntries = 1
  TURN_MESSAGES = 2
  TURN_ALLOCATION = 4
  TURN_COMPLETIONS = 1
  MAX_SUBMIT_ERRORS = 1
  Faults = TRUE
  MayDrop = {r1, r2}
  MayStop = TRUE
  MAX_TRANSIENT_RETRIES = 1
  CURRENT_POSITION = 100
SYMMETRY Symmetry
SPECIFICATION Spec
INVARIANTS
  TypeOK
  CleanExitIsDrained
  NoUseAfterFree
  OneStage
  PermitsConserved
  StatsConserved
  NobodyStranded
PROPERTIES
  StoppedIsOver
CHECK_DEADLOCK FALSE
