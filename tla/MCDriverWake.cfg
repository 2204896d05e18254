CONSTANTS
  p1 = p1
  p2 = p2
  Producers = {p1, p2}
  MaxMessages = 2
  MaxSqes = 2
  SqEntries = 1
  TURN_MESSAGES = 1
  TURN_COMPLETIONS = 1
  Environments <- MCEnvironments
SPECIFICATION FairSpec
INVARIANTS
  NoLostWakeup
PROPERTIES
  AllHandled
  NoSpin
  HeartbeatSuffices
CHECK_DEADLOCK FALSE
