CONSTANTS
  MAX_TRANSIENT_RETRIES = 1
  CURRENT_POSITION = 31
  USIZE_MAX = 31
  MAX_READ_LEN = 8
  max_read_len = 8
  max_in_flight_bytes = 10
  Requests <- MCRequests
  FileLens <- MCFileLens
  Changing <- MCChanging
  MaxResizes = 2
SPECIFICATION FairSpec
INVARIANTS
  SqeValid
  ResultExact
PROPERTIES
  Settles
CHECK_DEADLOCK FALSE
