CONSTANTS
  Procs = {"p1", "p2", "p3"}
  Size = 2
  User = "user"
  UserSize = 2
  Crashes = {"p1", "p2"}
SPECIFICATION Spec
PROPERTY
  LeftUntouched
CHECK_DEADLOCK FALSE
