SPECIFICATION Spec
CONSTANTS
  JointCount = 2
  Timeout = 2
  StateTimeout = 2
  StopOnError = FALSE
  MaxClock = 6
INVARIANTS
  BoundViolationFatal
CHECK_DEADLOCK FALSE
