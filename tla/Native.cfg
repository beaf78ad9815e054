SPECIFICATION NativeSpec
CONSTANTS
  JointCount = 2
  Timeout = 2
  StateTimeout = 2
  StopOnError = FALSE
  MaxClock = 8
  tx1 = tx1
  tx2 = tx2
  rx1 = rx1
  rx2 = rx2
  MotorNames <- MCMotorNames
  BatchAge = 1
  BatchSkew = 1
  MaxAge = 1
  MaxSkew = 1
  StartupTimeout = 2
  SilenceTimeout = 1
  MaxInstant = 3
  MaxSessions = 2
  MaxOnWire = 2
  ResponseIds <- MCResponseIds
  Capacity = 2
  LogTimeout = 2
  Burst = 2
  SocketLimit = 2
  MaxComing = 4
  MaxLogTime = 6
SYMMETRY MCSymmetry
INVARIANTS
  TimersBehindSamples
  OutsideSoonFatal
  UsableIsCurrent
  LogUnbroken
PROPERTIES
  OneWarningPerExcursion
CHECK_DEADLOCK FALSE
