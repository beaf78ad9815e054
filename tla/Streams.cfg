SPECIFICATION StreamsSpec
CONSTANTS
  Sides <- MCSides
  Roles <- MCRoles
  left = left
  right = right
  agent = agent
  QueueLimit = 2
  MaxSkew = 1
  MaxAge = 1
  Resume = 2
  MaxTick = 3
  PairSkew = 1
  FrameAge = 2
  Patience = 2
  MaxWait = 1
  MaxInstant = 4
  MaxEpoch = 2
  FtKept = 3
  ScaleKept = 3
  SampleAge = 1
  FtSkew = 1
  ScaleAge = 2
  ScaleSkew = 2
  CameraSkew = 1
  MaxNow = 4
INVARIANTS
  StateAfterRestart
  FrameSetsAdvance
  SteadySensorsAccepted
PROPERTIES
  RefinesPairStream
  BothSidesFresh
  CallsEnd
CHECK_DEADLOCK FALSE
