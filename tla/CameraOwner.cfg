SPECIFICATION ServicesSpec
CONSTANTS
  Calls <- MCCalls
  ConfigOf <- MCConfigOf
  Pids <- MCPids
  shell = shell
  pid1 = pid1
  pid2 = pid2
  panel = panel
  MaxTicks = 2
  MaxBegun = 3
  Cameras = {l, r}
  CamerasOnly = FALSE
  MinFrames = 2
  MaxFrames = 2
  MaxPackets = 1
  RunModes = {"hold", "paired"}
  Handling = TRUE
  MaxKills = 1
  Selected <- MCSelected
  Motors = {m1, m2}
  Rounds = 2
  Registers = 2
  MaxSignals = 2
  Features = {wrist, elbow}
  ActiveFeature = wrist
  Amplitude = 2
  Transition = 1
  Hold = 1
  Cycles = 1
  Bound = 3
  FirstHold = 1
  Tolerance = 1
  Persistence = 2
  StateTimeout = 1
  Errors <- MCErrors
  LastInstant = 10
  MaxLength = 2
  MaxSource = 3
  Followers = {l, r}
  MaxLines = 3
  MaxRound = 2
  Bytes = {0, 1, 2}
  Header <- MCHeader
  FrameSize = 5
  Intact <- MCIntact
  Finite <- MCFinite
  MaxRead = 3
  MaxReceived = 10
INVARIANTS
  CameraOwnerIsMarked
CHECK_DEADLOCK FALSE
