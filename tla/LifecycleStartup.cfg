SPECIFICATION CastSpec
CONSTANTS
  left1 = left1
  left2 = left2
  right1 = right1
  Launches <- MCThree
  SideOf <- MCSideOf
  ModeOf <- MCModeOf
  LinksPerSide = 2
  OneAtATime = TRUE
  MaxCrashes = 0
INVARIANTS
  StartupFailureLeavesLinksDown
CHECK_DEADLOCK FALSE
