SPECIFICATION CastSpec
CONSTANTS
  left1 = left1
  left2 = left2
  right1 = right1
  Launches <- MCThree
  SideOf <- MCSideOf
  ModeOf <- MCModeOf
  LinksPerSide = 2
  OneAtATime = TRUE
  MaxCrashes = 2
INVARIANTS
  IsolatedAlone
  ChildSupervised
  SoleOwner
  EnergisedAccounted
PROPERTIES
  StopLeadsToExit
  CleanExit
CHECK_DEADLOCK FALSE
