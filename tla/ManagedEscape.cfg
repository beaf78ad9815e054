SPECIFICATION ManagedSpec
CONSTANTS
  left1 = left1
  right1 = right1
  Launches <- MCLaunches
  Order <- MCOrder
  SideOf <- MCSideOf
  ModeOf <- MCManaged
  LinksPerSide = 1
  OneAtATime = TRUE
  MaxCrashes = 0
INVARIANTS
  ShutdownChecked
CHECK_DEADLOCK FALSE
