\* Two servers one with two tools, changes by others, a request that fails.
CONSTANTS
  s1 = s1
  s2 = s2
  a = a
  b = b
  ServerOrder <- TwoServers
  ToolOrder <- TwoTools
  Home <- TheirHome
  MaxOthers = 1
  MaxFaults = 1
SPECIFICATION Spec
INVARIANT CleanScreensAreTrue
PROPERTY TogglesTurnOver
PROPERTY ScreenCatchesUp
CHECK_DEADLOCK FALSE
