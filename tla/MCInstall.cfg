\* Three runs of setup within two seconds and more; three updates to five releases.
CONSTANTS
  a = a
  b = b
  codemcp = codemcp
  u1 = u1
  u2 = u2
  u3 = u3
  none = none
  Servers = {a, b}
  Self = codemcp
  MaxRuns = 3
  MaxClock = 2
  Updaters = {u1, u2, u3}
  Versions <- Releases
  Chunks = 2
  Nothing = none
SPECIFICATION Spec
INVARIANT ServersAreKept
INVARIANT WiredHarnessHasServers
INVARIANT ExecutableIsWhole
CHECK_DEADLOCK FALSE
