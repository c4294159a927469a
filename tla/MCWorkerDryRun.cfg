\* A plain run begins while a dry run executes.
CONSTANTS
  r1 = r1
  r2 = r2
  get = get
  del = del
  none = none
  Runs = {r1, r2}
  Fns = {get, del}
  Sdks <- OneSdk
  Mounted = FALSE
  DryRuns = {{r1}, {r2}}
  MaxCalls = 1
  MaxShapes = 0
  Threads = 3
  None = none
SPECIFICATION Spec
SYMMETRY Symmetry
INVARIANT DryRunsWriteNothing
CHECK_DEADLOCK FALSE
