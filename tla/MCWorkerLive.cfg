\* Two programs of one call each, of which one may be a dry run, and one reload, on
\* Docker: what they are promised, and that a pool of two threads serves them.
CONSTANTS
  r1 = r1
  r2 = r2
  get = get
  del = del
  none = none
  Runs = {r1, r2}
  Fns = {del}
  Sdks <- ToolRemoved
  Mounted = TRUE
  DryRuns = {{}, {r1}}
  MaxCalls = 1
  MaxShapes = 0
  Threads = 2
  None = none
SPECIFICATION FairSpec
PROPERTY PromiseKept
PROPERTY RunsAreServed
CHECK_DEADLOCK FALSE
