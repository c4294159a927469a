\* Two programs of one call each, one reload and one set_shapes push.
CONSTANTS
  r1 = r1
  r2 = r2
  get = get
  del = del
  none = none
  Runs = {r1, r2}
  Fns = {del}
  Sdks <- ToolRemoved
  Mounted = FALSE
  DryRuns = {{}}
  MaxCalls = 1
  MaxShapes = 1
  Threads = 2
  None = none
SPECIFICATION Spec
SYMMETRY Symmetry
INVARIANT ValuesAreOwn
INVARIANT CallsStayServed
INVARIANT RunsSeeEarlierPushes
CHECK_DEADLOCK FALSE
