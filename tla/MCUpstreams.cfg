\* A call of a server that is connected twice, disconnected, listed and shut down.
CONSTANTS
  c1 = c1
  c2 = c2
  a1 = a1
  a2 = a2
  a3 = a3
  a4 = a4
  a5 = a5
  s1 = s1
  s2 = s2
  Tasks = {c1, a1, a2, a3, a4, a5}
  Request <- EveryKind
  Servers = {s1, s2}
  Booted = {s1}
  None = None
SPECIFICATION FairSpec
INVARIANT CallsKeepTheirService
INVARIANT ServicesAreOwned
PROPERTY TasksEnd
CHECK_DEADLOCK FALSE
