\* Two gateways, three starts, and one admin command beside them.
SPECIFICATION CSpec
CONSTANTS
  Pids = {p1, p2}
  p1 = p1
  p2 = p2
  NoPid = NoPid
  Docker = {p1}
  Pinned = FALSE
  MaxStarts = 3
  Selectors = {{p1}, {p1, p2}}
  MaxAsks = 1
INVARIANT NoneIsPassedOver
INVARIANT ContainerHasItsNeeds
INVARIANT EndOfInputLeavesNothing
INVARIANT SocketReachesOwner
CHECK_DEADLOCK FALSE
