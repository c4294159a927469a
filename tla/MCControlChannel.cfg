\* A run, two pushes and a tool call, with every loss of the connection.
CONSTANTS
  r1 = r1
  p1 = p1
  p2 = p2
  c1 = c1
  none = none
  Runs = {r1}
  Pushes = {p1, p2}
  ToolCalls = {c1}
  NoRequest = none
SPECIFICATION FairSpec
INVARIANT AnswersMatch
PROPERTY RpcSpec
PROPERTY CallsReturn
CHECK_DEADLOCK FALSE
