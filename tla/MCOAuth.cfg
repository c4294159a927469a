\* A login to one server, a logout, and one more login, finish or enable, on a
\* fixed callback port or not.
CONSTANTS
  a = a
  f = f
  r = r
  x = x
  s = s
  Tasks = {a, f, r, x}
  Requests <- Logins
  Servers = {s}
  None = None
SPECIFICATION FairSpec
INVARIANT FlowsHaveOneOwner
INVARIANT VerdictsFitServers
PROPERTY RevokedFlowsSaveNothing
PROPERTY WaitsEnd
CHECK_DEADLOCK FALSE
