\* Two gateways save, load and remove the tokens of two servers.
CONSTANTS
  t1 = t1
  t2 = t2
  t3 = t3
  t4 = t4
  p1 = p1
  p2 = p2
  s1 = s1
  s2 = s2
  u1 = u1
  u2 = u2
  k1 = k1
  k2 = k2
  Tasks = {t1, t2, t3, t4}
  Request <- TwoGateways
  Servers = {s1, s2}
  Urls = {u1, u2}
  Creds = {k1, k2}
  None = None
  Procs = {p1, p2}
  ProcOf <- OfTwo
  Absent = Absent
  Blank = Blank
  Torn = Torn
SPECIFICATION FairSpec
PROPERTY Atomic
PROPERTY OperationsEnd
CHECK_DEADLOCK FALSE
