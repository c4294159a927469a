\* Two of five operations, in any order and overlap, and one restart.
CONSTANTS
  o1 = o1
  o2 = o2
  o3 = o3
  o4 = o4
  o5 = o5
  s1 = s1
  s2 = s2
  a = a
  b = b
  k = k
  c1 = c1
  Ops = {o1, o2, o3, o4, o5}
  Request <- OneOfEach
  Servers = {s1, s2}
  Tools = {a, b}
  ServerOf <- OneEach
  Keys = {k}
  Clients = {c1}
  InitialFile <- Configured
  MaxRequests = 2
  MaxRestarts = 1
SPECIFICATION FairSpec
INVARIANT DescribedIsLoaded
INVARIANT NoChangeIsMissed
INVARIANT LoneOperationsSettle
 
PROPERTY ClientsCatchUp
CHECK_DEADLOCK FALSE
