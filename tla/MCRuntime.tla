-------------------------------- MODULE MCRuntime --------------------------------
(* An instance of Runtime for TLC.                                           *)
EXTENDS Runtime, TLC

CONSTANTS o1, o2, o3, o4, o5, s1, s2, a, b, k, c1

Op(kind, tool, persist) ==
  [kind |-> kind, server |-> IF tool = a THEN s1 ELSE s2, tool |-> tool, persist |-> persist,
   keys |-> {k}]

OneEach == [t \in Tools |-> IF t = a THEN s1 ELSE s2]

\* Every kind of operation: a is learned, and turned off and its server dropped for
\* good; the other server is connected and b turned on for the session.
OneOfEach == o1 :> Op("disable_tool", a, TRUE) @@ o2 :> Op("enable_tool", b, FALSE)
               @@ o3 :> Op("learn", a, FALSE) @@ o4 :> Op("enable", b, FALSE)
               @@ o5 :> Op("disable", a, TRUE)

\* s1 is enabled and s2 is not; b is off by default.
Configured ==
  [servers |-> (s1 :> TRUE @@ s2 :> FALSE), tools |-> (a :> "unset" @@ b :> "off"),
   overrides |-> {a}, intact |-> TRUE]

\* Both servers are enabled; b is off by default.
OneHidden == [Configured EXCEPT !.servers[s2] = TRUE]
=============================================================================
