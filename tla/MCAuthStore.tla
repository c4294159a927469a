----------------------------- MODULE MCAuthStore -----------------------------
(* An instance of AuthStore for TLC.                                         *)
EXTENDS AuthStore, TLC

CONSTANTS t1, t2, t3, t4, p1, p2, s1, s2, u1, u2, k1, k2

Ask(kind, server, url, creds) == [kind |-> kind, server |-> server, url |-> url, creds |-> creds]

\* Each gateway saves the tokens of one server; one logs out of the other server,
\* the other loads what the first saved.
TwoGateways == t1 :> Ask("save", s1, u1, k1) @@ t2 :> Ask("save", s2, u1, k2)
                 @@ t3 :> Ask("load", s1, u1, k1) @@ t4 :> Ask("remove", s2, u1, k2)

OfTwo == t1 :> p1 @@ t2 :> p2 @@ t3 :> p2 @@ t4 :> p1
==============================================================================
