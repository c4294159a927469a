------------------------------ MODULE MCUpstreams ------------------------------
(* Instances of Upstreams for TLC.                                          *)
EXTENDS Upstreams, TLC

CONSTANTS c1, c2, a1, a2, a3, a4, a5, s1, s2

AskOf(server, kind) == [kind |-> kind, server |-> server]
Ask(kind) == AskOf(s1, kind)

\* One server is called, connected twice and disconnected, while all are listed
\* and shut down.
EveryKind == c1 :> Ask("call") @@ a1 :> Ask("connect") @@ a2 :> Ask("connect")
               @@ a3 :> Ask("disconnect") @@ a4 :> Ask("list") @@ a5 :> Ask("shutdown")

\* Two servers are called, and the first is disconnected.
OneDisconnect == c1 :> Ask("call") @@ c2 :> AskOf(s2, "call") @@ a1 :> Ask("disconnect")
=============================================================================
