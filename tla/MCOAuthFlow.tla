----------------------------- MODULE MCOAuthFlow -----------------------------
(* An instance of OAuthFlow for TLC.                                         *)
EXTENDS OAuthFlow, TLC

CONSTANTS a, f, r, x, s

For(kind) == [kind |-> kind, server |-> s]

\* A login to one server, in two requests, a logout, and one more request.
Logins ==
  {a :> For("start") @@ f :> For("finish") @@ r :> For("remove") @@ x :> For(kind) :
     kind \in {"start", "finish", "enable"}}
=============================================================================
