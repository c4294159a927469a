------------------------------- MODULE MCInstall -------------------------------
(* `codemcp setup` and `codemcp update` side by side for TLC.  They share no  *)
(* state, so each initial state lets one of them move.                       *)
EXTENDS Setup, SelfUpdate

CONSTANTS a, b, codemcp, u1, u2, u3, none

VARIABLE command \* the one that moves

\* 0.5, 0.5.1, 0.6, 0.5.1-rc and 0.10
Releases == {<<0, 5>>, <<0, 5, 1>>, <<0, 6>>, <<0, 5, -1>>, <<0, 10>>}

Init ==
  /\ command \in {"setup", "update"}
  /\ SetupInit /\ (command = "setup" \/ ever = {})
  /\ UpdateInit /\ (command = "update" \/ data[Nothing] = Binary(<<0, 5>>))

Next ==
  \/ command = "setup" /\ SetupNext /\ UNCHANGED <<command, updateVars>>
  \/ command = "update" /\ UpdateNext /\ UNCHANGED <<command, setupVars>>

Spec == Init /\ [][Next]_<<command, setupVars, updateVars>>
=============================================================================
