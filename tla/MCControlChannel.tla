--------------------------- MODULE MCControlChannel ---------------------------
(* An instance of ControlChannel for TLC.                                   *)
EXTENDS ControlChannel

CONSTANTS r1, p1, p2, c1, none
=============================================================================
