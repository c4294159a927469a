-------------------------------- MODULE MCWorker --------------------------------
(* Instances of Worker for TLC.                                             *)
EXTENDS Worker, TLC

CONSTANTS r1, r2, get, del, none

\* The operator disables the mutating tool `del`.
ToolRemoved == <<[fns |-> {del}, mutations |-> {del}], [fns |-> {}, mutations |-> {}]>>

OneSdk == <<[fns |-> {get, del}, mutations |-> {del}]>>

Symmetry == Permutations({r1, r2})
=============================================================================
