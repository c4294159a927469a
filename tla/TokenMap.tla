------------------------------- MODULE TokenMap -------------------------------
(***************************************************************************)
(* What mcp-auth.json promises to the gateways that share it: a map from   *)
(* servers to credentials on which every load, save and removal takes      *)
(* effect at one instant, or not at all if it fails or its process dies.   *)
(***************************************************************************)
EXTENDS AuthEntries

VARIABLES
  tokens,  \* the map
  stage,   \* "pending", "settled", "failed" or "lost", for each operation
  answer   \* what each settled operation returns

vars == <<tokens, stage, answer>>

Init ==
  /\ tokens \in Maps
  /\ stage = [t \in Tasks |-> "pending"]
  /\ answer = [t \in Tasks |-> None]

Perform(t) ==
  /\ stage[t] = "pending"
  /\ tokens' = Changed(tokens, t)
  /\ answer' = [answer EXCEPT ![t] = Found(tokens, t)]
  /\ stage' = [stage EXCEPT ![t] = "settled"]

Fail(t) ==
  /\ stage[t] = "pending"
  /\ stage' = [stage EXCEPT ![t] = "failed"]
  /\ UNCHANGED <<tokens, answer>>

\* A process dies, with the operations it had under way.
Lose(lost) ==
  /\ \A t \in lost : stage[t] = "pending"
  /\ stage' = [t \in Tasks |-> IF t \in lost THEN "lost" ELSE stage[t]]
  /\ UNCHANGED <<tokens, answer>>

Next == (\E t \in Tasks : Perform(t) \/ Fail(t)) \/ \E lost \in SUBSET Tasks : Lose(lost)

Spec == Init /\ [][Next]_vars
=============================================================================
