------------------------------ MODULE RemoteCall ------------------------------
(***************************************************************************)
(* What ControlHandle promises whoever calls run, reload or set_shapes     *)
(* (src/src/control.rs): a request is taken by the worker at most once and *)
(* never after its connection broke; a call returns the worker's reply to  *)
(* that very request only if the worker took it, reports the connection as *)
(* the reason only if it is gone, times out only if it is a run; and a     *)
(* call returns once.                                                      *)
(***************************************************************************)
EXTENDS Naturals

CONSTANTS Runs, Pushes, NoRequest

VARIABLES
  phase,    \* "idle", "open" or "done", per request
  taken,    \* how often the worker took each request
  outcome,  \* what each call returned
  link      \* "up" or "down"

rpcVars == <<phase, taken, outcome, link>>

Members == Runs \cup Pushes

Init ==
  /\ phase = [r \in Members |-> "idle"]
  /\ taken = [r \in Members |-> 0]
  /\ outcome = [r \in Members |-> [kind |-> "none", of |-> NoRequest]]
  /\ link = "up"

Issue(r) ==
  /\ phase[r] = "idle"
  /\ phase' = [phase EXCEPT ![r] = "open"]
  /\ UNCHANGED <<taken, outcome, link>>

\* A request whose caller has given up may still be taken.
Take(r) ==
  /\ phase[r] # "idle"
  /\ link = "up"
  /\ taken[r] = 0
  /\ taken' = [taken EXCEPT ![r] = 1]
  /\ UNCHANGED <<phase, outcome, link>>

Finish(r, reply) ==
  /\ phase[r] = "open"
  /\ phase' = [phase EXCEPT ![r] = "done"]
  /\ outcome' = [outcome EXCEPT ![r] = reply]
  /\ UNCHANGED <<taken, link>>

Answered(r) ==
  /\ taken[r] = 1
  /\ \E k \in {"answer", "error"} : Finish(r, [kind |-> k, of |-> r])

GivenUp(r) ==
  /\ r \in Runs
  /\ Finish(r, [kind |-> "timeout", of |-> NoRequest])

Disconnected(r) ==
  /\ link = "down"
  /\ \E k \in {"lost", "closed"} : Finish(r, [kind |-> k, of |-> NoRequest])

Break ==
  /\ link = "up"
  /\ link' = "down"
  /\ UNCHANGED <<phase, taken, outcome>>

Next ==
  \/ \E r \in Members : Issue(r) \/ Take(r) \/ Answered(r) \/ GivenUp(r) \/ Disconnected(r)
  \/ Break

Spec == Init /\ [][Next]_rpcVars
=============================================================================
