------------------------------ MODULE RunPromise -------------------------------
(***************************************************************************)
(* What the worker promises the programs it runs (_exec_user_code and      *)
(* Dispatcher in src/pyworker/bootstrap.py), as if each had it to itself:  *)
(* a program is refused before it does anything, or given the functions of *)
(* one SDK; a writing call of a dry run is stubbed, any other is made once;*)
(* a call is settled once, with what came back for it or because it timed  *)
(* out, and recorded then; and a program that ends reports its record.     *)
(*                                                                         *)
(* Programs that are mixed (they overlapped, or the SDK was reloaded under *)
(* them) are promised less: their calls may be taken for another's, dry or *)
(* not, and be recorded there.                                             *)
(***************************************************************************)
EXTENDS Naturals, Sequences

CONSTANTS Runs, Fns

VARIABLES
  stage,   \* "waiting", "executing", "answered" or "dropped", per run
  dry,     \* its dry_run option
  writers, \* the writing functions of the SDK it was given
  made,    \* its calls, in order: [fn, answer, outcome]
  log,     \* the records of its trace
  report,  \* the trace it returned
  mixed    \* the runs that were not alone

promiseVars == <<stage, dry, writers, made, log, report, mixed>>

Init ==
  /\ stage = [r \in Runs |-> "waiting"]
  /\ dry \in [Runs -> BOOLEAN]
  /\ writers = [r \in Runs |-> {}]
  /\ made = [r \in Runs |-> <<>>]
  /\ log = [r \in Runs |-> <<>>]
  /\ report = [r \in Runs |-> <<>>]
  /\ mixed = {}

Start(r) ==
  /\ stage[r] = "waiting"
  /\ stage' = [stage EXCEPT ![r] = "executing"]
  /\ \E w \in SUBSET Fns : writers' = [writers EXCEPT ![r] = w]
  /\ UNCHANGED <<dry, made, log, report, mixed>>

Refuse(r) ==
  /\ stage[r] = "waiting"
  /\ stage' = [stage EXCEPT ![r] = "answered"]
  /\ UNCHANGED <<dry, writers, made, log, report, mixed>>

Stubs(r, fn) == dry[r] /\ fn \in writers[r]

Makes(r, fn, outcome) ==
  /\ stage[r] = "executing"
  /\ made' = [made EXCEPT ![r] = Append(@, [fn |-> fn, answer |-> "none", outcome |-> outcome])]

\* In the run's own trace, or in that of one it is mixed up with.
Records(r, k, kind) ==
  \E s \in Runs :
    /\ s = r \/ {r, s} \subseteq mixed
    /\ log' = [log EXCEPT ![s] = Append(@, [of |-> <<r, k>>, kind |-> kind])]

Call(r, fn) ==
  /\ Makes(r, fn, "open")
  /\ r \in mixed \/ ~Stubs(r, fn)
  /\ UNCHANGED <<stage, dry, writers, log, report, mixed>>

Stub(r, fn) ==
  /\ Makes(r, fn, "dry_run")
  /\ r \in mixed \/ Stubs(r, fn)
  /\ Records(r, Len(made[r]) + 1, "dry_run")
  /\ UNCHANGED <<stage, dry, writers, report, mixed>>

\* The answer to a call comes once, whether the program waits for it or not.
Answer(r, k, answer) ==
  /\ k \in DOMAIN made[r]
  /\ made[r][k].answer = "none" /\ made[r][k].outcome # "dry_run"
  /\ made' = [made EXCEPT ![r][k].answer = answer]
  /\ UNCHANGED <<stage, dry, writers, log, report, mixed>>

Settle(r, k, outcome) ==
  /\ stage[r] = "executing"
  /\ k \in DOMAIN made[r]
  /\ made[r][k].outcome = "open"
  /\ outcome \in {made[r][k].answer, "timeout"} \ {"none"}
  /\ made' = [made EXCEPT ![r][k].outcome = outcome]
  /\ Records(r, k, outcome)
  /\ UNCHANGED <<stage, dry, writers, report, mixed>>

End(r) ==
  /\ stage[r] = "executing"
  /\ stage' = [stage EXCEPT ![r] = "answered"]
  /\ report' = [report EXCEPT ![r] = log[r]]
  /\ UNCHANGED <<dry, writers, made, log, mixed>>

\* A failed call is all the program was to return: it ends without an answer.
Vanish(r) ==
  /\ stage[r] = "executing"
  /\ \E k \in DOMAIN made[r] : made[r][k].outcome \in {"error", "timeout"}
  /\ stage' = [stage EXCEPT ![r] = "dropped"]
  /\ UNCHANGED <<dry, writers, made, log, report, mixed>>

Mix ==
  /\ mixed' \in SUBSET Runs
  /\ mixed \subseteq mixed'
  /\ UNCHANGED <<stage, dry, writers, made, log, report>>

Next ==
  \/ Mix
  \/ \E r \in Runs :
       \/ Start(r) \/ Refuse(r) \/ End(r) \/ Vanish(r)
       \/ \E fn \in Fns : Call(r, fn) \/ Stub(r, fn)
       \/ \E k \in DOMAIN made[r] :
            \/ \E answer \in {"ok", "error"} : Answer(r, k, answer)
            \/ \E outcome \in {"ok", "error", "timeout"} : Settle(r, k, outcome)

Spec == Init /\ [][Next]_promiseVars
=============================================================================
