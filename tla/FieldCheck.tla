------------------------------- MODULE FieldCheck -------------------------------
(***************************************************************************)
(* Validation of field accesses before a program runs.                     *)
(*                                                                         *)
(* The gateway learns the key structure of each tool's results from the    *)
(* calls of the programs that ran (spawn_shape_learner in runtime.rs),     *)
(* joins it with the declared outputSchemas (build_validation_keysets) and *)
(* pushes the map to the worker, which rejects a program whose literal     *)
(* access is not in it (_validate_field_access in bootstrap.py).  A        *)
(* program is a sequence of statements: x = tool(), another binding of x,  *)
(* or the use of a literal access chain on x.                              *)
(***************************************************************************)
EXTENDS KeySets, FiniteSets

CONSTANTS SdkFns,    \* SDK functions
          Returns,   \* [SdkFns -> values the tool may return]
          Schemas,   \* declared outputSchemas: a function on some of them
          Programs,  \* sequences of statements
          MaxEvents  \* results waiting for the learner

Accesses == [step : {"sub", "attr"}, name : STRING] \cup {Index}
Statements ==
  [op : {"call"}, var : STRING, tool : SdkFns] \cup [op : {"assign", "loop"}, var : STRING]
    \cup [op : {"read"}, var : STRING, chain : Seq(Accesses)]

ASSUME ConstantsFit ==
  /\ DOMAIN Returns = SdkFns /\ \A t \in SdkFns : \A v \in Returns[t] : IsValue(v)
  /\ DOMAIN Schemas \subseteq SdkFns
  /\ Programs \subseteq Seq(Statements)
  /\ MaxEvents \in Nat

Values == UNION {Returns[t] : t \in SdkFns}
ResultSets == {f \in [SdkFns -> SUBSET Values] : \A t \in SdkFns : f[t] \subseteq Returns[t]}

Calls(p) == {i \in DOMAIN p : p[i].op = "call"}
Reads(p) == {i \in DOMAIN p : p[i].op = "read"}

VARIABLES
  events,   \* the learner's channel: results in the order they came
  learned,  \* RuntimeInner.keysets: a function on the tools seen so far
  shipped,  \* SdkHolder.keysets: a function on some tools
  seen,     \* history: the values learned from, and those also shipped
  verdict   \* history: the program submitted last and what came of it

checkVars == <<events, learned, shipped, seen, verdict>>

None == [program |-> <<>>, rejected |-> FALSE, known |-> [t \in SdkFns |-> {}]]

Useful(keys) == [t \in {u \in DOMAIN keys : ~IsEmpty(keys[u])} |-> keys[t]]

\* The declared schemas that say something.
Seeds == Useful([t \in DOMAIN Schemas |-> FromSchema(Schemas[t])])

CheckInit ==
  /\ events = <<>>
  /\ learned = <<>>
  /\ shipped = Seeds
  /\ seen = [learned |-> [t \in SdkFns |-> {}], shipped |-> [t \in SdkFns |-> {}]]
  /\ verdict = None

-----------------------------------------------------------------------------
(* The validator.                                                          *)

Binds(p, x) == {i \in DOMAIN p : p[i].op # "read" /\ p[i].var = x}

\* Bindings that are plain assignments; a loop's target is not one.
Assigns(p, x) == {i \in Binds(p, x) : p[i].op \in {"call", "assign"}}

\* x = tool() for a tool whose keys are known.
KnownCalls(p, x) == {i \in Assigns(p, x) : p[i].op = "call" /\ p[i].tool \in DOMAIN shipped}

\* A slip: one call of a known tool is enough.
TrackedOnce(p, x) == KnownCalls(p, x) # {}

\* A name is tracked while every assignment of it is the call of a known tool.
Tracked(p, x) == KnownCalls(p, x) # {} /\ KnownCalls(p, x) = Assigns(p, x)

\* The last call assigned to a name stands for all its uses.
LastCall(p, x) == CHOOSE i \in KnownCalls(p, x) : \A j \in KnownCalls(p, x) : j <= i

\* The uses the validator reports.
Reported(p) ==
  {i \in Reads(p) :
     /\ Tracked(p, p[i].var)
     /\ ~Accepts(shipped[p[LastCall(p, p[i].var)].tool], p[i].chain)}

-----------------------------------------------------------------------------

\* execute_python: a program with a reported use does not run; the others
\* call their tools, whose results go to the learner.
Submit(p) ==
  /\ Len(events) + Cardinality(Calls(p)) <= MaxEvents
  /\ verdict' = [program |-> p, rejected |-> Reported(p) # {}, known |-> seen.shipped]
  /\ IF Reported(p) # {}
     THEN UNCHANGED events
     ELSE \E value \in [Calls(p) -> Values],
             nth \in [1 .. Cardinality(Calls(p)) -> Calls(p)] :
            /\ \A i \in Calls(p) : value[i] \in Returns[p[i].tool]
            /\ \A m, n \in DOMAIN nth : m < n => nth[m] < nth[n]
            /\ events' = events \o
                 [n \in DOMAIN nth |-> [tool |-> p[nth[n]].tool, value |-> value[nth[n]]]]
  /\ UNCHANGED <<learned, shipped, seen>>

\* The learner takes one result and joins its keys to what it has.
LearnKeys ==
  /\ events # <<>>
  /\ LET t == Head(events).tool
         keys == Extract(Head(events).value)
     IN /\ learned' = [u \in DOMAIN learned \cup {t} |->
              IF u # t THEN learned[u]
              ELSE IF t \in DOMAIN learned THEN Merge(learned[t], keys) ELSE keys]
        /\ seen' = [seen EXCEPT !.learned[t] = @ \cup {Head(events).value}]
  /\ events' = Tail(events)
  /\ UNCHANGED <<shipped, verdict>>

\* What the worker is sent: the schemas with what was learned joined to them.
Validation ==
  Useful([t \in DOMAIN Seeds \cup DOMAIN learned |->
            IF t \notin DOMAIN learned THEN Seeds[t]
            ELSE IF t \notin DOMAIN Seeds THEN learned[t] ELSE Merge(Seeds[t], learned[t])])

\* regenerate_and_reload pushes the map, which replaces the worker's.
ShipKeys ==
  /\ shipped' = Validation
  /\ seen' = [seen EXCEPT !.shipped = seen.learned]
  /\ UNCHANGED <<events, learned, verdict>>

CheckNext == LearnKeys \/ ShipKeys \/ \E p \in Programs : Submit(p)

CheckSpec == CheckInit /\ [][CheckNext]_checkVars

-----------------------------------------------------------------------------
(* What Python does with a program.                                        *)

\* The binding that a use at i reads, if there is one.
Binding(p, i) ==
  LET before == {j \in Binds(p, p[i].var) : j < i} IN {j \in before : \A h \in before : h <= j}

\* Every use succeeds, when each call returns a value of the given sets;
\* what other bindings hold fits their uses.
MaySucceed(p, values) ==
  \E value \in [Calls(p) -> UNION {values[t] : t \in SdkFns}] :
    /\ \A i \in Calls(p) : value[i] \in values[p[i].tool]
    /\ \A i \in Reads(p) : \E j \in Binding(p, i) :
         j \in Calls(p) => Succeeds(value[j], p[i].chain)

BoundOnce(p, x) == \A i, j \in Binds(p, x) : i = j

\* A name used is bound once, or also by an assignment that is no call.
Plain(p) ==
  \A i \in Reads(p) :
    BoundOnce(p, p[i].var) \/ \E j \in Binds(p, p[i].var) : p[j].op = "assign"

-----------------------------------------------------------------------------

Chains == UNION {{p[i].chain : i \in Reads(p)} : p \in Programs}

\* Every variable keeps its type.
CheckTypeOK ==
  /\ events \in Seq([tool : SdkFns, value : Values]) /\ Len(events) <= MaxEvents
  /\ DOMAIN learned \subseteq SdkFns
  /\ DOMAIN shipped \subseteq SdkFns /\ \A t \in DOMAIN shipped : ~IsEmpty(shipped[t])
  /\ seen \in [learned : ResultSets, shipped : ResultSets]
  /\ \A t \in SdkFns : seen.shipped[t] \subseteq seen.learned[t]
  /\ verdict \in [program : Programs \cup {<<>>}, rejected : BOOLEAN, known : ResultSets]

\* An access that works on a result the worker's map was built from is accepted,
\* whatever was merged with that result since (keyset.rs:19, "a key present in
\* any variant is accepted").
SeenAccessesAreAccepted ==
  \A t \in DOMAIN shipped : \A v \in seen.shipped[t] : \A c \in Chains :
    Succeeds(v, c) => Accepts(shipped[t], c)

\* A rejected program fails on every result the worker's map was built from,
\* unless a name is bound again by a call or a loop.
RejectionsAreEarned ==
  verdict.rejected /\ Plain(verdict.program) => ~MaySucceed(verdict.program, verdict.known)

\* What has been learned of a tool is what all its results together say, in
\* whatever order and however often they came (keyset.rs:18, "merging every
\* observed value").
LearnedFromTheSet ==
  \A t \in DOMAIN learned : learned[t] = Joined(UNION {Observed(v) : v \in seen.learned[t]})

-----------------------------------------------------------------------------
(* The invariant behind them.                                              *)

\* The structure has a node of this kind here, or a stronger one, or an object
\* further up has won over the array that it was in.
Kept(ks, p, kind) ==
  \/ p \in DOMAIN ks /\ Strongest({kind, ks[p]}) = ks[p]
  \/ \E i \in DOMAIN p :
       Above(p, i - 1) \in DOMAIN ks /\ ks[Above(p, i - 1)] = "object" /\ p[i] = Index

Covers(ks, v) == \A p \in DOMAIN v : Kept(ks, Place(p), v[p])

EventsAreReturned == \A i \in DOMAIN events : events[i].value \in Returns[events[i].tool]

LearnedIsCovered ==
  /\ \A t \in DOMAIN learned : IsKeys(learned[t])
  /\ \A t \in SdkFns : \A v \in seen.learned[t] : t \in DOMAIN learned /\ Covers(learned[t], v)

ShippedIsCovered == \A t \in DOMAIN shipped : \A v \in seen.shipped[t] : Covers(shipped[t], v)

CheckIInv ==
  /\ CheckTypeOK /\ EventsAreReturned
  /\ LearnedFromTheSet /\ LearnedIsCovered /\ ShippedIsCovered /\ RejectionsAreEarned

-----------------------------------------------------------------------------
(* What is said of the check and does not hold.                            *)

\* Learning never forgets a key (keyset.rs:115, "previously-learned keys are
\* never dropped").
KeysAreNeverDropped ==
  [][\A t \in DOMAIN learned : DOMAIN learned[t] \subseteq DOMAIN learned'[t]]_checkVars

\* A rejected program would fail whatever its tools return (keyset.rs:14, "key
\* not in set" is a trustworthy signal).
RejectedProgramsFail == verdict.rejected => ~MaySucceed(verdict.program, Returns)

\* A program that binds its names anew is not rejected (README.md:651, "reassigned
\* ... is left alone").
ReassignedIsLeftAlone ==
  verdict.rejected =>
    \E i \in Reads(verdict.program) : BoundOnce(verdict.program, verdict.program[i].var)
=============================================================================
