-------------------------------- MODULE SdkCalls --------------------------------
(***************************************************************************)
(* One call of a generated SDK function: the signature made from the       *)
(* tool's input schema (build_binding in src/src/sdk/codegen.rs), the      *)
(* check before the program runs (_validate_call in bootstrap.py), what    *)
(* Python does with the call, and the arguments the tool receives.         *)
(*                                                                         *)
(* Parameters are numbers, in the alphabetical order of their names; None  *)
(* of the values matters, only where each argument comes from.             *)
(***************************************************************************)
EXTENDS Naturals, Sequences, FiniteSets, SequencesExt

CONSTANTS Params,   \* names of parameters, as numbers
          Timeout,  \* the name timeout_ms
          Unknown   \* a name no tool declares

ASSUME NamesAreNumbers ==
  Params \subseteq Nat /\ IsFiniteSet(Params) /\ Timeout \in Nat /\ Unknown \in Nat \ Params
ASSUME TimeoutIsKnown == Timeout # Unknown

KeywordNames == Params \cup {Timeout, Unknown}

\* A schema: its properties in the order declared, and the required ones.
InputSchemas ==
  UNION {{[declared |-> s, required |-> r] : r \in SUBSET Range(s)} :
           s \in {s \in BoundedSeq(Params, Cardinality(Params)) : IsInjective(s)}}

\* A call in the program's text: plain positional arguments, keywords, and
\* whether it spreads a sequence or a mapping that the text does not show.
Texts == [positional : 0 .. Cardinality(Params) + 1, keywords : SUBSET KeywordNames,
          starred : BOOLEAN, spread : BOOLEAN]

VARIABLES
  schema,    \* the tool's input schema
  params,    \* the signature: parameters in order
  text,      \* the call as the program has it
  stage,     \* how far it is: described, written, judged, bound, sent
  bound,     \* what Python binds: a function from parameters to arguments
  received   \* what the tool receives

callVars == <<schema, params, text, stage, bound, received>>

NoCall == [positional |-> 0, keywords |-> {}, starred |-> FALSE, spread |-> FALSE]

CallInit ==
  /\ schema \in InputSchemas
  /\ params = <<>>
  /\ text \in Texts
  /\ stage = "described"
  /\ bound = <<>>
  /\ received = <<>>

-----------------------------------------------------------------------------

Required(p) == p \in schema.required

\* A set of parameters in the order of serde_json's map.
Ranked(s) ==
  [i \in 1 .. Cardinality(s) |-> CHOOSE p \in s : Cardinality({q \in s : q < p}) = i - 1]

\* Required parameters first.
Split(s) == Ranked({p \in s : Required(p)}) \o Ranked({p \in s : ~Required(p)})

\* build_binding.
Describe ==
  /\ stage = "described"
  /\ params' = Split(Range(schema.declared))
  /\ stage' = "written"
  /\ UNCHANGED <<schema, text, bound, received>>

\* Parameters that positional arguments fill.
Given == {params[i] : i \in DOMAIN params \cap (1 .. text.positional)}

TooMany == ~text.starred /\ text.positional > Len(params)

\* A slip: positional arguments are forgotten.
MissingKeywords == ~text.starred /\ ~(schema.required \subseteq text.keywords)

\* A slip: with a positional argument nothing is missing.
MissingAll == text.positional = 0 /\ ~text.starred /\ ~(schema.required \subseteq text.keywords)

Missing == ~text.starred /\ \E p \in schema.required : p \notin text.keywords \cup Given

\* _validate_call. Every generated function takes **_extra, so no keyword is
\* unknown to it; a call that spreads a mapping is not judged.
Validate ==
  /\ stage = "written"
  /\ stage' = IF ~text.spread /\ (TooMany \/ Missing) THEN "rejected" ELSE "accepted"
  /\ UNCHANGED <<schema, params, text, bound, received>>

\* Python's binding, when the spreads turn into more positional arguments and
\* more keywords.
Raises(positional, keywords) ==
  \/ positional > Len(params)
  \/ \E i \in 1 .. positional : params[i] \in keywords
  \/ \E p \in schema.required : p \notin keywords /\ \A i \in 1 .. positional : params[i] # p

\* The call runs: each declared parameter is bound to its argument.
BindArguments(positional, keywords) ==
  /\ stage = "accepted"
  /\ IF Raises(positional, keywords)
     THEN stage' = "raised" /\ UNCHANGED bound
     ELSE /\ stage' = "bound"
          /\ bound' = [p \in Range(params) \cap (keywords \cup {params[i] : i \in 1 .. positional}) |->
                         IF p \in keywords THEN <<"keyword", p>>
                         ELSE <<"positional", CHOOSE i \in 1 .. positional : params[i] = p>>]
  /\ UNCHANGED <<schema, params, text, received>>

\* The generated body packs the arguments under their MCP names and adds
\* timeout_ms; call_tool takes timeout_ms out before it sends.
SendArguments ==
  /\ stage = "bound"
  /\ received' = [p \in DOMAIN bound \ {Timeout} |-> bound[p]]
  /\ stage' = "sent"
  /\ UNCHANGED <<schema, params, text, bound>>

CallNext ==
  \/ Describe \/ Validate \/ SendArguments
  \/ \E more \in 0 .. Cardinality(Params) : \E extra \in SUBSET Params :
       /\ text.starred \/ more = 0
       /\ text.spread \/ extra = {}
       /\ BindArguments(text.positional + more, text.keywords \cup extra)

CallSpec == CallInit /\ [][CallNext]_callVars

-----------------------------------------------------------------------------

Judged == stage \notin {"described", "written"}

\* Every variable keeps its type; a signature lists the schema's properties.
CallTypeOK ==
  /\ schema \in InputSchemas /\ text \in Texts
  /\ stage \in {"described", "written", "accepted", "rejected", "raised", "bound", "sent"}
  /\ stage # "described" => IsInjective(params) /\ Range(params) = Range(schema.declared)
  /\ DOMAIN received \subseteq DOMAIN bound /\ DOMAIN bound \subseteq Range(params)

\* A rejected call would have raised (README.md:599, "The check is deliberately
\* conservative").
RejectedCallsRaise ==
  stage = "rejected" => ~text.starred /\ ~text.spread /\ Raises(text.positional, text.keywords)

\* A call that the text shows to be short of arguments, or to have too many, is
\* rejected before it can raise.
VisibleFaultsAreRejected ==
  stage = "raised" =>
    \/ text.starred \/ text.spread
    \/ \E i \in 1 .. text.positional : params[i] \in text.keywords

-----------------------------------------------------------------------------
(* The invariant behind them.                                              *)

\* A signature is a sequence, and a call that is let through shows no fault.
CallIInv ==
  /\ schema \in InputSchemas /\ text \in Texts
  /\ stage # "described" => params \in Seq({params[i] : i \in DOMAIN params})
  /\ stage \in {"accepted", "bound", "sent"} /\ ~text.spread => ~TooMany /\ ~Missing
  /\ RejectedCallsRaise /\ VisibleFaultsAreRejected

-----------------------------------------------------------------------------
(* What the documentation says, and the code does not do.                  *)

\* The tool receives every argument that the call binds to one of its parameters.
ArgumentsArrive == stage = "sent" => received = bound

\* A keyword that no parameter has is reported (README.md:590, "Unknown keyword
\* arguments").
UnknownKeywordsAreReported ==
  Judged /\ Unknown \in text.keywords /\ ~text.spread => stage = "rejected"

\* The signature keeps the order of the schema, required parameters first
\* (codegen.rs:353, "Preserve declared property order").
DeclaredOrderIsKept ==
  stage # "described" =>
    params = SelectSeq(schema.declared, Required) \o SelectSeq(schema.declared, LAMBDA p : ~Required(p))
=============================================================================
