-------------------------------- MODULE SdkNames --------------------------------
(***************************************************************************)
(* The functions of the generated SDK: their names, which tool each calls, *)
(* and which of them write (src/src/sdk/codegen.rs, src/src/sdk/mod.rs);   *)
(* what the worker makes of the module (bootstrap.py).                     *)
(*                                                                         *)
(* A name is a sequence of chunks: "_", a separator, a number, a word.     *)
(* Only how chunks are turned into identifiers matters, not their letters. *)
(***************************************************************************)
EXTENDS Naturals, Sequences, SequencesExt

CONSTANTS Catalog,    \* tools that servers may offer
          Numbers,    \* chunks that begin with a digit
          Keywords,   \* words that Python reserves
          Accented,   \* words outside ASCII, of one letter
          Suffix,     \* [1 .. MaxTools -> numbers as chunks]
          MaxTools    \* tools offered at once

Hints == {"unset", "true", "false"}

\* A tool: what it is called, its annotations, the operator's override, and
\* what its words suggest.
Described(t) ==
  /\ t.server \in Seq(STRING) /\ t.name \in Seq(STRING)
  /\ {t.readOnly, t.destructive, t.override} \subseteq Hints
  /\ t.leads \in {"read", "write", "other"} /\ t.strong \in BOOLEAN

ASSUME CatalogDescribed == \A t \in Catalog : Described(t)
ASSUME SuffixesFit == \A n \in 1 .. MaxTools : Suffix[n] \in Numbers

Separators == {"-", ".", " "}

ASSUME UnderscoreIsPlain == "_" \notin Numbers \cup Keywords

-----------------------------------------------------------------------------
(* Names.                                                                  *)

\* sanitize_ident: ASCII letters and digits stay, a leading digit is set off,
\* a reserved word gets a trailing underscore.
Sanitize(raw) ==
  LET clean == [i \in DOMAIN raw |-> IF raw[i] \in Separators \cup Accented THEN "_" ELSE raw[i]]
      led == IF clean = <<>> \/ clean[1] \in Numbers THEN <<"_">> \o clean ELSE clean
  IN IF Len(led) = 1 /\ led[1] \in Keywords THEN led \o <<"_">> ELSE led

FnName(server, tool) == Sanitize(server) \o <<"_">> \o Sanitize(tool)

\* A slip: the worker looks a tool up by the name the server gave it.
WorkerFnNameRaw(server, tool) == server \o <<"_">> \o tool

\* The worker's own version of the name, for the set of writing functions.
WorkerFnName(server, tool) ==
  LET san(x) == [i \in DOMAIN x |-> IF x[i] \in Separators THEN "_" ELSE x[i]] IN
  san(server) \o <<"_">> \o san(tool)

\* classify_mutation.
Writes(t) ==
  IF t.override # "unset" THEN t.override = "true"
  ELSE IF t.readOnly # "unset" THEN t.readOnly = "false"
  ELSE \/ t.destructive = "true"
       \/ t.leads = "write"
       \/ t.leads = "other" /\ t.strong

-----------------------------------------------------------------------------

VARIABLES
  tools,     \* the discovered tools, in order
  bindings,  \* SdkRegistry.bindings: [fn, tool, writes]
  count,     \* `seen` of build_with_overrides: uses of a name so far
  route,     \* SdkRegistry.route: a function from names to tools
  imported,  \* the worker's module: [functions, mutations], or not loaded
  dry,       \* the run's dry_run option
  calls      \* history: what came of the calls, [fn, tool, dry, stub]

namesVars == <<tools, bindings, count, route, imported, dry, calls>>

NotLoaded == [functions |-> <<>>, mutations |-> {}, loaded |-> FALSE]

NamesInit ==
  /\ tools \in {s \in BoundedSeq(Catalog, MaxTools) : IsInjective(s)}
  /\ bindings = <<>>
  /\ count = <<>>
  /\ route = <<>>
  /\ imported = NotLoaded
  /\ dry = FALSE
  /\ calls = {}

Uses(fn) == IF fn \in DOMAIN count THEN count[fn] ELSE 0

\* A name used before gets the number of its uses as a suffix.
Numbered(fn) == IF Uses(fn) > 0 THEN fn \o <<"_", Suffix[Uses(fn)]>> ELSE fn

\* A function that differs from f at x.
With(f, x, y) == [z \in DOMAIN f \cup {x} |-> IF z = x THEN y ELSE f[z]]

\* A slip: the route keeps the name without its suffix.
BindUnnumbered ==
  /\ Len(bindings) < Len(tools)
  /\ LET t == tools[Len(bindings) + 1]
         base == FnName(t.server, t.name)
         fn == Numbered(base)
     IN /\ bindings' = Append(bindings, [fn |-> fn, tool |-> t, writes |-> Writes(t)])
        /\ count' = With(count, base, Uses(base) + 1)
        /\ route' = With(route, base, t)
  /\ UNCHANGED <<tools, imported, dry, calls>>

\* build_with_overrides, one tool.
Bind ==
  /\ Len(bindings) < Len(tools)
  /\ LET t == tools[Len(bindings) + 1]
         base == FnName(t.server, t.name)
         fn == Numbered(base)
     IN /\ bindings' = Append(bindings, [fn |-> fn, tool |-> t, writes |-> Writes(t)])
        /\ count' = With(count, base, Uses(base) + 1)
        /\ route' = With(route, fn, t)
  /\ UNCHANGED <<tools, imported, dry, calls>>

IsLast(bs, fn, i) == bs[i].fn = fn /\ \A j \in DOMAIN bs : bs[j].fn = fn => j <= i

LastOf(bs, fn) == CHOOSE i \in DOMAIN bs : IsLast(bs, fn, i)

\* The functions of the module once its statements have run: a later definition
\* hides an earlier one.
Defined(bs) == [fn \in {bs[i].fn : i \in DOMAIN bs} |-> bs[LastOf(bs, fn)].tool]

Mutations == {bindings[i].fn : i \in {j \in DOMAIN bindings : bindings[j].writes}}

\* generate_sdk_py and its import.
Load ==
  /\ Len(bindings) = Len(tools)
  /\ ~imported.loaded
  /\ imported' = [functions |-> Defined(bindings), mutations |-> Mutations, loaded |-> TRUE]
  /\ UNCHANGED <<tools, bindings, count, route, dry, calls>>

\* The names a program finds: private ones are left out.
Namespace == {fn \in DOMAIN imported.functions : fn[1] # "_"}

BeginRun(option) ==
  /\ imported.loaded
  /\ dry' = option
  /\ UNCHANGED <<tools, bindings, count, route, imported, calls>>

\* Dispatcher.call_tool: under dry_run, a writing call is answered by a stub.
Stubbed(t) == dry /\ WorkerFnName(t.server, t.name) \in imported.mutations

Call(fn) ==
  /\ fn \in Namespace
  /\ LET t == imported.functions[fn] IN
     calls' = calls \cup {[fn |-> fn, tool |-> t, dry |-> dry, stub |-> Stubbed(t)]}
  /\ UNCHANGED <<tools, bindings, count, route, imported, dry>>

NamesNext ==
  \/ Bind \/ Load
  \/ \E option \in BOOLEAN : BeginRun(option)
  \/ \E fn \in Namespace : Call(fn)

NamesSpec == NamesInit /\ [][NamesNext]_namesVars

-----------------------------------------------------------------------------

\* Every variable keeps its type.
NamesTypeOK ==
  /\ Len(tools) <= MaxTools /\ Range(tools) \subseteq Catalog
  /\ \A i \in DOMAIN bindings :
       bindings[i].tool = tools[i] /\ bindings[i].fn # <<>> /\ bindings[i].fn[1] \notin Numbers
  /\ \A fn \in DOMAIN count :
       count[fn] = Len(SelectSeq(bindings, LAMBDA b : FnName(b.tool.server, b.tool.name) = fn))
  /\ Range(route) \subseteq Range(tools)
  /\ imported.mutations \subseteq DOMAIN imported.functions

\* The gateway, which finds a function's learned keys by its route, and the worker,
\* which runs the module, mean the same tool by a name.
RoutesMatchTheModule == imported.loaded => imported.functions = route

\* Words that generator and worker turn into the same identifier.
Ordinary(raw) ==
  /\ raw # <<>> /\ raw[1] \notin Numbers
  /\ \A i \in DOMAIN raw : raw[i] \notin Accented
  /\ Len(raw) = 1 => raw[1] \notin Keywords

Base(t) == FnName(t.server, t.name)

\* Another tool has the same name.
Shares(t) == \E u \in Range(tools) \ {t} : Base(u) = Base(t)

\* What a dry run gets wrong, in any catalog: a writing call is sent upstream only
\* if its tool has an unusual name or shares it with another; a reading call is
\* answered by a stub only if its tool has an unusual name or a function that writes
\* is called as the tool should be; and a plain run stubs nothing (Dispatcher.call_tool
\* in bootstrap.py; README.md:830, "mutating calls are not sent upstream"; 832, "read
\* calls execute normally").
DryRunErrsOnNamesOnly ==
  \A c \in calls :
    LET t == c.tool
        ordinary == Ordinary(t.server) /\ Ordinary(t.name)
    IN /\ c.stub => c.dry
       /\ c.dry /\ Writes(t) /\ ~ c.stub => ~ ordinary \/ Shares(t)
       /\ c.stub /\ ~ Writes(t) =>
            ~ ordinary \/ \E i \in DOMAIN bindings : bindings[i].writes /\ bindings[i].fn = Base(t)

-----------------------------------------------------------------------------
(* The invariant behind them.                                              *)

\* The tools are bound in their order, each name with its uses; the route of a name
\* leads to the tool that was bound to it last.
BoundInOrder ==
  /\ tools \in Seq(Catalog) /\ IsInjective(tools)
  /\ bindings \in Seq({bindings[i] : i \in DOMAIN bindings}) /\ Len(bindings) <= Len(tools)
  /\ \A i \in DOMAIN bindings :
       bindings[i].tool = tools[i] /\ bindings[i].writes = Writes(tools[i])
  /\ DOMAIN count = {FnName(tools[i].server, tools[i].name) : i \in DOMAIN bindings}
  /\ route = Defined(bindings)
  /\ \A fn \in DOMAIN route : \E i \in DOMAIN bindings : IsLast(bindings, fn, i)

\* The module has every binding, or nothing yet.
LoadedWhole ==
  /\ imported.loaded => /\ Len(bindings) = Len(tools)
                        /\ imported.functions = route /\ imported.mutations = Mutations
  /\ ~imported.loaded => imported.functions = <<>> /\ calls = {}

NamesIInv == BoundInOrder /\ LoadedWhole

\* A tool that shares its name with no other keeps it.
LoneNamesAreKept ==
  \A i \in DOMAIN bindings : Shares(tools[i]) \/ bindings[i].fn = Base(tools[i])

-----------------------------------------------------------------------------
(* What the documentation says of every catalog, and some refute.          *)

\* No two tools get the same function (mod.rs:71, "Disambiguate any accidental
\* fn-name collisions across servers").
FunctionsAreDistinct ==
  \A i, j \in DOMAIN bindings : bindings[i].fn = bindings[j].fn => i = j

\* Under dry_run no writing tool is reached (README.md:830, "mutating calls are not
\* sent upstream").
DryRunWritesNothing ==
  \A c \in calls : c.dry /\ Writes(c.tool) => c.stub

\* A program finds every function of the description (prompt.rs:36, "All SDK
\* functions below are ALREADY IMPORTED").
DescribedIsCallable ==
  imported.loaded => \A i \in DOMAIN bindings : bindings[i].fn \in Namespace

\* An annotation decides whether a tool writes, whatever the override says
\* (README.md:803, "in priority order: the MCP annotation, then an operator override").
AnnotationsComeFirst ==
  \A i \in DOMAIN bindings :
    bindings[i].tool.readOnly # "unset" => bindings[i].writes = (bindings[i].tool.readOnly = "false")
=============================================================================
