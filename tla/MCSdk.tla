--------------------------------- MODULE MCSdk ---------------------------------
(* The three parts of the SDK side by side for TLC: the names of the         *)
(* functions, one call of a function, and the check of the fields a program  *)
(* reads.  They share no state, so each initial state lets one part move.    *)
EXTENDS SdkNames, SdkCalls, FieldCheck, KeyTrees, TLC

CONSTANTS get, search

VARIABLE part \* the part that moves

-----------------------------------------------------------------------------
(* Names.                                                                  *)

Numerals == {"1", "2", "3"}
NumeralOf == <<"1", "2", "3">>
Reserved == {"import"}
Foreign == {"e'"}

Offer(server, name, leads) ==
  [server |-> server, name |-> name, readOnly |-> "unset", destructive |-> "unset",
   override |-> "unset", leads |-> leads, strong |-> FALSE]

\* Three readers and a writer share one name; other writers have names of their own,
\* one of them a reserved word and one outside ASCII.
Offers ==
  {Offer(<<"g">>, <<"a", "-", "b">>, "read"), Offer(<<"g">>, <<"a", "_", "b">>, "read"),
   Offer(<<"g", "_", "a">>, <<"b">>, "read"), Offer(<<"g">>, <<"a", ".", "b">>, "write"),
   Offer(<<"g">>, <<"put", "_", "e'">>, "write"), Offer(<<"g">>, <<"import">>, "write"),
   Offer(<<"g">>, <<"set", "-", "b">>, "write"),
   [Offer(<<"h">>, <<"a">>, "other") EXCEPT !.strong = TRUE]}

\* A tool is called what another is renamed to.
Suffixed ==
  {Offer(<<"g">>, <<"a", "-", "b">>, "read"), Offer(<<"g">>, <<"a", "_", "b">>, "read"),
   Offer(<<"g">>, <<"a", "_", "b", "_", "1">>, "read")}

\* A writer that is renamed, one that is a reserved word, one outside ASCII.
Renamed ==
  {Offer(<<"g">>, <<"b", "-", "c">>, "read"), Offer(<<"g">>, <<"b", "_", "c">>, "write"),
   [Offer(<<"g">>, <<"import">>, "other") EXCEPT !.readOnly = "false"],
   Offer(<<"g">>, <<"put", "_", "e'">>, "write")}

\* A server whose name begins with a digit.
Digit == {Offer(<<"1">>, <<"a">>, "read"), Offer(<<"g">>, <<"a">>, "read")}

\* A tool whose annotation and override differ.
Overridden == {[Offer(<<"g">>, <<"a">>, "read") EXCEPT !.readOnly = "true", !.override = "true"]}

-----------------------------------------------------------------------------
(* Fields.                                                                 *)

User == ObjectTree([login |-> ScalarTree, name |-> ScalarTree])
Org == ObjectTree([login |-> ScalarTree, plan |-> ObjectTree([seats |-> ScalarTree])])
Bare == ObjectTree([login |-> ScalarTree, plan |-> ObjectTree([trial |-> ScalarTree])])

\* One tool answers with objects of two kinds, the other with an array or an object.
Results == get :> {User, Org}
             @@ search :> {User, ArrayTree(<<Org, User>>), ArrayTree(<<Bare>>), ArrayTree(<<>>)}
Mixed == [t \in SdkFns |-> {FlatValue(v) : v \in Results[t]}]

UserSchema == search :> [items |-> [properties |-> [login |-> [type |-> "string"]]]]
FlatSchemas == [t \in DOMAIN UserSchema |-> FlatSchema(UserSchema[t])]

CallOf(x, t) == [op |-> "call", var |-> x, tool |-> t]
Assign(x) == [op |-> "assign", var |-> x]
Loop(x) == [op |-> "loop", var |-> x]
Use(x, c) == [op |-> "read", var |-> x, chain |-> c]

OfObjects ==
  {<<Sub("login")>>, <<Attr("get")>>, <<Sub("plan"), Sub("seats")>>, <<Sub("plan"), Sub("trial")>>}
OfEither ==
  {<<>>, <<Sub("name")>>, <<Sub("plan"), Sub("trial")>>, <<Index, Sub("name")>>, <<Index, Sub("nane")>>,
   <<Index, Sub("plan"), Sub("trial")>>}

\* One call, and one use of its result.
Straight ==
  {<<CallOf("x", get), Use("x", c)>> : c \in OfObjects}
    \cup {<<CallOf("x", search), Use("x", c)>> : c \in OfEither}

\* The name is bound again: by an assignment, by another call, by a loop.
Assigned == {<<CallOf("x", get), Assign("x"), Use("x", <<Sub("plan")>>)>>}
Rebound ==
  {<<CallOf("x", get), Use("x", <<Sub("name")>>), CallOf("x", search), Use("x", <<Sub("plan")>>)>>,
   <<CallOf("x", get), Loop("x"), Use("x", <<Sub("plan")>>)>>}
Simple == {<<CallOf("x", t), Use("x", c)>> : t \in SdkFns, c \in {<<>>, <<Sub("plan")>>}}

StraightOrAssigned == Straight \cup Assigned
SimpleOrRebound == Simple \cup Rebound

-----------------------------------------------------------------------------

NoSchema == [declared |-> <<>>, required |-> {}]

Init ==
  /\ \/ part = "names" /\ schema = NoSchema /\ text = NoCall
     \/ part = "calls" /\ tools = <<>>
     \/ part = "fields" /\ tools = <<>> /\ schema = NoSchema /\ text = NoCall
  /\ NamesInit /\ CallInit /\ CheckInit

Next ==
  \/ part = "names" /\ NamesNext /\ UNCHANGED <<part, callVars, checkVars>>
  \/ part = "calls" /\ CallNext /\ UNCHANGED <<part, namesVars, checkVars>>
  \/ part = "fields" /\ CheckNext /\ UNCHANGED <<part, namesVars, callVars>>

Spec == Init /\ [][Next]_<<part, namesVars, callVars, checkVars>>

-----------------------------------------------------------------------------

\* The structures the recursion computes from these results, one for each order.
MergedInOrder(t, order) ==
  FoldLeft(MergeTrees, Leaf,
           [i \in DOMAIN order |-> ExtractTree(CHOOSE v \in Results[t] : FlatValue(v) = order[i])])
Merged == [t \in SdkFns |-> [values \in SUBSET Mixed[t] |->
             {MergedInOrder(t, order) : order \in SetToSeqs(values)}]]
FlatMerged == [t \in SdkFns |-> [values \in SUBSET Mixed[t] |->
                 {FlatKeys(keys) : keys \in Merged[t][values]}]]

\* The chains the recursion accepts when the worker has the schema and these.
Joint(t, keys) ==
  IF t \in DOMAIN UserSchema THEN MergeTrees(SchemaTree(UserSchema[t]), keys) ELSE keys
Accepted == [t \in SdkFns |-> [values \in SUBSET Mixed[t] |->
               {{c \in Chains : AcceptedBy(Joint(t, keys), c)} : keys \in Merged[t][values]}]]

\* What has been learned of a tool is what the recursive merge makes of its
\* results, in whatever order they came, and the recursive check with what the
\* worker was sent accepts the same accesses (keyset.rs:18, "merging every
\* observed value").
LearningIgnoresOrder ==
  /\ \A t \in DOMAIN learned : FlatMerged[t][seen.learned[t]] = {learned[t]}
  /\ \A t \in DOMAIN shipped :
       Accepted[t][seen.shipped[t]] = {{c \in Chains : Accepts(shipped[t], c)}}
=============================================================================
