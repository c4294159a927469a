-------------------------------- MODULE KeySets --------------------------------
(***************************************************************************)
(* The key structure of a tool's results (src/src/sdk/keyset.rs) and the   *)
(* check of a literal access against it (_validate_field_access in         *)
(* src/pyworker/bootstrap.py).                                             *)
(*                                                                         *)
(* A tree (a JSON value, a schema, a key structure) is a function from the *)
(* paths that lead to its nodes to what is there.  The source recurses     *)
(* over trees; here is what that computes, node by node, so that it can be *)
(* proved about.  KeyTrees has the recursions, for TLC to compare.         *)
(***************************************************************************)
EXTENDS Naturals, Sequences

\* The labels of a path: a field, an element, and any element.
Sub(name) == [step |-> "sub", name |-> name]
At(i) == [step |-> "at", index |-> i]
Index == [step |-> "index"]

\* A tree of a root and, by label, the trees below it.
Node(root, below) ==
  [p \in {<<>>} \cup UNION {{<<l>> \o q : q \in DOMAIN below[l]} : l \in DOMAIN below} |->
     IF p = <<>> THEN root ELSE below[Head(p)][Tail(p)]]

\* Of a value, what a scalar is does not matter.
Scalar == Node("leaf", <<>>)
Object(f) == Node("object", [l \in {Sub(x) : x \in DOMAIN f} |-> f[l.name]])
Array(s) == Node("array", [l \in {At(i) : i \in DOMAIN s} |-> s[l.index]])

NodeKinds == {"leaf", "array", "object"}

\* A node of this kind may have something below it under the label.
Fits(kind, label) == kind = IF label.step = "sub" THEN "object" ELSE "array"

\* The first n steps to a node.
Above(p, n) == SubSeq(p, 1, n)

Labels == [step : {"sub"}, name : STRING] \cup [step : {"at"}, index : Nat]
Places == [step : {"sub"}, name : STRING] \cup {Index}

\* All that is above a node is there, and can have it below.
IsTree(tree, labels) ==
  /\ DOMAIN tree \subseteq Seq(labels)
  /\ \A p \in DOMAIN tree :
       /\ tree[p] \in NodeKinds
       /\ \A i \in DOMAIN p :
            Above(p, i - 1) \in DOMAIN tree /\ Fits(tree[Above(p, i - 1)], p[i])

IsValue(v) == IsTree(v, Labels)
IsKeys(ks) == IsTree(ks, Places)

-----------------------------------------------------------------------------

\* Where the structure keeps a node: the elements of an array share a place.
Place(p) == [i \in DOMAIN p |-> IF p[i].step = "at" THEN Index ELSE p[i]]

\* What a tree says: the kinds found at each place. An array has a place for
\* its elements even if it has none.
Observed(tree) ==
  {<<Place(p), tree[p]>> : p \in DOMAIN tree}
    \cup {<<Append(Place(p), Index), "leaf">> : p \in {q \in DOMAIN tree : tree[q] = "array"}}

\* An object wins over an array and either over a leaf.
Strongest(kinds) ==
  IF "object" \in kinds THEN "object" ELSE IF "array" \in kinds THEN "array" ELSE "leaf"

KindAt(observed, p) == Strongest({o[2] : o \in {x \in observed : x[1] = p}})

\* The structure that holds all that was observed; what is below a kind that
\* lost goes with it.
Joined(observed) ==
  [p \in {o[1] : o \in {x \in observed :
            \A i \in DOMAIN x[1] : Fits(KindAt(observed, Above(x[1], i - 1)), x[1][i])}} |->
     KindAt(observed, p)]

\* A slip: an array is described by its first element.
ExtractFirst(value) ==
  LET first == {p \in DOMAIN value : \A i \in DOMAIN p : p[i].step = "at" => p[i].index = 1}
  IN Joined(Observed([p \in first |-> value[p]]))

Extract(value) == Joined(Observed(value))

\* Slips: the latest result replaces what was learned; of an object and an array,
\* the one that was there first stays.
MergeLatest(a, b) == IF b[<<>>] = "leaf" THEN a ELSE b
MergeStays(a, b) ==
  IF {a[<<>>], b[<<>>]} = {"object", "array"} THEN a ELSE Joined(Observed(a) \cup Observed(b))

Merge(a, b) == Joined(Observed(a) \cup Observed(b))

\* A node of a declared outputSchema is its type, and which of properties and
\* items it has; what it holds besides says nothing of keys.
Declared(node) ==
  IF node.type = "object" \/ "properties" \in node.has THEN "object"
  ELSE IF node.type = "array" \/ "items" \in node.has THEN "array" ELSE "leaf"

FromSchema(schema) == Joined(Observed([p \in DOMAIN schema |-> Declared(schema[p])]))

IsEmpty(ks) == \A p \in DOMAIN ks : \A i \in DOMAIN p : p[i] = Index

-----------------------------------------------------------------------------
(* A chain of literal accesses: x["name"], x.name and x[0], in any order.  *)

Attr(name) == [step |-> "attr", name |-> name]

\* Names of methods of Pending, dict, list and str: no field of the result.
MethodNames == {"result", "get", "items"}
IsMethod(step) == step.step = "attr" /\ step.name \in MethodNames

\* The place the first n steps of a chain lead to.
PlaceOf(chain, n) ==
  [i \in 1 .. n |-> IF chain[i].step = "index" THEN Index ELSE Sub(chain[i].name)]

HasFields(ks, p) ==
  ks[p] = "object" /\ \E q \in DOMAIN ks : Len(q) > Len(p) /\ Above(q, Len(p)) = p

\* A slip: an integer index is looked up in an object like a key.
UndecidedFields(ks, p, step) ==
  \/ step.step = "index" /\ ks[p] = "leaf"
  \/ IsMethod(step)
  \/ step.step = "sub" /\ ks[p] = "leaf"

\* Where the check stops: it cannot say, and accepts.
Undecided(ks, p, step) ==
  \/ step.step = "index" /\ ks[p] # "array"
  \/ IsMethod(step)
  \/ step.step # "index" /\ ~HasFields(ks, p)

\* The check comes to the nth step of the chain, and can say.
Decides(ks, chain, n) ==
  \A i \in 1 .. n :
    PlaceOf(chain, i - 1) \in DOMAIN ks /\ ~Undecided(ks, PlaceOf(chain, i - 1), chain[i])

Accepts(ks, chain) ==
  \A n \in DOMAIN chain : Decides(ks, chain, n) => PlaceOf(chain, n) \in DOMAIN ks

\* What Python does. A dict's fields are no attributes; an index may be any that
\* the array has; what a method returns fits the rest.
Takes(step, label) == step = label \/ (step.step = "index" /\ label.step = "at")

Succeeds(v, chain) ==
  \E p \in DOMAIN v :
    /\ Len(p) <= Len(chain) /\ \A i \in DOMAIN p : Takes(chain[i], p[i])
    /\ Len(p) = Len(chain) \/ IsMethod(chain[Len(p) + 1])
=============================================================================
