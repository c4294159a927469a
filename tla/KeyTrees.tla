------------------------------- MODULE KeyTrees --------------------------------
(***************************************************************************)
(* The recursions of src/src/sdk/keyset.rs and of the check of a chain in  *)
(* src/pyworker/bootstrap.py, on nested records as the source has them,    *)
(* for TLC to compare with the closed forms of KeySets.                    *)
(***************************************************************************)
EXTENDS KeySets, SequencesExt

ScalarTree == [json |-> "leaf"]
ObjectTree(f) == [json |-> "object", fields |-> f]
ArrayTree(s) == [json |-> "array", elements |-> s]

Leaf == [k |-> "leaf"]
ObjectKeys(f) == [k |-> "object", fields |-> f]
ArrayKeys(ks) == [k |-> "array", items |-> ks]

RECURSIVE MergeTrees(_, _)
MergeTrees(a, b) ==
  CASE a.k = "leaf" -> b
    [] a.k # "leaf" /\ b.k = "leaf" -> a
    [] a.k = "object" /\ b.k = "object" ->
         ObjectKeys([x \in DOMAIN a.fields \cup DOMAIN b.fields |->
           IF x \notin DOMAIN b.fields THEN a.fields[x]
           ELSE IF x \notin DOMAIN a.fields THEN b.fields[x]
           ELSE MergeTrees(a.fields[x], b.fields[x])])
    [] a.k = "array" /\ b.k = "array" -> ArrayKeys(MergeTrees(a.items, b.items))
    [] {a.k, b.k} = {"object", "array"} -> IF a.k = "object" THEN a ELSE b

RECURSIVE ExtractTree(_)
ExtractTree(v) ==
  CASE v.json = "leaf" -> Leaf
    [] v.json = "object" -> ObjectKeys([x \in DOMAIN v.fields |-> ExtractTree(v.fields[x])])
    [] v.json = "array" ->
         ArrayKeys(FoldLeft(MergeTrees, Leaf, [i \in DOMAIN v.elements |-> ExtractTree(v.elements[i])]))

Has(schema, field) == field \in DOMAIN schema
Typed(schema, type) == Has(schema, "type") /\ schema.type = type

RECURSIVE SchemaTree(_)
SchemaTree(schema) ==
  IF Typed(schema, "object") \/ Has(schema, "properties")
  THEN ObjectKeys(IF Has(schema, "properties")
                  THEN [x \in DOMAIN schema.properties |-> SchemaTree(schema.properties[x])]
                  ELSE <<>>)
  ELSE IF Typed(schema, "array") \/ Has(schema, "items")
  THEN ArrayKeys(IF Has(schema, "items") THEN SchemaTree(schema.items) ELSE Leaf)
  ELSE Leaf

RECURSIVE EmptyTree(_)
EmptyTree(ks) ==
  \/ ks.k = "leaf"
  \/ ks.k = "object" /\ DOMAIN ks.fields = {}
  \/ ks.k = "array" /\ EmptyTree(ks.items)

\* The loop over the steps of a chain.
RECURSIVE AcceptedBy(_, _)
AcceptedBy(ks, chain) ==
  LET step == Head(chain) IN
  \/ chain = <<>>
  \/ step.step = "index" /\ (ks.k = "array" => AcceptedBy(ks.items, Tail(chain)))
  \/ IsMethod(step)
  \/ /\ step.step # "index"
     /\ \/ ks.k # "object" \/ DOMAIN ks.fields = {}
        \/ step.name \in DOMAIN ks.fields /\ AcceptedBy(ks.fields[step.name], Tail(chain))

-----------------------------------------------------------------------------
(* The same trees as functions from paths.                                 *)

RECURSIVE FlatValue(_)
FlatValue(v) ==
  CASE v.json = "leaf" -> Scalar
    [] v.json = "object" -> Object([x \in DOMAIN v.fields |-> FlatValue(v.fields[x])])
    [] v.json = "array" -> Array([i \in DOMAIN v.elements |-> FlatValue(v.elements[i])])

RECURSIVE FlatKeys(_)
FlatKeys(ks) ==
  Node(ks.k, CASE ks.k = "leaf" -> <<>>
               [] ks.k = "object" ->
                    [l \in {Sub(x) : x \in DOMAIN ks.fields} |-> FlatKeys(ks.fields[l.name])]
               [] ks.k = "array" -> [l \in {Index} |-> FlatKeys(ks.items)])

RECURSIVE FlatSchema(_)
FlatSchema(schema) ==
  LET fields == IF Has(schema, "properties") THEN {Sub(x) : x \in DOMAIN schema.properties} ELSE {}
      items == IF Has(schema, "items") THEN {Index} ELSE {}
  IN Node([type |-> IF Has(schema, "type") THEN schema.type ELSE "none",
           has |-> DOMAIN schema \cap {"properties", "items"}],
          [l \in fields \cup items |->
             FlatSchema(IF l = Index THEN schema.items ELSE schema.properties[l.name])])
=============================================================================
