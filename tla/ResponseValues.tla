--------------------------- MODULE ResponseValues ---------------------------
(***************************************************************************)
(* What the data of a response is made of.  A field is a pair of a prefix   *)
(* and a name: <<0, "owner">> is a field of the query, <<1, "id">> is what  *)
(* the code writes "__key1_id".                                            *)
(***************************************************************************)
EXTENDS Integers, SequencesExt

Null == [kind |-> "null"]
Leaf(v) == [kind |-> "leaf", value |-> v]
Object(f) == [kind |-> "object", at |-> f]
List(s) == [kind |-> "list", at |-> s]

Field(n) == <<0, n>>
Key(p, n) == <<p, n>>

\* A step of a path: a field, whether it is a list, and for an element of an
\* abstract type the type that is meant.
AnyType == "any"
Segment(n, list, type) == [field |-> Field(n), list |-> list, type |-> type]

Has(v, f) == v.kind = "object" /\ f \in DOMAIN v.at

\* The place of an object that is to get no entity (Representation::Skip).
Skip == [kind |-> "skip"]
=============================================================================
