------------------------------ MODULE Visitor -------------------------------
(***************************************************************************)
(* How the validator walks a document (validation/visitor.rs): the calls    *)
(* that its rules get, in order, each with the stack of types at that time. *)
(*                                                                         *)
(* A visit is [what, node, scope, location, types, expected]: what is       *)
(* entered or left, the operation or fragment it is in, the kind of node    *)
(* that directives are on, the stack, and for an argument or a value the    *)
(* type it should have.  Something that may be missing is a set of at most  *)
(* one element; a type of the stack that is not known is NoType.            *)
(***************************************************************************)
EXTENDS QueryDocument

RootType(op) ==
    CASE op.type = "query" -> "Query"
      [] op.type = "mutation" -> "Mutation"
      [] op.type = "subscription" -> "Subscription"

\* A schema always has a query type, the other two if it defines them.
Configured(op) == op.type = "query" \/ RootType(op) \in DOMAIN Types

OperationScope(n) == [kind |-> "operation", name |-> n]
FragmentScope(n) == [kind |-> "fragment", name |-> n]

-----------------------------------------------------------------------------
(* The stack of types.                                                     *)

Current(v) == IF v.types = <<>> THEN NoType ELSE Last(v.types)

Parent(v) == IF Len(v.types) < 2 THEN NoType ELSE v.types[Len(v.types) - 1]

KnownType(t) == IF t \in DOMAIN Types THEN t ELSE NoType
WithType(v, t) == [v EXCEPT !.types = Append(@, KnownType(t))]

HasField(t, f) == t # NoType /\ f \in DOMAIN Types[t].fields
FieldType(t, f) == IF HasField(t, f) THEN FieldOf(t, f).type.name ELSE NoType

FieldArgs(t, f) == IF HasField(t, f) THEN {FieldOf(t, f).args} ELSE {}
DirectiveArgs(d) == IF d \in DOMAIN Directives THEN {Directives[d].args} ELSE {}
ExpectedOf(args, name) == {a[name].type : a \in {a \in args : name \in DOMAIN a}}

-----------------------------------------------------------------------------
(* The walk.                                                               *)

Visit(v, what, node) == <<[v EXCEPT !.what = what, !.node = node]>>
At(v, location) == [v EXCEPT !.location = location]

\* Mutant: the fields of input objects are passed over.
ItemTypesOfLists(value, expected, name) ==
    {Element(ty) : ty \in {e \in expected : value.kind = "list" /\ IsList(e)}}

\* What the items of a list or an object should be, if it is one where one is
\* expected.
ItemTypes(value, expected, name) ==
    {Element(ty) : ty \in {e \in expected : value.kind = "list" /\ IsList(e)}}
    \cup {Types[ty.name].inputs[name].type :
          ty \in {e \in expected : /\ value.kind = "object" /\ ~IsList(e)
                                   /\ e.name \in DOMAIN Types /\ Types[e.name].kind = "input"
                                   /\ name \in DOMAIN Types[e.name].inputs}}

RECURSIVE VisitInputValue(_, _, _)
VisitInputValue(v, expected, value) ==
    Visit([v EXCEPT !.expected = expected], "value", value)
    \o FlattenSeq([i \in DOMAIN value.items |->
           LET item == value.items[i]
               types == ItemTypes(value, expected, item.name)
           IN IF types = {} THEN <<>> ELSE VisitInputValue(v, types, item.value)])

VisitArguments(v, args, declared) ==
    FlattenSeq([i \in DOMAIN args |->
        LET expected == ExpectedOf(declared, args[i].name)
        IN Visit([v EXCEPT !.expected = expected], "argument", args[i])
           \o VisitInputValue(v, expected, args[i].value)])

VisitDirectives(v, dirs) ==
    FlattenSeq([i \in DOMAIN dirs |->
        Visit(v, "directive", dirs[i])
        \o VisitArguments(v, dirs[i].args, DirectiveArgs(dirs[i].name))
        \o Visit(v, "directive left", dirs[i])])

RECURSIVE VisitSelectionSet(_, _)
VisitField(v, f) ==
    Visit(v, "field", f)
    \o VisitArguments(v, f.args, FieldArgs(Parent(v), f.name))
    \o VisitDirectives(v, f.dirs)
    \o VisitSelectionSet(v, f.sel)
    \o Visit(v, "field left", f)

\* A field of the name __typename is passed over, its directives with it.
VisitSelection(v, s) ==
    CASE s.kind = "field" /\ s.name = Typename -> <<>>
      [] s.kind = "field" /\ s.name # Typename ->
             VisitField(At(WithType(v, FieldType(Current(v), s.name)), "FIELD"), s)
      [] s.kind = "spread" ->
             Visit(v, "spread", s) \o VisitDirectives(At(v, "FRAGMENT_SPREAD"), s.dirs)
      [] s.kind = "inline" ->
             LET inner == At(IF s.on = NoType THEN v ELSE WithType(v, s.on), "INLINE_FRAGMENT")
             IN Visit(inner, "inline", s) \o VisitDirectives(inner, s.dirs)
                \o VisitSelectionSet(inner, s.sel)

VisitSelectionSet(v, sel) ==
    IF sel = <<>> THEN <<>>
    ELSE Visit(v, "selection set", sel) \o FlattenSeq([i \in DOMAIN sel |-> VisitSelection(v, sel[i])])

Outside == [what |-> "document", node |-> <<>>, scope |-> OperationScope(NoType),
            location |-> "NONE", types |-> <<>>, expected |-> {}]

VisitFragmentDefinition(name) ==
    LET body == Fragments[name]
        v == At(WithType([Outside EXCEPT !.scope = FragmentScope(name)], body.on), "FRAGMENT_DEFINITION")
    IN Visit(v, "fragment", body) \o VisitDirectives(v, body.dirs) \o VisitSelectionSet(v, body.sel)

OperationLocation ==
    [query |-> "QUERY", mutation |-> "MUTATION", subscription |-> "SUBSCRIPTION"]

VisitOperationDefinition(name) ==
    LET op == request.operations[name]
        out == [Outside EXCEPT !.scope = OperationScope(name)]
        v == At(WithType(out, RootType(op)), OperationLocation[op.type])
    IN Visit(out, "operation", op)
       \o (IF ~Configured(op) THEN <<>>
           ELSE FlattenSeq([i \in DOMAIN op.defs |-> Visit(v, "variable", op.defs[i])])
                \o VisitDirectives(v, op.dirs) \o VisitSelectionSet(v, op.sel))

\* All the calls for a document, fragments first, as VisitorCons passes them on
\* to every rule.
Visits ==
    LET all(S, Op(_)) == LET names == SetToSeq(S) IN FlattenSeq([i \in DOMAIN names |-> Op(names[i])])
    IN all(DOMAIN Fragments, VisitFragmentDefinition)
       \o all(DOMAIN request.operations, VisitOperationDefinition)

=============================================================================
