----------------------------- MODULE Validation -----------------------------
(***************************************************************************)
(* The validator's rules (validation/rules).  A rule is the set of what it  *)
(* reports, given the visits of a document: visits at which it reports, or  *)
(* the names it reports at the end.  A document with a report is refused.   *)
(***************************************************************************)
EXTENDS Visitor, FragmentSearch

Of(visits, what) == {visits[i] : i \in {i \in DOMAIN visits : visits[i].what = what}}

-----------------------------------------------------------------------------
(* What the rules ask of types (schema/composed_schema.rs, type_ext.rs).   *)

IsComposite(t) == Types[t].kind \in {"object", "interface", "union"}
IsLeaf(t) == Types[t].kind \in {"enum", "scalar"}
IsInput(t) == Types[t].kind \in {"enum", "scalar", "input"}

IsPossibleType(t, name) ==
    IF IsAbstract(t) THEN name \in Range(Types[t].possible) ELSE Types[t].kind = "object" /\ t = name

\* Mutant: an abstract type is spread wherever a type it may be is spread.
TypeOverlapLoose(t, other) == t = other \/ IsAbstract(t) \/ IsAbstract(other)

TypeOverlap(t, other) ==
    \/ t = other
    \/ IsAbstract(t) /\ IsAbstract(other) /\ \E p \in Range(Types[t].possible) : IsPossibleType(other, p)
    \/ IsAbstract(t) /\ ~IsAbstract(other) /\ IsPossibleType(t, other)
    \/ ~IsAbstract(t) /\ IsAbstract(other) /\ IsPossibleType(other, t)

\* Mutant: the types of a list's elements are taken for what they are called.
IsSubtypeOutside(ty, sub) ==
    /\ ty.name = sub.name /\ Len(ty.nulls) = Len(sub.nulls)
    /\ sub.nulls[1] => ty.nulls[1]

\* Whether a variable of type sub may stand where ty is expected.
IsSubtype(ty, sub) ==
    /\ ty.name = sub.name /\ Len(ty.nulls) = Len(sub.nulls)
    /\ \A i \in DOMAIN ty.nulls : sub.nulls[i] => ty.nulls[i]

-----------------------------------------------------------------------------
(* Values (validation/utils.rs).                                           *)

ScalarKinds ==
    [Int |-> {"int"}, Float |-> {"int", "float"}, String |-> {"string"},
     Boolean |-> {"boolean"}, ID |-> {"string", "int"}]

IsValidScalar(name, value) == name \in DOMAIN ScalarKinds => value.kind \in ScalarKinds[name]

Required(declared) == ~declared.type.nulls[1] /\ declared.default = {}

RECURSIVE IsValidInputValue(_, _)
IsValidInputValue(ty, value) ==
    IF value.kind = "null" THEN ty.nulls[1]
    ELSE IF IsList(ty)
    THEN IF value.kind = "list"
         THEN \A item \in Range(value.items) : IsValidInputValue(Element(ty), item.value)
         ELSE IsValidInputValue(Element(ty), value)
    ELSE ty.name \in DOMAIN Types =>
         LET t == Types[ty.name]
         IN CASE t.kind = "scalar" -> IsValidScalar(ty.name, value)
              [] t.kind = "enum" -> value.kind \in {"enum", "string"} /\ value.text \in DOMAIN t.values
              [] t.kind = "input" ->
                     /\ value.kind = "object"
                     /\ \A item \in Range(value.items) : item.name \in DOMAIN t.inputs
                     /\ \A name \in DOMAIN t.inputs :
                            /\ FirstNamed(value.items, name) = {} => ~Required(t.inputs[name])
                            /\ \A item \in FirstNamed(value.items, name) :
                                   IsValidInputValue(t.inputs[name].type, item.value)
              [] OTHER -> TRUE

\* A value with the request's variables in it; it has none if one is not given.
RECURSIVE IntoConst(_)
IntoConst(value) ==
    IF value.kind = "variable" THEN request.given[value.text]
    ELSE [value EXCEPT !.items = [i \in DOMAIN @ |-> [@[i] EXCEPT !.value = IntoConst(@)]]]

Const(value) == IF VariablesOf(value) \subseteq DOMAIN request.given THEN {IntoConst(value)} ELSE {}

-----------------------------------------------------------------------------
(* The rules that look at one visit.                                       *)

ArgumentsOfCorrectType(visits) ==
    {v \in Of(visits, "argument") :
        \E ty \in v.expected, value \in Const(v.node.value) : ~IsValidInputValue(ty, value)}

DefaultValuesOfCorrectType(visits) ==
    {v \in Of(visits, "variable") :
        \E value \in v.node.default : ~v.node.type.nulls[1] \/ ~IsValidInputValue(v.node.type, value)}

FieldsOnCorrectType(visits) ==
    {v \in Of(visits, "field") : Parent(v) # NoType /\ v.node.name \notin DOMAIN Types[Parent(v)].fields}

FragmentsOnCompositeTypes(visits) ==
    {v \in Of(visits, "fragment") \cup Of(visits, "inline") :
        Current(v) # NoType /\ ~IsComposite(Current(v))}

\* What is declared stays that of the field around, for a field that is not known.
KnownArgumentNames(visits) ==
    FoldLeft(LAMBDA s, v :
                 CASE v.what = "directive" -> [s EXCEPT !.args = DirectiveArgs(v.node.name)]
                   [] v.what = "field" /\ HasField(Parent(v), v.node.name) ->
                          [s EXCEPT !.args = FieldArgs(Parent(v), v.node.name)]
                   [] v.what \in {"field left", "directive left"} -> [s EXCEPT !.args = {}]
                   [] v.what = "argument" /\ (\E a \in s.args : v.node.name \notin DOMAIN a) ->
                          [s EXCEPT !.reported = @ \cup {v.node.name}]
                   [] OTHER -> s,
             [args |-> {}, reported |-> {}], visits).reported

KnownDirectives(visits) ==
    {v \in Of(visits, "directive") :
        \/ v.node.name \notin DOMAIN Directives
        \/ v.location \notin Directives[v.node.name].locations}

KnownFragmentNames(visits) ==
    {v \in Of(visits, "spread") : v.node.fragment \notin DOMAIN Fragments}

KnownTypeNames(visits) ==
    LET inlines == {v \in Of(visits, "inline") : v.node.on # NoType}
        named == {v.node.on : v \in Of(visits, "fragment") \cup inlines}
                     \cup {v.node.type.name : v \in Of(visits, "variable")}
    IN named \ DOMAIN Types

\* A spread is held against the current type, an inline fragment on a type, which
\* has pushed its own, against the parent.
PossibleFragmentSpreads(visits) ==
    LET apart(t, on) == t # NoType /\ on \in DOMAIN Types /\ ~TypeOverlap(t, on)
    IN {v \in Of(visits, "spread") :
            v.node.fragment \in DOMAIN Fragments /\ apart(Current(v), Fragments[v.node.fragment].on)}
       \cup {v \in Of(visits, "inline") : v.node.on # NoType /\ apart(Parent(v), v.node.on)}

ProvidedNonNullArguments(visits) ==
    LET lacks(node, declared) ==
            \E a \in declared : \E name \in DOMAIN a :
                Required(a[name]) /\ \A i \in DOMAIN node.args : node.args[i].name # name
    IN {v \in Of(visits, "directive") : lacks(v.node, DirectiveArgs(v.node.name))}
       \cup {v \in Of(visits, "field") : lacks(v.node, FieldArgs(Parent(v), v.node.name))}

ScalarLeafs(visits) ==
    {v \in Of(visits, "field") : Current(v) # NoType /\ (IsLeaf(Current(v)) <=> v.node.sel # <<>>)}

TwoOfAName(nodes) == \E i, j \in DOMAIN nodes : i # j /\ nodes[i].name = nodes[j].name

UniqueArgumentNames(visits) ==
    {v \in Of(visits, "directive") \cup Of(visits, "field") : TwoOfAName(v.node.args)}

UniqueVariableNames(visits) ==
    {v \in Of(visits, "operation") : Configured(v.node) /\ TwoOfAName(v.node.defs)}

VariablesAreInputTypes(visits) ==
    {v \in Of(visits, "variable") : KnownType(v.node.type.name) # NoType /\ ~IsInput(v.node.type.name)}

-----------------------------------------------------------------------------
(* The rules that follow spreads.                                          *)

\* The fragments spread in an operation or a fragment, in order.
SpreadsOf(visits, scope) ==
    LET spreads == SelectSeq(visits, LAMBDA v : v.what = "spread" /\ v.scope = scope)
    IN [i \in DOMAIN spreads |-> FragmentScope(spreads[i].node.fragment)]

\* The graph of spreads, from some scopes on; what is spread need not be defined.
SpreadsFrom(visits, scopes) ==
    [scope \in scopes \cup {FragmentScope(v.node.fragment) : v \in Of(visits, "spread")} |->
        SpreadsOf(visits, scope)]

\* The fragments are taken in the order of a HashMap.
CyclesInOrder(visits, order) ==
    CyclesFrom(SpreadsFrom(visits, {FragmentScope(f) : f \in DOMAIN Fragments}),
               [i \in DOMAIN order |-> FragmentScope(order[i])])

NoFragmentCycles(visits) == CyclesInOrder(visits, SetToSeq(DOMAIN Fragments))

\* The scopes that are reached through spreads, each visited once.
Reached(visits, name) ==
    LET scope == OperationScope(name) IN ReachedFrom(SpreadsFrom(visits, {scope}), scope)

Operations == DOMAIN request.operations

DefinedVariables(visits, name) ==
    LET defs == SelectSeq(visits, LAMBDA v : v.what = "variable" /\ v.scope = OperationScope(name))
    IN [i \in DOMAIN defs |-> defs[i].node]

Names(nodes) == {nodes[i].name : i \in DOMAIN nodes}

\* Mutant: spreads are not followed.
UsedVariablesHere(visits, name) ==
    UNION {VariablesOf(v.node.value) :
           v \in {v \in Of(visits, "argument") : v.scope = OperationScope(name)}}

UsedVariables(visits, name) ==
    UNION {VariablesOf(v.node.value) :
           v \in {v \in Of(visits, "argument") : v.scope \in Reached(visits, name)}}

NoUndefinedVariables(visits) ==
    UNION {UsedVariables(visits, n) \ Names(DefinedVariables(visits, n)) : n \in Operations}

NoUnusedVariables(visits) ==
    UNION {Names(DefinedVariables(visits, n)) \ UsedVariables(visits, n) : n \in Operations}

NoUnusedFragments(visits) ==
    {f \in DOMAIN Fragments : \A n \in Operations : FragmentScope(f) \notin Reached(visits, n)}

\* A nullable type with a default counts as one that is not null.
TypeAtUse(d) == IF d.default # {} THEN [d.type EXCEPT !.nulls[1] = FALSE] ELSE d.type

VariableInAllowedPosition(visits) ==
    {v \in Of(visits, "value") :
        /\ v.node.kind = "variable"
        /\ \E n \in Operations :
               /\ v.scope \in Reached(visits, n)
               /\ \E d \in FirstNamed(DefinedVariables(visits, n), v.node.text), ty \in v.expected :
                      ~IsSubtype(ty, TypeAtUse(d))}

-----------------------------------------------------------------------------
(* Fields that one selection set asks for under one key.                   *)

\* Whether following the spreads of a selection set, fields aside, never ends.
RECURSIVE RunsAway(_, _)
RunsAway(followed, sel) ==
    \E s \in Range(sel) :
        \/ s.kind = "inline" /\ RunsAway(followed, s.sel)
        \/ /\ s.kind = "spread" /\ s.fragment \in DOMAIN Fragments
           /\ \/ s.fragment \in followed
              \/ RunsAway(followed \cup {s.fragment}, Fragments[s.fragment].sel)

Outputs(sel) ==
    LET RECURSIVE find(_)
        find(set) ==
            FlattenSeq([i \in DOMAIN set |->
                CASE set[i].kind = "field" -> <<set[i]>>
                  [] set[i].kind = "inline" -> find(set[i].sel)
                  [] set[i].kind = "spread" /\ set[i].fragment \in DOMAIN Fragments ->
                         find(Fragments[set[i].fragment].sel)
                  [] OTHER -> <<>>])
    IN find(sel)

\* Mutant: what fields are called is compared, and not their arguments.
ConflictsByName(f, other) == f.name # other.name

Conflicts(f, other) ==
    \/ f.name # other.name
    \/ Len(f.args) # Len(other.args)
    \/ \E a \in Range(f.args) : FirstNamed(other.args, a.name) # {a}

\* Each field is compared with the first of its key.
OverlappingFieldsCanBeMerged(visits) ==
    {v \in Of(visits, "selection set") :
        LET fields == Outputs(v.node)
        IN \E i, j \in DOMAIN fields :
               /\ i < j /\ fields[i].key = fields[j].key
               /\ \A k \in 1 .. i - 1 : fields[k].key # fields[i].key
               /\ Conflicts(fields[i], fields[j])}

-----------------------------------------------------------------------------
(* All rules.                                                              *)

Reporting(reports) == {r \in DOMAIN reports : reports[r] # {}}

\* The rules that report something, and the visitor where it has no root type.
CheckRules(visits) ==
    Reporting(
        [Schema |-> {v \in Of(visits, "operation") : ~Configured(v.node)},
         ArgumentsOfCorrectType |-> ArgumentsOfCorrectType(visits),
         DefaultValuesOfCorrectType |-> DefaultValuesOfCorrectType(visits),
         FieldsOnCorrectType |-> FieldsOnCorrectType(visits),
         FragmentsOnCompositeTypes |-> FragmentsOnCompositeTypes(visits),
         KnownArgumentNames |-> KnownArgumentNames(visits),
         KnownDirectives |-> KnownDirectives(visits),
         KnownFragmentNames |-> KnownFragmentNames(visits),
         KnownTypeNames |-> KnownTypeNames(visits),
         NoFragmentCycles |-> NoFragmentCycles(visits),
         NoUndefinedVariables |-> NoUndefinedVariables(visits),
         NoUnusedVariables |-> NoUnusedVariables(visits),
         NoUnusedFragments |-> NoUnusedFragments(visits),
         OverlappingFieldsCanBeMerged |-> OverlappingFieldsCanBeMerged(visits),
         PossibleFragmentSpreads |-> PossibleFragmentSpreads(visits),
         ProvidedNonNullArguments |-> ProvidedNonNullArguments(visits),
         ScalarLeafs |-> ScalarLeafs(visits),
         UniqueArgumentNames |-> UniqueArgumentNames(visits),
         UniqueVariableNames |-> UniqueVariableNames(visits),
         VariablesAreInputTypes |-> VariablesAreInputTypes(visits),
         VariableInAllowedPosition |-> VariableInAllowedPosition(visits)])

\* The rule on overlapping fields follows cycles of spreads until the stack is full.
Overflows(visits) == \E v \in Of(visits, "selection set") : RunsAway({}, v.node)

=============================================================================
