---------------------------- MODULE QueryService ----------------------------
(***************************************************************************)
(* A request on its way through the gateway (handler/shared_route_table.rs, *)
(* query): the limit on its depth, the validator and the planner of module  *)
(* Planner, and the answer of the introspection node.  The fetches of the   *)
(* plan are executed by module Executor.                                    *)
(***************************************************************************)
EXTENDS Planner, Introspection

CONSTANTS Requests,             \* the requests that are received
          StandardIntrospection \* the selection by which clients ask for the whole schema

VARIABLE answer   \* the data of the introspection node

vars == <<request, stage, errors, introspection, rounds, group, keyId, answer>>

-----------------------------------------------------------------------------
(* The limit on depth.                                                     *)

\* Mutant: fragments lead one deeper, fields do not.
StepFragmentsOnly(s, depth) == IF s.kind = "field" THEN depth ELSE depth + 1

StepDown(s, depth) == depth + 1

\* A selection set too deep: fields, spreads and inline fragments each lead one
\* deeper.
RECURSIVE TooDeep(_, _, _)
TooDeep(sel, depth, most) ==
    \/ depth > most
    \/ \E s \in Range(sel) :
           \/ s.kind = "field" /\ s.sel # <<>> /\ TooDeep(s.sel, StepDown(s, depth), most)
           \/ s.kind = "inline" /\ TooDeep(s.sel, StepDown(s, depth), most)
           \/ /\ s.kind = "spread" /\ s.fragment \in DOMAIN Fragments
              /\ TooDeep(Fragments[s.fragment].sel, StepDown(s, depth), most)

\* A document is let off if its first operation, in the order of a HashMap, has the
\* name that introspection goes by.
Exempt(first) == ~request.single /\ first = "IntrospectionQuery"

CheckDepth ==
    /\ stage = "received"
    /\ \E first \in Operations :
           LET deep == \E n \in Operations, most \in request.limit :
                           ~Exempt(first) /\ TooDeep(request.operations[n].sel, 0, most)
           IN stage' = IF deep THEN "refused" ELSE "checking"
    /\ UNCHANGED <<request, errors, planVars, answer>>

-----------------------------------------------------------------------------

PlanStep == Plan /\ UNCHANGED answer

\* __typename is answered by the kind of the document's first operation.
Introspect ==
    /\ stage = "done" /\ introspection # <<>>
    /\ \E first \in Operations :
           \E value \in {ResolveRoot(RootType(request.operations[first]), introspection)} :
               IF value = Panic THEN stage' = "crashed" /\ UNCHANGED answer
               ELSE stage' = "answered" /\ answer' = value
    /\ UNCHANGED <<request, errors, planVars>>

Init ==
    /\ request \in Requests
    /\ stage = "received"
    /\ errors = {}
    /\ introspection = <<>>
    /\ rounds = <<>>
    /\ group = <<>>
    /\ keyId = 1
    /\ answer = Null

Next == CheckDepth \/ PlanStep \/ Introspect

Spec == Init /\ [][Next]_vars

-----------------------------------------------------------------------------
(* Properties.                                                             *)

\* Types: the introspection node has the fields of the gateway's own, the prefixes of
\* keys in use have been taken, and no entity waits without a field.
TypeOK ==
    /\ errors # {} => stage = "refused"
    /\ \A i \in DOMAIN introspection : Introspective(introspection[i].name)
    /\ \A r \in Range(rounds) : \A n \in Range(r) : n.prefix < keyId
    /\ \A e \in Range(group) : e.prefix \in 1 .. keyId - 1 /\ e.fields # <<>>

Validated == stage = "planning" \/ errors # {}

\* The fragments spread in a selection set, however deep.
RECURSIVE SpreadIn(_)
SpreadIn(sel) ==
    UNION {IF s.kind = "spread" THEN {s.fragment} ELSE SpreadIn(s.sel) : s \in Range(sel)}

\* Fragments among which each spreads one of them.
IsCyclic ==
    \E S \in SUBSET DOMAIN Fragments :
        S # {} /\ \A f \in S : S \cap SpreadIn(Fragments[f].sel) # {}

\* The search for cycles of fragments finds one if and only if there is one, in
\* whatever order a HashMap gives the fragments (CycleDetector,
\* no_fragment_cycles.rs:16-49, by itself as its tests run it).
CyclesFound ==
    stage = "checking" =>
        \A visits \in {Visits}, order \in SetToSeqs(DOMAIN Fragments) :
            CyclesInOrder(visits, order) # {} <=> IsCyclic

\* A use of a variable, and the type it should have where that is known.
RECURSIVE ValueUses(_, _)
ValueUses(expected, value) ==
    (IF value.kind = "variable" THEN {[name |-> value.text, expected |-> expected]} ELSE {})
        \cup UNION {ValueUses(ItemTypes(value, expected, item.name), item.value) : item \in Range(value.items)}
ArgumentUses(declared, args) ==
    UNION {ValueUses(ExpectedOf(declared, a.name), a.value) : a \in Range(args)}
DirectiveUses(dirs) == UNION {ArgumentUses(DirectiveArgs(d.name), d.args) : d \in Range(dirs)}

\* What is asked by the name __typename is shown to no rule.
Unseen(s) == s.kind = "field" /\ s.name = Typename
Seen(sel) == {s \in Range(sel) : ~Unseen(s)}

\* All uses in a selection set that rules are shown, with the fragments it spreads
\* written out.
RECURSIVE Uses(_, _)
Uses(t, sel) ==
    UNION {DirectiveUses(s.dirs) \cup
           CASE s.kind = "field" ->
                    ArgumentUses(FieldArgs(t, s.name), s.args) \cup Uses(FieldType(t, s.name), s.sel)
             [] s.kind = "inline" -> Uses(IF s.on = NoType THEN t ELSE KnownType(s.on), s.sel)
             [] s.kind = "spread" ->
                    UNION {DirectiveUses(body.dirs) \cup Uses(KnownType(body.on), body.sel) :
                           body \in {Fragments[f] : f \in {s.fragment} \cap DOMAIN Fragments}}
           : s \in Seen(sel)}
OperationUses(op) == DirectiveUses(op.dirs) \cup Uses(KnownType(RootType(op)), op.sel)

RECURSIVE Included(_)
Included(sel) ==
    UNION {IF s.kind = "spread"
           THEN {s.fragment} \cup UNION {Included(Fragments[f].sel) : f \in {s.fragment} \cap DOMAIN Fragments}
           ELSE Included(s.sel) : s \in Range(sel)}

\* The rules that follow spreads say what writing the fragments out would: a
\* variable is reported as undefined or as unused, a use as one of the wrong type,
\* a fragment as unused, for some operation, if and only if it is (find_undef_vars,
\* find_used_vars, collect_incorrect_usages, find_reachable_fragments).  The uses in
\* directives on __typename are not among them, since visitor.rs:535 passes over
\* them: a variable used only there counts as unused, though it is used, and one
\* that is not defined is not reported there.
ScopesFollowed ==
    Validated /\ ~IsCyclic =>
        LET ops == {request.operations[n] : n \in Operations}
            misused(op) ==
                \E use \in OperationUses(op) : \E d \in FirstNamed(op.defs, use.name), ty \in use.expected :
                       \/ ty.name # d.type.name \/ Len(ty.nulls) # Len(d.type.nulls)
                       \/ \E i \in DOMAIN ty.nulls :
                              ~ty.nulls[i] /\ d.type.nulls[i] /\ (i = 1 => d.default = {})
        IN /\ "NoUndefinedVariables" \in errors <=>
                   \E op \in ops : \E use \in OperationUses(op) : use.name \notin Names(op.defs)
           /\ "NoUnusedVariables" \in errors <=>
                   \E op \in ops : \E d \in Range(op.defs) : \A use \in OperationUses(op) : use.name # d.name
           /\ "VariableInAllowedPosition" \in errors <=> \E op \in ops : misused(op)
           /\ "NoUnusedFragments" \in errors <=>
                   DOMAIN Fragments \ UNION {Included(op.sel) : op \in ops} # {}

\* The fields that rules are shown of a selection set, however deep.
RECURSIVE SeenFields(_)
SeenFields(sel) ==
    UNION {CASE s.kind = "field" -> {s} \cup SeenFields(s.sel)
             [] s.kind = "inline" -> SeenFields(s.sel)
             [] s.kind = "spread" -> SeenFields(Fragments[s.fragment].sel)
           : s \in Seen(sel)}

\* Whether a __typename is to be skipped or included without a condition.
RECURSIVE LacksCondition(_)
LacksCondition(sel) ==
    \E s \in Range(sel) :
        CASE s.kind = "field" -> (Unseen(s) /\ Unconditioned(s.dirs)) \/ LacksCondition(s.sel)
          [] s.kind = "inline" -> LacksCondition(s.sel)
          [] s.kind = "spread" -> LacksCondition(Fragments[s.fragment].sel)

\* What is accepted is planned: each variable that a fetch declares is defined, in
\* whatever fragment or round it is used, and introspection alone ends a request
\* that rules have let pass, by a variable that is defined and not given, or by what
\* they are not shown, directives on a __typename: one with a variable that is not
\* given, be it defined or not, or a skip or include without its condition (the
\* unwraps of builder.rs:934, that relies on NoUndefinedVariables, of builder.rs:475
\* and of resolver.rs:41, whose documents visitor.rs:535 lets pass).
AcceptedPlanned ==
    stage = "crashed" =>
        \A op \in {GetOperation} :
            \A asked \in {RootFields(op.type, RootType(op), RootAcc, op.sel).introspection} :
                /\ op.type # "subscription"
                /\ \A f \in SeenFields(asked) : FieldVariables(f) \subseteq Names(op.defs)
                /\ ~(IntrospectionVariables(asked) \subseteq DOMAIN request.given) \/ LacksCondition(asked)

\* A value, or a variable of the operation, fits where a type is expected.
RECURSIVE Fits(_, _)
Fits(ty, value) ==
    CASE value.kind = "variable" ->
             \E d \in Range(GetOperation.defs) :
                 d.name = value.text /\ d.type.name = ty.name /\ Len(d.type.nulls) = Len(ty.nulls)
      [] value.kind = "null" -> ty.nulls[1]
      [] value.kind = "list" -> IsList(ty) /\ \A item \in Range(value.items) : Fits(Element(ty), item.value)
      [] value.kind = "object" ->
             LET inputs == Types[ty.name].inputs
             IN /\ {item.name : item \in Range(value.items)} \subseteq DOMAIN inputs
                /\ {n \in DOMAIN inputs : Required(inputs[n])} \subseteq {item.name : item \in Range(value.items)}
                /\ \A item \in Range(value.items) : Fits(inputs[item.name].type, item.value)
      [] value.kind \in {"enum", "string"} /\ Types[ty.name].kind = "enum" ->
             value.text \in DOMAIN Types[ty.name].values
      [] OTHER -> ty.name \in DOMAIN ScalarKinds /\ value.kind \in ScalarKinds[ty.name]

\* The arguments of a field or a directive are those it declares, the ones it needs
\* among them, and of their types, before and after the variables take their values.
Proper(declared, args) ==
    /\ Names(args) \subseteq DOMAIN declared
    /\ {n \in DOMAIN declared : Required(declared[n])} \subseteq Names(args)
    /\ \A a \in Range(args) :
           VariablesOf(a.value) \subseteq DOMAIN request.given =>
               Fits(declared[a.name].type, a.value) /\ Fits(declared[a.name].type, IntoConst(a.value))

\* No fetch asks for a field, an argument or a directive that the schema does not
\* have, leaves out an argument that is needed, or has a value of another type, be it
\* a literal, a variable given or one in a list or an object: what one rule lets
\* pass because of another is let pass by none (FieldsOnCorrectType,
\* KnownArgumentNames, ProvidedNonNullArguments, ArgumentsOfCorrectType,
\* VariableInAllowedPosition and KnownDirectives together).
FetchesTyped ==
    stage = "done" =>
        \A n \in Fetches : \A a \in AskedBy(n) :
            a.name # Typename =>
                /\ HasField(a.type, a.name)
                /\ Proper(FieldOf(a.type, a.name).args, a.args)
                /\ \A d \in Range(a.dirs) :
                       d.name \in DOMAIN Directives /\ Proper(Directives[d.name].args, d.args)

\* The same fields of one selection set, whatever fragments they are in, may be told
\* apart by their keys: two of one key are one field with the same arguments.
RECURSIVE Unambiguous(_, _)
Unambiguous(t, sel) ==
    \A c \in Concrete(t) :
        LET fields == SelectSeq(Collect(c, sel), LAMBDA f : HasField(c, f.name))
        IN /\ \A f, g \in Range(fields) :
                  f.key = g.key => f.name = g.name /\ Range(f.args) = Range(g.args)
           /\ \A f \in Range(fields) : Unambiguous(FieldType(c, f.name), f.sel)

\* In an operation that is planned no two fields of a selection set that differ are
\* answered under one key (add_output, overlapping_fields_can_be_merged.rs:57-84,
\* which compares each with the first alone).
KeysUnambiguous ==
    stage = "planning" =>
        \A n \in Operations :
            LET op == request.operations[n] IN Unambiguous(RootType(op), op.sel)

\* The limit on the depth of a document bounds its plan, unless an operation of it
\* has the name that is let off: the entities of a fetch lie no deeper, and there are
\* no more rounds of fetches than that (check_recursive_depth,
\* shared_route_table.rs:231-290).
DepthLimitsPlan ==
    "IntrospectionQuery" \notin Operations =>
        \A most \in request.limit :
            \A i \in DOMAIN rounds : i <= most + 1 /\ \A n \in Range(rounds[i]) : Len(n.path) <= most

\* Whether a field that is asked of the gateway itself is to be answered.
Wished(f) ==
    \A d \in Range(f.dirs) :
        /\ d.name = "skip" => ~IsTrue(d.args, "if")
        /\ d.name = "include" => IsTrue(d.args, "if")

\* A field that says of itself both when to skip and when to include it.
SaysBoth(f) == {"skip", "include"} \subseteq Names(f.dirs)

\* The fields by which a schema names its root types, and the types.
Roots ==
    [queryType |-> "Query", mutationType |-> "Mutation", subscriptionType |-> "Subscription"]

\* Introspection gives each root field that is asked of the gateway and not skipped,
\* and no other, unless both a skip and an include are on it, of which the first
\* alone decides (resolver.rs:41-46); __type is null for the names that are no
\* type's; and from the answer to the standard query a client rebuilds the types that
\* requests are validated against, wrapping types, deprecated members and all, and
\* the names of the root types (handler/introspection).  The directives that the
\* standard query asks for too, and that builtin.graphql:194 declares as never null,
\* are not there to rebuild: schema.rs:52 answers null.
SchemaRebuilt ==
    stage = "answered" =>
        /\ \A k \in Names(answer.items) : \E f \in Range(introspection) : f.key = k /\ (Wished(f) \/ SaysBoth(f))
        /\ \A f \in {f \in Range(introspection) : Wished(f)} :
               /\ f.key \in Names(answer.items)
               /\ f.name = "__type" =>
                      LET value == Answered(answer, f.key)
                          asked == {a.value.text : a \in FirstNamed(f.args, "name")}
                      IN IF asked \subseteq DOMAIN Types THEN {NameOf(value)} = asked ELSE value = Null
        /\ GetOperation.sel = StandardIntrospection =>
               LET schema == Answered(answer, "__schema")
               IN /\ {Read(v) : v \in Members(Answered(schema, "types"))} =
                         {Published(t) : t \in DOMAIN Types \ Hidden}
                  /\ \A root \in DOMAIN Roots : NameOf(Answered(schema, root)) = Roots[root]
                  /\ Answered(schema, "directives") = Null

=============================================================================
