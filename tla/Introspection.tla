---------------------------- MODULE Introspection ---------------------------
(***************************************************************************)
(* The answers to introspection (handler/introspection): what the fields    *)
(* __schema, __type and __typename of a root type give for a composed       *)
(* schema, the selections below them as the planner has put them.  A type   *)
(* of the schema is met as a reference to it, one layer of which is the     *)
(* type that a client sees: NON_NULL, LIST, or the named type itself.       *)
(*                                                                         *)
(* Descriptions and the reasons of deprecations are left out; the order of  *)
(* types, fields and values is that of their names.                         *)
(***************************************************************************)
EXTENDS QueryDocument

CONSTANT Hidden   \* the names of types and fields that start with __

Plain(kind, text) == [kind |-> kind, text |-> text, items |-> <<>>]
Null == Plain("null", "")
Text(name) == Plain("string", name)
Flag(b) == Plain("boolean", IF b THEN "true" ELSE "false")
ObjectOf(items) == [kind |-> "object", text |-> "", items |-> items]

\* In place of an answer: the condition of a directive is not there to unwrap.
Panic == Plain("panic", "")

ListOf(S, Value(_)) ==
    LET items == FoldSet(LAMBDA m, done : Append(done, [name |-> "", value |-> Value(m)]), <<>>, S)
    IN IF \E item \in Range(items) : item.value = Panic THEN Panic
       ELSE [kind |-> "list", text |-> "", items |-> items]

\* Arguments are held in a map: of two of a name there is the last.
IsTrue(args, name) ==
    LET same == SelectSeq(args, LAMBDA a : a.name = name) IN same # <<>> /\ Last(same).value = Flag(TRUE)

\* The first of the directives skip and include decides, by its condition.
Conditions(dirs) == SelectSeq(dirs, LAMBDA d : d.name \in {"skip", "include"})
IsSkip(dirs) ==
    LET conditions == Conditions(dirs)
    IN conditions # <<>> /\ (conditions[1].name = "include") # IsTrue(conditions[1].args, "if")
Unconditioned(dirs) == Conditions(dirs) # <<>> /\ FirstNamed(Conditions(dirs)[1].args, "if") = {}

\* A map of keys to values: a key that is there already takes the later value.
Insert(items, key, value) ==
    IF \E i \in DOMAIN items : items[i].name = key
    THEN [i \in DOMAIN items |-> IF items[i].name = key THEN [items[i] EXCEPT !.value = value] ELSE items[i]]
    ELSE Append(items, [name |-> key, value |-> value])

ResolveObj(set, Resolve(_)) ==
    LET Into(obj, f, value) == IF value = Panic THEN Panic ELSE [obj EXCEPT !.items = Insert(@, f.key, value)]
    IN FoldLeft(LAMBDA obj, f : CASE obj = Panic \/ Unconditioned(f.dirs) -> Panic
                                  [] obj # Panic /\ ~Unconditioned(f.dirs) ->
                                         IF IsSkip(f.dirs) THEN obj ELSE Into(obj, f, Resolve(f)),
                ObjectOf(<<>>), set)

-----------------------------------------------------------------------------
(* Types, and what they are made of.                                       *)

NamedType(t) == [name |-> t, nulls |-> <<TRUE>>]
IsNamed(ty) == ty.nulls = <<TRUE>>

KindNames ==
    [scalar |-> "SCALAR", object |-> "OBJECT", interface |-> "INTERFACE",
     union |-> "UNION", enum |-> "ENUM", input |-> "INPUT_OBJECT"]

Kind(ty) ==
    IF ~ty.nulls[1] THEN "NON_NULL" ELSE IF IsList(ty) THEN "LIST" ELSE KindNames[Types[ty.name].kind]

\* Mutant: the elements of a list are taken as if any may be null.
OfTypeNullable(ty) ==
    IF ~ty.nulls[1] THEN [ty EXCEPT !.nulls[1] = TRUE] ELSE [Element(ty) EXCEPT !.nulls[1] = TRUE]

OfType(ty) == IF ~ty.nulls[1] THEN [ty EXCEPT !.nulls[1] = TRUE] ELSE Element(ty)

\* The members of a type that are shown: fields and values that are deprecated
\* are not, unless they are asked for.
Shown(args, members) ==
    {m \in DOMAIN members \ Hidden : members[m].deprecated => IsTrue(args, "includeDeprecated")}

ResolveEnumValue(name, deprecated, set) ==
    ResolveObj(set, LAMBDA f : CASE f.name = "name" -> Text(name)
                                 [] f.name = "isDeprecated" -> Flag(deprecated)
                                 [] OTHER -> Null)

RECURSIVE ResolveType(_, _)

ResolveInputValue(name, input, set) ==
    ResolveObj(set, LAMBDA f : CASE f.name = "name" -> Text(name)
                                 [] f.name = "type" -> ResolveType(input.type, f.set)
                                 [] f.name = "defaultValue" /\ input.default # {} ->
                                        Text((CHOOSE v \in input.default : TRUE).text)
                                 [] OTHER -> Null)

ResolveInputs(inputs, set) ==
    ListOf(DOMAIN inputs, LAMBDA n : ResolveInputValue(n, inputs[n], set))

ResolveField(name, field, set) ==
    ResolveObj(set, LAMBDA f : CASE f.name = "name" -> Text(name)
                                 [] f.name = "isDeprecated" -> Flag(field.deprecated)
                                 [] f.name = "args" -> ResolveInputs(field.args, f.set)
                                 [] f.name = "type" -> ResolveType(field.type, f.set)
                                 [] OTHER -> Null)

\* What is asked of a named type of the kinds that have it.
ResolveMembers(t, f) ==
    CASE f.name = "fields" /\ t.kind \in {"object", "interface"} ->
             ListOf(Shown(f.args, t.fields), LAMBDA n : ResolveField(n, t.fields[n], f.set))
      [] f.name = "interfaces" /\ t.kind = "object" ->
             ListOf(Range(t.implements), LAMBDA n : ResolveType(NamedType(n), f.set))
      [] f.name = "possibleTypes" /\ t.kind \in {"interface", "union"} ->
             ListOf(Range(t.possible), LAMBDA n : ResolveType(NamedType(n), f.set))
      [] f.name = "enumValues" /\ t.kind = "enum" ->
             ListOf(Shown(f.args, t.values), LAMBDA n : ResolveEnumValue(n, t.values[n].deprecated, f.set))
      [] f.name = "inputFields" /\ t.kind = "input" -> ResolveInputs(t.inputs, f.set)
      [] OTHER -> Null

ResolveType(ty, set) ==
    ResolveObj(set, LAMBDA f : CASE f.name = "kind" -> Plain("enum", Kind(ty))
                                 [] f.name = "name" /\ IsNamed(ty) -> Text(ty.name)
                                 [] f.name = "ofType" /\ ~IsNamed(ty) -> ResolveType(OfType(ty), f.set)
                                 [] IsNamed(ty) /\ f.name \notin {"kind", "name", "ofType"} ->
                                        ResolveMembers(Types[ty.name], f)
                                 [] OTHER -> Null)

-----------------------------------------------------------------------------
(* The roots.                                                              *)

ResolveNamed(t, set) == IF t \in DOMAIN Types THEN ResolveType(NamedType(t), set) ELSE Null

ResolveSchema(set) ==
    ResolveObj(set, LAMBDA f :
        CASE f.name = "types" -> ListOf(DOMAIN Types \ Hidden, LAMBDA t : ResolveType(NamedType(t), f.set))
          [] f.name = "queryType" -> ResolveNamed("Query", f.set)
          [] f.name = "mutationType" -> ResolveNamed("Mutation", f.set)
          [] f.name = "subscriptionType" -> ResolveNamed("Subscription", f.set)
          [] OTHER -> Null)

\* A type that is asked for by a name that no type has is null.
ResolveByName(f) ==
    LET names == {a.value.text : a \in {a \in FirstNamed(f.args, "name") : a.value.kind = "string"}}
    IN IF names \cap DOMAIN Types = {} THEN Null
       ELSE ResolveType(NamedType(CHOOSE n \in names : TRUE), f.set)

ResolveRoot(rootKind, set) ==
    ResolveObj(set, LAMBDA f : CASE f.name = "__schema" -> ResolveSchema(f.set)
                                 [] f.name = "__type" -> ResolveByName(f)
                                 [] f.name = Typename -> Text(rootKind)
                                 [] OTHER -> Null)

-----------------------------------------------------------------------------
(* The reference: the schema that a client reads from an answer.           *)

Answered(value, key) == (CHOOSE item \in FirstNamed(value.items, key) : TRUE).value
Members(value) == {item.value : item \in Range(value.items)}
NameOf(value) == Answered(value, "name").text

RECURSIVE TypeRead(_)
TypeRead(value) ==
    LET kind == Answered(value, "kind").text
        inner == TypeRead(Answered(value, "ofType"))
    IN CASE kind = "NON_NULL" -> [inner EXCEPT !.nulls[1] = FALSE]
         [] kind = "LIST" -> [inner EXCEPT !.nulls = <<TRUE>> \o @]
         [] OTHER -> NamedType(NameOf(value))

InputsRead(value) ==
    {[name |-> NameOf(v), type |-> TypeRead(Answered(v, "type")),
      default |-> Answered(v, "defaultValue") # Null] : v \in Members(value)}
FieldsRead(value) ==
    {[name |-> NameOf(v), type |-> TypeRead(Answered(v, "type")), args |-> InputsRead(Answered(v, "args")),
      deprecated |-> Answered(v, "isDeprecated") = Flag(TRUE)] : v \in Members(value)}
NamesRead(value) == {NameOf(v) : v \in Members(value)}

Read(value) ==
    [name |-> NameOf(value), kind |-> Answered(value, "kind").text,
     fields |-> FieldsRead(Answered(value, "fields")),
     interfaces |-> NamesRead(Answered(value, "interfaces")),
     possible |-> NamesRead(Answered(value, "possibleTypes")),
     values |-> NamesRead(Answered(value, "enumValues")),
     inputs |-> InputsRead(Answered(value, "inputFields"))]

Inputs(inputs) ==
    {[name |-> n, type |-> inputs[n].type, default |-> inputs[n].default # {}] : n \in DOMAIN inputs}

\* What there is to read of a type: all that the schema has.
Published(name) ==
    LET t == Types[name]
    IN [name |-> name, kind |-> KindNames[t.kind],
        fields |-> {[name |-> n, type |-> t.fields[n].type, args |-> Inputs(t.fields[n].args),
                     deprecated |-> t.fields[n].deprecated] : n \in DOMAIN t.fields \ Hidden},
        interfaces |-> Range(t.implements), possible |-> Range(t.possible),
        values |-> DOMAIN t.values, inputs |-> Inputs(t.inputs)]

=============================================================================
