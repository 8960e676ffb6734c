--------------------------- MODULE QueryDocument ---------------------------
(***************************************************************************)
(* A request, the part of the composed schema that validation, planning and *)
(* introspection read (schema/composed_schema.rs), and what a query asks    *)
(* for: the reference that the plans of module Planner are held to.         *)
(*                                                                         *)
(* A selection is a field, [kind, name, key, args, dirs, sel], an inline    *)
(* fragment [kind, on, dirs, sel], or the spread of a named fragment [kind, *)
(* fragment, dirs]; key is the response key.  An argument is [name, value], *)
(* a directive [name, args].  An operation is [type, defs, dirs, sel], its  *)
(* definitions of variables [name, type, default]; a fragment [on, dirs,    *)
(* sel].  A value is [kind, text, items], an item of a list or an object    *)
(* [name, value]: one shape for all, so that any two can be compared.       *)
(*                                                                         *)
(* A reference to a type is [name, nulls]: nulls says of each level, from   *)
(* the outermost list to the named type, whether it may be null.  A default *)
(* is the empty set or the set of one value.                                *)
(*                                                                         *)
(* A type of the schema has its kind, owner, keys by service, fields,       *)
(* interfaces, possible types, enum values (deprecated or not) and input    *)
(* fields; a field its service, type, arguments and @requires; an argument  *)
(* or an input field its type and default.  A selection of keys is a        *)
(* sequence of [name, keys], nested as deep as the @key is.                 *)
(***************************************************************************)
EXTENDS Integers, FiniteSets, SequencesExt

CONSTANTS Types,       \* the composed schema: a function from names to types
          Directives,  \* its directives: [args, locations] by name
          NoService, NoType, NoKeys

VARIABLE request       \* [operations, single, name, fragments, given, limit], as it is received

Fragments == request.fragments
FieldOf(t, f) == Types[t].fields[f]
IsAbstract(t) == Types[t].kind \in {"interface", "union"}
Typename == "__typename"
Introspective(f) == f \in {"__type", "__schema", Typename}

IsList(ty) == Len(ty.nulls) > 1
Element(ty) == [ty EXCEPT !.nulls = Tail(@)]

RECURSIVE VariablesOf(_)
VariablesOf(value) ==
    (IF value.kind = "variable" THEN {value.text} ELSE {})
        \cup UNION {VariablesOf(item.value) : item \in Range(value.items)}

\* A node that is looked up by its name, the first of it.
FirstNamed(nodes, name) ==
    LET same == SelectSeq(nodes, LAMBDA n : n.name = name) IN IF same = <<>> THEN {} ELSE {same[1]}

VariablesIn(args) == UNION {VariablesOf(a.value) : a \in Range(args)}
FieldVariables(f) == VariablesIn(f.args) \cup UNION {VariablesIn(d.args) : d \in Range(f.dirs)}

Segment(key, list) == [name |-> key, list |-> list, on |-> NoType]

\* The path of a field whose value is of one possible type of its own type.
Marked(path, t) == [path EXCEPT ![Len(path)].on = t]

KeyNames(keys) == {keys[i].name : i \in DOMAIN keys}

-----------------------------------------------------------------------------
(* What a query asks for.                                                  *)

Concrete(t) == IF IsAbstract(t) THEN Range(Types[t].possible) ELSE {t}

\* A fragment on a type applies to a value of type t, which is an object.
Applies(on, t) == on = NoType \/ on = t \/ (IsAbstract(on) /\ t \in Range(Types[on].possible))

\* A fragment's directives hold for each of its fields.
Under(dirs, fields) == [i \in DOMAIN fields |-> [fields[i] EXCEPT !.dirs = dirs \o @]]

\* The fields that a selection set asks of an object of type t, in order, with the
\* directives of the fragments they are in (builtin.graphql:27-34).
RECURSIVE Collect(_, _)
Collect(t, sel) ==
    FlattenSeq([i \in DOMAIN sel |->
        LET s == sel[i]
            body == IF s.kind = "spread" THEN Fragments[s.fragment] ELSE s
        IN CASE s.kind = "field" -> <<s>>
             [] s.kind # "field" /\ Applies(body.on, t) -> Under(s.dirs, Collect(t, body.sel))
             [] OTHER -> <<>>])

\* Everything a selection set asks of a value of type t at a path: each field, of
\* which object type, where, under which key, with which arguments and directives.
RECURSIVE Wanted(_, _, _)
Wanted(t, path, sel) ==
    UNION {LET here == IF IsAbstract(t) THEN Marked(path, c) ELSE path
               fields == Collect(c, sel)
           IN UNION {LET f == fields[i]
                         below == IF f.name = Typename THEN {}
                                  ELSE LET d == FieldOf(c, f.name)
                                       IN Wanted(d.type.name, Append(here, Segment(f.key, IsList(d.type))), f.sel)
                     IN {[at |-> here, type |-> c, name |-> f.name, key |-> f.key,
                          args |-> f.args, dirs |-> f.dirs]} \cup below
                     : i \in DOMAIN fields}
           : c \in Concrete(t)}

=============================================================================
