--------------------------- MODULE ComposedSchema ---------------------------
(***************************************************************************)
(* How the schema of the gateway is composed from the documents that its   *)
(* services publish (schema/composed_schema.rs, ComposedSchema::combine).   *)
(* An update of the shared route table hands combine the documents in the  *)
(* order in which a HashMap lists the services, which differs from one     *)
(* process to the next: here combine takes the services in any order.      *)
(*                                                                         *)
(* A definition is a record: its kind, its name, whether it extends, its   *)
(* @key directives, the interfaces it implements, its fields (each with    *)
(* whether it is @external) and the members of a union or the values of an *)
(* enum.  Descriptions, the types of fields and their arguments are left   *)
(* out, and so is @resolve, which federated documents do not use.          *)
(***************************************************************************)
EXTENDS Integers, FiniteSets, SequencesExt

CONSTANTS Services,   \* names of services
          TypeNames, FieldNames, Kinds,
          Keys,       \* what a @key may select
          Documents,  \* what a service may publish: sequences of definitions
          Builtins,   \* the types of builtin.graphql
          NoService

Roots == {"Query", "Mutation", "Subscription"}
Introspection == {"__type", "__schema", "__typename"}

Definition ==
    [kind : Kinds, name : TypeNames, extend : BOOLEAN, keys : Seq(Keys),
     implements : SUBSET TypeNames, fields : UNION {[F -> BOOLEAN] : F \in SUBSET FieldNames},
     members : SUBSET (TypeNames \cup FieldNames)]

ASSUME NamesAssumption ==
    /\ NoService \notin Services
    /\ {"object", "builtin"} \subseteq Kinds
    /\ Roots \subseteq TypeNames /\ Builtins \subseteq TypeNames
    /\ Introspection \subseteq FieldNames
ASSUME DocumentsAssumption == Documents \subseteq Seq(Definition)

VARIABLES
    docs,     \* what each service has published
    types,    \* composed_schema.types
    todo,     \* the services whose documents have not been taken yet
    current,  \* the service whose document is being read
    at,       \* the place in that document
    outcome   \* "combining", then "ok" or "conflict"

vars == <<docs, types, todo, current, at, outcome>>

\* A composed type: fields maps each field to the service it was extended by.
MetaType ==
    [kind : Kinds, owner : Services \cup {NoService}, keys : [Services -> Seq(Keys)],
     implements : SUBSET TypeNames,
     fields : UNION {[F -> Services \cup {NoService}] : F \in SUBSET FieldNames},
     members : SUBSET (TypeNames \cup FieldNames)]

TypeOK ==
    /\ docs \in [Services -> Documents]
    /\ DOMAIN types \in SUBSET TypeNames
    /\ \A n \in DOMAIN types : types[n] \in MetaType
    /\ todo \in SUBSET Services
    /\ current \in Services \cup {NoService}
    /\ at \in Nat
    /\ outcome \in {"combining", "ok", "conflict"}

NoKeys == [s \in Services |-> <<>>]

EmptyObject ==
    [kind |-> "object", owner |-> NoService, keys |-> NoKeys, implements |-> {},
     fields |-> [f \in {} |-> NoService], members |-> {}]

Init ==
    /\ docs \in [Services -> Documents]
    /\ types = [n \in Roots |-> EmptyObject]
    /\ todo = Services
    /\ current = NoService
    /\ at = 1
    /\ outcome = "combining"

-----------------------------------------------------------------------------
(* One definition.                                                         *)

IsExtension(d) == d.extend \/ d.name \in Roots

\* The fields a definition of an object adds; an owner's @external means nothing.
Added(d) == {f \in DOMAIN d.fields : ~(IsExtension(d) /\ d.fields[f])}

\* The service an added field must be fetched from, unless it is the type's owner.
Resolver(s, d) == IF IsExtension(d) THEN s ELSE NoService

Entry(n) == IF n \in DOMAIN types THEN types[n] ELSE EmptyObject

\* Mutant: the definition that creates an entry owns it.
MergedFirstOwns(s, d, m) ==
    [m EXCEPT !.owner = IF m = EmptyObject THEN s ELSE @,
              !.keys[s] = @ \o d.keys,
              !.implements = @ \cup d.implements,
              !.fields = [f \in DOMAIN @ \cup Added(d) |->
                             IF f \in Added(d) THEN Resolver(s, d) ELSE @[f]]]

Merged(s, d, m) ==
    [m EXCEPT !.owner = IF IsExtension(d) THEN @ ELSE s,
              !.keys[s] = @ \o d.keys,
              !.implements = @ \cup d.implements,
              !.fields = [f \in DOMAIN @ \cup Added(d) |->
                             IF f \in Added(d) THEN Resolver(s, d) ELSE @[f]]]

\* Mutant: the fields of an interface are taken over as they are declared.
ConvertedAsDeclared(d) ==
    [kind |-> d.kind, owner |-> NoService, keys |-> NoKeys, implements |-> d.implements,
     fields |-> d.fields, members |-> d.members]

\* convert_type_definition, for everything that is not an object.
Converted(d) ==
    [kind |-> d.kind, owner |-> NoService, keys |-> NoKeys, implements |-> d.implements,
     fields |-> [f \in DOMAIN d.fields |-> NoService], members |-> d.members]

\* Mutant: a field is conflicted only if a service has extended the type by it.
FieldConflictedExtended(d) ==
    \E f \in Added(d) \cap DOMAIN Entry(d.name).fields :
        Entry(d.name).fields[f] # NoService

FieldConflicted(d) == Added(d) \cap DOMAIN Entry(d.name).fields # {}

\* Mutant: a definition that is repeated is conflicted.
DefinitionRepeated(d) == d.name \in DOMAIN types

DefinitionConflicted(d) == d.name \in DOMAIN types /\ types[d.name] # Converted(d)

-----------------------------------------------------------------------------
(* The loops over the documents and their definitions.                     *)

Put(n, m) == types' = [x \in DOMAIN types \cup {n} |-> IF x = n THEN m ELSE types[x]]

Reading == outcome = "combining" /\ current # NoService

TakeDocument(s) ==
    /\ outcome = "combining" /\ current = NoService
    /\ s \in todo
    /\ todo' = todo \ {s}
    /\ current' = s
    /\ at' = 1
    /\ UNCHANGED <<docs, types, outcome>>

Step == at' = at + 1 /\ UNCHANGED <<docs, todo, current, outcome>>

Reject == outcome' = "conflict" /\ UNCHANGED <<docs, types, todo, current, at>>

DefineObject(d) ==
    /\ d.kind = "object"
    /\ \/ /\ FieldConflicted(d)
          /\ Reject
       \/ /\ ~FieldConflicted(d)
          /\ Put(d.name, Merged(current, d, Entry(d.name)))
          /\ Step

DefineOther(d) ==
    /\ d.kind # "object"
    /\ \/ /\ DefinitionConflicted(d)
          /\ Reject
       \/ /\ ~DefinitionConflicted(d)
          /\ Put(d.name, Converted(d))
          /\ Step

Define ==
    /\ Reading
    /\ at <= Len(docs[current])
    /\ DefineObject(docs[current][at]) \/ DefineOther(docs[current][at])

EndDocument ==
    /\ Reading
    /\ at > Len(docs[current])
    /\ current' = NoService
    /\ UNCHANGED <<docs, types, todo, at, outcome>>

-----------------------------------------------------------------------------
(* What is done when all documents have been read.                         *)

\* Root types other than Query are dropped when no service adds to them.
Kept(ts) == {n \in DOMAIN ts : n \in {"Mutation", "Subscription"} => DOMAIN ts[n].fields # {}}

Builtin == [EmptyObject EXCEPT !.kind = "builtin"]

WithBuiltins(ts) ==
    [n \in Kept(ts) \cup Builtins |->
        IF n \in Builtins THEN Builtin
        ELSE IF n = "Query"
             THEN [ts[n] EXCEPT !.fields = [f \in DOMAIN @ \cup Introspection |->
                                               IF f \in Introspection THEN NoService ELSE @[f]]]
             ELSE ts[n]]

Implementers(ts, n) == {t \in DOMAIN ts : ts[t].kind = "object" /\ n \in ts[t].implements}

\* Whatever an object implements gets the objects that do as its possible types.
WithPossibleTypes(ts) ==
    [n \in DOMAIN ts |->
        IF Implementers(ts, n) = {} THEN ts[n]
        ELSE [ts[n] EXCEPT !.members = Implementers(ts, n)]]

Finish ==
    /\ outcome = "combining" /\ current = NoService
    /\ todo = {}
    /\ types' = WithPossibleTypes(WithBuiltins(types))
    /\ outcome' = "ok"
    /\ UNCHANGED <<docs, todo, current, at>>

Next ==
    \/ \E s \in Services : TakeDocument(s)
    \/ Define
    \/ EndDocument
    \/ Finish

Spec == Init /\ [][Next]_vars

-----------------------------------------------------------------------------
(* Properties.                                                             *)

\* The definitions of all documents, by service and place.
Places == UNION {{s} \X (1 .. Len(docs[s])) : s \in Services}
Def(p) == docs[p[1]][p[2]]

\* Those that have been combined.
Combined ==
    {p \in Places : /\ p[1] \notin todo
                    /\ p[1] = current => p[2] < at}

\* Two definitions that no order can reconcile, or may not.
Clash(p, q) ==
    /\ Def(p).name = Def(q).name
    /\ \/ Def(p).kind = "object" /\ Def(q).kind = "object" /\ Added(Def(p)) \cap Added(Def(q)) # {}
       \/ "object" \in {Def(p).kind, Def(q).kind} /\ Def(p).kind # Def(q).kind
       \/ Def(p).kind # "object" /\ Def(q).kind # "object" /\ Converted(Def(p)) # Converted(Def(q))

\* No field of a type has two definitions in documents that combine, however
\* the service that owns the type and those that extend it are ordered (the
\* check on contains_key, composed_schema.rs:272).
FieldsOnce ==
    outcome # "conflict" =>
        \A p, q \in Combined :
            /\ p # q
            /\ Def(p).kind = "object" /\ Def(q).kind = "object"
            /\ Def(p).name = Def(q).name
            => Added(Def(p)) \cap Added(Def(q)) = {}

\* Documents are refused only for two definitions that clash, or for something
\* other than an object with the name of a root type (composed_schema.rs:272-292).
NoFalseConflict ==
    outcome = "conflict" =>
        \/ \E p, q \in Places : p # q /\ Clash(p, q)
        \/ \E p \in Places : Def(p).kind # "object" /\ Def(p).name \in Roots

\* Documents in which a name has one kind, at most one owner and no other use.
Agreeing ==
    /\ \A p, q \in Places : Def(p).name = Def(q).name => Def(p).kind = Def(q).kind
    /\ \A p, q \in Places : p # q /\ Def(p).name = Def(q).name /\ Def(p).kind = "object"
                              => IsExtension(Def(p)) \/ IsExtension(Def(q))
    /\ \A p \in Places : /\ Def(p).name \notin Builtins
                         /\ Def(p).name \in Roots => Def(p).kind = "object"

DefsOf(n) == {p \in Places : Def(p).name = n}
OwnersOf(n) == {p \in DefsOf(n) : ~IsExtension(Def(p))}
AddersOf(n, f) == {p \in DefsOf(n) : f \in Added(Def(p))}

KeysOf(s, n) ==
    FlattenSeq([i \in 1 .. Len(docs[s]) |-> IF docs[s][i].name = n THEN docs[s][i].keys ELSE <<>>])

\* The type of a name as the documents describe it, in no order: one owner,
\* the keys of each service, each field with the service that adds it.
ReferenceObject(n) ==
    LET own == IF n = "Query" THEN Introspection ELSE {}
        fields == UNION {Added(Def(p)) : p \in DefsOf(n)}
    IN [kind |-> "object",
        owner |-> IF OwnersOf(n) = {} THEN NoService ELSE (CHOOSE p \in OwnersOf(n) : TRUE)[1],
        keys |-> [s \in Services |-> KeysOf(s, n)],
        implements |-> UNION {Def(p).implements : p \in DefsOf(n)},
        fields |-> [f \in fields \cup own |->
            IF f \in own THEN NoService
            ELSE LET p == CHOOSE p \in AddersOf(n, f) : TRUE
                 IN IF p \in OwnersOf(n) THEN NoService ELSE p[1]],
        members |-> {}]

Declared(n) ==
    IF n = "Query" \/ \E p \in DefsOf(n) : Def(p).kind = "object" THEN ReferenceObject(n)
    ELSE Converted(Def(CHOOSE p \in DefsOf(n) : TRUE))

\* The names that are described, root types without a field aside.
Described ==
    {n \in {Def(p).name : p \in Places} \cup {"Query"} :
        n \in {"Mutation", "Subscription"} => \E p \in DefsOf(n) : Added(Def(p)) # {}}

\* The objects that say of themselves that they implement n.
DescribedImplementers(n) ==
    {t \in Described : \E p \in DefsOf(t) : Def(p).kind = "object" /\ n \in Def(p).implements}

Reference ==
    [n \in Described \cup Builtins |->
        LET type == IF n \in Builtins THEN Builtin ELSE Declared(n)
            implementers == DescribedImplementers(n)
        IN [type EXCEPT !.members = IF implementers = {} THEN @ ELSE implementers]]

\* Documents that agree are composed to what they say whatever the order of the
\* services: every process of the gateway plans with the same owners, keys and
\* resolvers (try_join_all over the keys of a HashMap, shared_route_table.rs:109).
OrderFree == outcome = "ok" /\ Agreeing => types = Reference

=============================================================================
