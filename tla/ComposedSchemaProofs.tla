------------------------ MODULE ComposedSchemaProofs ------------------------
(***************************************************************************)
(* Proofs about ComposedSchema, for any services, documents and types: its *)
(* types are right, no field has two definitions in a schema that is       *)
(* composed, and documents are refused for a reason.                       *)
(***************************************************************************)
EXTENDS ComposedSchema, SequenceLemmas

Same(p, q) == Def(p).name = Def(q).name
IsObject(p) == Def(p).kind = "object"

\* Where the loops are.
Placed ==
    /\ current # NoService => current \notin todo /\ at \in 1 .. Len(docs[current]) + 1
    /\ outcome = "ok" => todo = {} /\ current = NoService

\* A combined definition of an object has its fields in the type.
Credited ==
    outcome = "combining" =>
        \A p \in Combined : IsObject(p) =>
            /\ Def(p).name \in DOMAIN types
            /\ Added(Def(p)) \subseteq DOMAIN types[Def(p).name].fields

\* Every type and every field comes from a combined definition.
Sourced ==
    outcome = "combining" =>
        \A n \in DOMAIN types :
            /\ n \in Roots \/ \E p \in Combined : Def(p).name = n
            /\ \A f \in DOMAIN types[n].fields :
                   \E p \in Combined : /\ Def(p).name = n
                                       /\ IsObject(p) => f \in Added(Def(p))

\* A type that no object has touched is what each of its definitions says.
Plain ==
    outcome = "combining" =>
        \A p \in Combined :
            /\ ~IsObject(p)
            /\ Def(p).name \notin Roots
            /\ \A q \in Combined : Same(p, q) => ~IsObject(q)
            => Def(p).name \in DOMAIN types /\ types[Def(p).name] = Converted(Def(p))

IInv == TypeOK /\ Placed /\ Credited /\ Sourced /\ Plain /\ FieldsOnce /\ NoFalseConflict

-----------------------------------------------------------------------------
(* What the documents say does not change.                                 *)

LEMMA DocsKept ==
    ASSUME docs' = docs
    PROVE  /\ Places' = Places
           /\ \A p : Def(p)' = Def(p)
           /\ \A p, q : Clash(p, q)' <=> Clash(p, q)
<1>1. Places' = Places BY DEF Places
<1>2. \A p : Def(p)' = Def(p) BY DEF Def
<1>3. ASSUME NEW p, NEW q PROVE Clash(p, q)' <=> Clash(p, q)
    BY <1>2 DEF Clash, Added, IsExtension, Converted, NoKeys
<1> QED BY <1>1, <1>2, <1>3

-----------------------------------------------------------------------------
(* The places that have been combined.                                     *)

\* A definition in a document is a definition.
LEMMA DefType ==
    ASSUME TypeOK, NEW p \in Places
    PROVE  /\ p[1] \in Services /\ p[2] \in 1 .. Len(docs[p[1]])
           /\ p = <<p[1], p[2]>>
           /\ Def(p) \in Definition
<1>1. PICK s \in Services : p \in {s} \X (1 .. Len(docs[s]))
    BY DEF Places
<1>2. docs[s] \in Seq(Definition)
    BY DocumentsAssumption DEF TypeOK
<1> QED BY <1>1, <1>2 DEF Def

\* Taking a document and leaving one combine nothing.
LEMMA CombinedKept ==
    ASSUME TypeOK, Placed, docs' = docs,
           \/ \E s \in Services : TakeDocument(s)
           \/ EndDocument
           \/ UNCHANGED <<todo, current, at>>
    PROVE  Combined' = Combined
<1> Places' = Places BY DEF Places
<1>1. CASE \E s \in Services : TakeDocument(s)
    <2>1. PICK s \in Services : TakeDocument(s) BY <1>1
    <2>2. ASSUME NEW p \in Places PROVE p \in Combined' <=> p \in Combined
        BY <2>1, DefType, NamesAssumption DEF Combined, TakeDocument, TypeOK
    <2> QED BY <2>2 DEF Combined
<1>2. CASE EndDocument
    <2>1. ASSUME NEW p \in Places PROVE p \in Combined' <=> p \in Combined
        <3>1. docs[current] \in Seq(Definition) /\ current \in Services
            BY <1>2, DocumentsAssumption DEF EndDocument, Reading, TypeOK
        <3>2. Len(docs[current]) \in Nat BY <3>1
        <3> QED BY <1>2, <3>2, DefType, NamesAssumption
                DEF Combined, EndDocument, Reading, TypeOK, Placed
    <2> QED BY <2>1 DEF Combined
<1>3. CASE UNCHANGED <<todo, current, at>> BY <1>3 DEF Combined
<1> QED BY <1>1, <1>2, <1>3

\* A step of Define combines the definition it reads, which was not yet.
LEMMA CombinedGrows ==
    ASSUME TypeOK, Placed, Reading, at <= Len(docs[current]), Step
    PROVE  /\ <<current, at>> \in Places \ Combined
           /\ Def(<<current, at>>) = docs[current][at]
           /\ Combined' = Combined \cup {<<current, at>>}
<1> DEFINE here == <<current, at>>
<1>1. /\ current \in Services /\ docs[current] \in Seq(Definition)
      /\ at \in Nat /\ at >= 1 /\ Len(docs[current]) \in Nat
    BY DocumentsAssumption DEF TypeOK, Reading, Placed
<1>2. here \in Places BY <1>1 DEF Places
<1>3. here \notin Combined BY <1>1 DEF Combined
<1>4. Places' = Places BY DEF Places, Step
<1>5. ASSUME NEW p \in Places PROVE p \in Combined' <=> p \in Combined \cup {here}
    <2>1. p[1] \in Services /\ p[2] \in Nat /\ p = <<p[1], p[2]>> BY DefType
    <2>2. CASE p[1] = current
        <3>1. p[1] \notin todo /\ p[1] \notin todo' BY <2>2 DEF Step, Placed, Reading
        <3>2. p \in Combined' <=> p[2] < at + 1 BY <3>1, <2>2, <1>4 DEF Combined, Step
        <3>3. p \in Combined <=> p[2] < at BY <3>1, <2>2 DEF Combined
        <3>4. p = here <=> p[2] = at BY <2>1, <2>2
        <3>5. p[2] < at + 1 <=> p[2] < at \/ p[2] = at BY <1>1, <2>1
        <3> QED BY <3>2, <3>3, <3>4, <3>5
    <2>3. CASE p[1] # current
        <3>1. p # here BY <2>1, <2>3
        <3> QED BY <1>4, <2>3, <3>1 DEF Combined, Step
    <2> QED BY <2>2, <2>3
<1> QED BY <1>2, <1>3, <1>4, <1>5 DEF Combined, Def

-----------------------------------------------------------------------------
(* Types.                                                                  *)

LEMMA EmptyType == EmptyObject \in MetaType
<1>1. NoKeys \in [Services -> Seq(Keys)] BY DEF NoKeys
<1>2. [f \in {} |-> NoService] \in [{} -> Services \cup {NoService}] OBVIOUS
<1>3. {} \in SUBSET FieldNames OBVIOUS
<1> QED BY <1>1, <1>2, <1>3, NamesAssumption DEF EmptyObject, MetaType

\* The fields of a type, however they are put together.
LEMMA FieldsType ==
    ASSUME NEW F \in SUBSET FieldNames, NEW g, \A f \in F : g[f] \in Services \cup {NoService}
    PROVE  [f \in F |-> g[f]] \in UNION {[G -> Services \cup {NoService}] : G \in SUBSET FieldNames}
<1>1. [f \in F |-> g[f]] \in [F -> Services \cup {NoService}] OBVIOUS
<1> QED BY <1>1

LEMMA MergedType ==
    ASSUME NEW s \in Services, NEW d \in Definition, NEW m \in MetaType
    PROVE  Merged(s, d, m) \in MetaType
<1> DEFINE F == DOMAIN m.fields \cup Added(d)
           g == [f \in F |-> IF f \in Added(d) THEN Resolver(s, d) ELSE m.fields[f]]
<1>1. PICK G \in SUBSET FieldNames : m.fields \in [G -> Services \cup {NoService}]
    BY DEF MetaType
<1>2. PICK D \in SUBSET FieldNames : d.fields \in [D -> BOOLEAN]
    BY DEF Definition
<1>3. F \in SUBSET FieldNames BY <1>1, <1>2 DEF Added
<1>4. g \in [F -> Services \cup {NoService}] BY <1>1 DEF Resolver
<1>5. g \in UNION {[H -> Services \cup {NoService}] : H \in SUBSET FieldNames} BY <1>3, <1>4
<1>6. [m.keys EXCEPT ![s] = @ \o d.keys] \in [Services -> Seq(Keys)]
    BY DEF MetaType, Definition
<1>7. m.implements \cup d.implements \in SUBSET TypeNames BY DEF MetaType, Definition
<1>8. (IF IsExtension(d) THEN m.owner ELSE s) \in Services \cup {NoService} BY DEF MetaType
<1> HIDE DEF g
<1>9. [m EXCEPT !.owner = IF IsExtension(d) THEN @ ELSE s,
                !.keys[s] = @ \o d.keys,
                !.implements = @ \cup d.implements,
                !.fields = g] \in MetaType
    BY <1>5, <1>6, <1>7, <1>8 DEF MetaType
<1> QED BY <1>9 DEF Merged, g

LEMMA ConvertedType ==
    ASSUME NEW d \in Definition
    PROVE  Converted(d) \in MetaType
<1>1. PICK D \in SUBSET FieldNames : d.fields \in [D -> BOOLEAN]
    BY DEF Definition
<1>2. [f \in DOMAIN d.fields |-> NoService] \in [D -> Services \cup {NoService}] BY <1>1
<1>3. [f \in DOMAIN d.fields |-> NoService]
        \in UNION {[H -> Services \cup {NoService}] : H \in SUBSET FieldNames}
    BY <1>2
<1>4. NoKeys \in [Services -> Seq(Keys)] BY DEF NoKeys
<1> QED BY <1>3, <1>4 DEF Converted, Definition, MetaType

LEMMA WithBuiltinsType ==
    ASSUME NEW ts, DOMAIN ts \in SUBSET TypeNames, \A n \in DOMAIN ts : ts[n] \in MetaType
    PROVE  LET bs == WithBuiltins(ts)
           IN  DOMAIN bs \in SUBSET TypeNames /\ \A n \in DOMAIN bs : bs[n] \in MetaType
<1> DEFINE bs == WithBuiltins(ts)
<1>1. DOMAIN bs = Kept(ts) \cup Builtins BY DEF WithBuiltins
<1>2. DOMAIN bs \in SUBSET TypeNames BY <1>1, NamesAssumption DEF Kept
<1>3. Builtin \in MetaType BY EmptyType, NamesAssumption DEF Builtin, MetaType
<1>4. ASSUME NEW m \in MetaType
      PROVE  [m EXCEPT !.fields = [f \in DOMAIN @ \cup Introspection |->
                                      IF f \in Introspection THEN NoService ELSE @[f]]] \in MetaType
    <2> DEFINE F == DOMAIN m.fields \cup Introspection
               g == [f \in F |-> IF f \in Introspection THEN NoService ELSE m.fields[f]]
    <2>1. PICK G \in SUBSET FieldNames : m.fields \in [G -> Services \cup {NoService}]
        BY DEF MetaType
    <2>2. F \in SUBSET FieldNames BY <2>1, NamesAssumption
    <2>3. g \in [F -> Services \cup {NoService}] BY <2>1
    <2>4. g \in UNION {[H -> Services \cup {NoService}] : H \in SUBSET FieldNames} BY <2>2, <2>3
    <2> HIDE DEF g
    <2>5. [m EXCEPT !.fields = g] \in MetaType BY <2>4 DEF MetaType
    <2> QED BY <2>5 DEF g
<1>5. ASSUME NEW n \in DOMAIN bs PROVE bs[n] \in MetaType
    BY <1>1, <1>3, <1>4 DEF WithBuiltins, Kept
<1> QED BY <1>2, <1>5

LEMMA FinishedType ==
    ASSUME NEW ts, DOMAIN ts \in SUBSET TypeNames, \A n \in DOMAIN ts : ts[n] \in MetaType
    PROVE  LET fs == WithPossibleTypes(WithBuiltins(ts))
           IN  DOMAIN fs \in SUBSET TypeNames /\ \A n \in DOMAIN fs : fs[n] \in MetaType
<1> DEFINE bs == WithBuiltins(ts)
           fs == WithPossibleTypes(bs)
<1>1. DOMAIN bs \in SUBSET TypeNames BY WithBuiltinsType
<1>2. ASSUME NEW n \in DOMAIN bs PROVE bs[n] \in MetaType BY WithBuiltinsType
<1>3. DOMAIN fs = DOMAIN bs BY DEF WithPossibleTypes
<1>4. ASSUME NEW n \in DOMAIN fs PROVE fs[n] \in MetaType
    <2>1. bs[n] \in MetaType BY <1>2, <1>3
    <2>2. Implementers(bs, n) \in SUBSET (TypeNames \cup FieldNames) BY <1>1 DEF Implementers
    <2>3. [bs[n] EXCEPT !.members = Implementers(bs, n)] \in MetaType BY <2>1, <2>2 DEF MetaType
    <2>4. fs[n] = IF Implementers(bs, n) = {} THEN bs[n]
                  ELSE [bs[n] EXCEPT !.members = Implementers(bs, n)]
        BY <1>3 DEF WithPossibleTypes
    <2> QED BY <2>1, <2>3, <2>4
<1> QED BY <1>1, <1>3, <1>4

-----------------------------------------------------------------------------
(* One lemma for each way a definition is combined.                        *)

LEMMA DefineObjectKeeps ==
    ASSUME IInv, Reading, at <= Len(docs[current]), Step,
           NEW d, d = docs[current][at], d.kind = "object", ~FieldConflicted(d),
           Put(d.name, Merged(current, d, Entry(d.name)))
    PROVE  IInv'
<1> DEFINE here == <<current, at>>
           m == Merged(current, d, Entry(d.name))
<1>1. /\ TypeOK /\ Placed /\ Credited /\ Sourced /\ Plain /\ FieldsOnce
      /\ outcome = "combining" /\ outcome' = "combining" /\ docs' = docs
    BY DEF IInv, Reading, Step
<1>2. /\ here \in Places /\ here \notin Combined /\ Def(here) = d
      /\ Combined' = Combined \cup {here}
    BY <1>1, CombinedGrows
<1>3. d \in Definition /\ current \in Services BY <1>1, <1>2, DefType DEF TypeOK, Reading
<1>4. /\ DOMAIN types' = DOMAIN types \cup {d.name}
      /\ types'[d.name] = m
      /\ \A n \in DOMAIN types : n # d.name => types'[n] = types[n]
    BY DEF Put
<1>5. Entry(d.name) \in MetaType BY <1>1, EmptyType DEF TypeOK, Entry
<1>6. m \in MetaType BY <1>3, <1>5, MergedType
<1>7. DOMAIN m.fields = DOMAIN Entry(d.name).fields \cup Added(d)
    BY <1>5 DEF Merged, MetaType
<1>8. \A p \in Combined' : p \in Places /\ Def(p)' = Def(p)
    BY <1>1, <1>2 DEF Combined, Def
<1> HIDE DEF here, m
<1>10. TypeOK'
    <2>1. at' \in Nat BY <1>1 DEF TypeOK, Step
    <2>2. d.name \in TypeNames BY <1>3 DEF Definition
    <2> QED BY <1>1, <1>4, <1>6, <2>1, <2>2 DEF TypeOK, Step
<1>11. Placed'
    <2>1. docs[current] \in Seq(Definition)
        BY <1>1, DocumentsAssumption DEF TypeOK, Reading
    <2>2. Len(docs[current]) \in Nat /\ at \in Nat BY <1>1, <2>1 DEF TypeOK
    <2> QED BY <1>1, <2>2 DEF Placed, Step
<1>12. Credited'
    <2>1. ASSUME NEW p \in Combined', Def(p).kind = "object"
          PROVE  Def(p).name \in DOMAIN types' /\ Added(Def(p)) \subseteq DOMAIN types'[Def(p).name].fields
        <3>1. CASE p = here BY <1>2, <1>4, <1>7, <3>1
        <3>2. CASE p # here
            <4>1. p \in Combined BY <1>2, <3>2
            <4>2. Def(p).name \in DOMAIN types /\ Added(Def(p)) \subseteq DOMAIN types[Def(p).name].fields
                BY <1>1, <2>1, <4>1 DEF Credited, IsObject
            <4>3. CASE Def(p).name = d.name BY <1>4, <1>7, <4>2, <4>3 DEF Entry
            <4> QED BY <1>4, <4>2, <4>3
        <3> QED BY <3>1, <3>2
    <2> QED BY <1>8, <2>1 DEF Credited, IsObject, Added, IsExtension
<1>13. Sourced'
    <2>1. ASSUME NEW n \in DOMAIN types'
          PROVE  n \in Roots \/ \E p \in Combined' : Def(p).name = n
        BY <1>1, <1>2, <1>4 DEF Sourced
    <2>2. ASSUME NEW n \in DOMAIN types', NEW f \in DOMAIN types'[n].fields
          PROVE  \E p \in Combined' : /\ Def(p).name = n
                                      /\ Def(p).kind = "object" => f \in Added(Def(p))
        <3>1. CASE n = d.name /\ f \in Added(d) BY <1>2, <3>1
        <3>2. CASE n = d.name /\ f \notin Added(d)
            <4>1. f \in DOMAIN Entry(n).fields BY <1>4, <1>7, <3>2
            <4>2. n \in DOMAIN types /\ f \in DOMAIN types[n].fields
                BY <4>1 DEF Entry, EmptyObject
            <4> QED BY <1>1, <1>2, <4>2 DEF Sourced, IsObject
        <3>3. CASE n # d.name BY <1>1, <1>2, <1>4, <3>3 DEF Sourced, IsObject
        <3> QED BY <3>1, <3>2, <3>3
    <2> QED BY <1>8, <2>1, <2>2 DEF Sourced, IsObject, Added, IsExtension
<1>14. Plain'
    <2>1. ASSUME NEW p \in Combined', Def(p).kind # "object", Def(p).name \notin Roots,
                 \A q \in Combined' : Def(q).name = Def(p).name => Def(q).kind # "object"
          PROVE  Def(p).name \in DOMAIN types' /\ types'[Def(p).name] = Converted(Def(p))
        <3>1. p # here /\ Def(p).name # d.name BY <1>2, <2>1
        <3>2. p \in Combined BY <1>2, <3>1
        <3>3. Def(p).name \in DOMAIN types /\ types[Def(p).name] = Converted(Def(p))
            BY <1>1, <1>2, <2>1, <3>2 DEF Plain, IsObject, Same
        <3> QED BY <1>4, <3>1, <3>3
    <2> QED BY <1>8, <2>1 DEF Plain, IsObject, Same, Converted, NoKeys
<1>15. FieldsOnce'
    <2>1. ASSUME NEW p \in Combined, Def(p).kind = "object", Def(p).name = d.name
          PROVE  Added(Def(p)) \cap Added(d) = {}
        <3>1. d.name \in DOMAIN types /\ Added(Def(p)) \subseteq DOMAIN types[d.name].fields
            BY <1>1, <2>1 DEF Credited, IsObject
        <3> QED BY <3>1 DEF FieldConflicted, Entry
    <2>2. ASSUME NEW p \in Combined', NEW q \in Combined', p # q,
                 Def(p).kind = "object", Def(q).kind = "object", Def(p).name = Def(q).name
          PROVE  Added(Def(p)) \cap Added(Def(q)) = {}
        <3>1. CASE p = here BY <1>2, <2>1, <2>2, <3>1
        <3>2. CASE q = here BY <1>2, <2>1, <2>2, <3>2
        <3>3. CASE p # here /\ q # here BY <1>1, <1>2, <2>2, <3>3 DEF FieldsOnce
        <3> QED BY <3>1, <3>2, <3>3
    <2> QED BY <1>8, <2>2 DEF FieldsOnce, Added, IsExtension
<1>16. NoFalseConflict' BY <1>1 DEF NoFalseConflict
<1> QED BY <1>10, <1>11, <1>12, <1>13, <1>14, <1>15, <1>16 DEF IInv

LEMMA DefineOtherKeeps ==
    ASSUME IInv, Reading, at <= Len(docs[current]), Step,
           NEW d, d = docs[current][at], d.kind # "object", ~DefinitionConflicted(d),
           Put(d.name, Converted(d))
    PROVE  IInv'
<1> DEFINE here == <<current, at>>
<1>1. /\ TypeOK /\ Placed /\ Credited /\ Sourced /\ Plain /\ FieldsOnce
      /\ outcome = "combining" /\ outcome' = "combining" /\ docs' = docs
    BY DEF IInv, Reading, Step
<1>2. /\ here \in Places /\ here \notin Combined /\ Def(here) = d
      /\ Combined' = Combined \cup {here}
    BY <1>1, CombinedGrows
<1>3. d \in Definition /\ current \in Services BY <1>1, <1>2, DefType DEF TypeOK, Reading
<1>4. /\ DOMAIN types' = DOMAIN types \cup {d.name}
      /\ types'[d.name] = Converted(d)
      /\ \A n \in DOMAIN types : types'[n] = types[n]
    BY DEF Put, DefinitionConflicted
<1>5. Converted(d) \in MetaType BY <1>3, ConvertedType
<1>8. \A p \in Combined' : p \in Places /\ Def(p)' = Def(p)
    BY <1>1, <1>2 DEF Combined, Def
<1> HIDE DEF here
<1>10. TypeOK'
    <2>1. at' \in Nat BY <1>1 DEF TypeOK, Step
    <2>2. d.name \in TypeNames BY <1>3 DEF Definition
    <2> QED BY <1>1, <1>4, <1>5, <2>1, <2>2 DEF TypeOK, Step
<1>11. Placed'
    <2>1. docs[current] \in Seq(Definition)
        BY <1>1, DocumentsAssumption DEF TypeOK, Reading
    <2>2. Len(docs[current]) \in Nat /\ at \in Nat BY <1>1, <2>1 DEF TypeOK
    <2> QED BY <1>1, <2>2 DEF Placed, Step
<1>12. Credited'
    BY <1>1, <1>2, <1>4, <1>8 DEF Credited, IsObject, Added, IsExtension
<1>13. Sourced'
    <2>1. ASSUME NEW n \in DOMAIN types'
          PROVE  n \in Roots \/ \E p \in Combined' : Def(p).name = n
        BY <1>1, <1>2, <1>4 DEF Sourced
    <2>2. ASSUME NEW n \in DOMAIN types', NEW f \in DOMAIN types'[n].fields
          PROVE  \E p \in Combined' : /\ Def(p).name = n
                                      /\ Def(p).kind = "object" => f \in Added(Def(p))
        <3>1. CASE n = d.name BY <1>2, <3>1
        <3>2. CASE n # d.name BY <1>1, <1>2, <1>4, <3>2 DEF Sourced, IsObject
        <3> QED BY <3>1, <3>2
    <2> QED BY <1>8, <2>1, <2>2 DEF Sourced, IsObject, Added, IsExtension
<1>14. Plain'
    <2>1. ASSUME NEW p \in Combined', Def(p).kind # "object", Def(p).name \notin Roots,
                 \A q \in Combined' : Def(q).name = Def(p).name => Def(q).kind # "object"
          PROVE  Def(p).name \in DOMAIN types' /\ types'[Def(p).name] = Converted(Def(p))
        <3>1. CASE p = here BY <1>2, <1>4, <3>1
        <3>2. CASE p # here
            <4>1. p \in Combined BY <1>2, <3>2
            <4>2. Def(p).name \in DOMAIN types /\ types[Def(p).name] = Converted(Def(p))
                BY <1>1, <1>2, <2>1, <4>1 DEF Plain, IsObject, Same
            <4> QED BY <1>4, <4>2
        <3> QED BY <3>1, <3>2
    <2> QED BY <1>8, <2>1 DEF Plain, IsObject, Same, Converted, NoKeys
<1>15. FieldsOnce'
    <2>1. ASSUME NEW p \in Combined', NEW q \in Combined', p # q,
                 Def(p).kind = "object", Def(q).kind = "object", Def(p).name = Def(q).name
          PROVE  Added(Def(p)) \cap Added(Def(q)) = {}
        BY <1>1, <1>2, <2>1 DEF FieldsOnce
    <2> QED BY <1>8, <2>1 DEF FieldsOnce, Added, IsExtension
<1>16. NoFalseConflict' BY <1>1 DEF NoFalseConflict
<1> QED BY <1>10, <1>11, <1>12, <1>13, <1>14, <1>15, <1>16 DEF IInv

\* A refusal has its reason among the definitions combined so far.
LEMMA RejectKeeps ==
    ASSUME IInv, Reading, at <= Len(docs[current]), Reject,
           NEW d, d = docs[current][at],
           \/ d.kind = "object" /\ FieldConflicted(d)
           \/ d.kind # "object" /\ DefinitionConflicted(d)
    PROVE  IInv'
<1> DEFINE here == <<current, at>>
           Reason == \/ \E p, q \in Places : p # q /\ Clash(p, q)
                     \/ \E p \in Places : Def(p).kind # "object" /\ Def(p).name \in Roots
<1>1. /\ TypeOK /\ Placed /\ Credited /\ Sourced /\ Plain
      /\ outcome = "combining" /\ outcome' = "conflict"
      /\ UNCHANGED <<docs, types, todo, current, at>>
    BY DEF IInv, Reading, Reject
<1>2. /\ here \in Places /\ here \notin Combined /\ Def(here) = d
    <2>1. current \in Services /\ docs[current] \in Seq(Definition) /\ at \in Nat /\ at >= 1
        BY <1>1, DocumentsAssumption DEF TypeOK, Reading, Placed
    <2>2. Len(docs[current]) \in Nat BY <2>1
    <2> QED BY <2>1, <2>2 DEF Places, Combined, Def
<1> HIDE DEF here
<1>3. Combined \subseteq Places BY DEF Combined
<1>4. ASSUME d.kind = "object" PROVE Reason
    <2>1. PICK f \in Added(d) : d.name \in DOMAIN types /\ f \in DOMAIN types[d.name].fields
        BY <1>4 DEF FieldConflicted, Entry, EmptyObject
    <2>2. PICK p \in Combined : Def(p).name = d.name /\ (IsObject(p) => f \in Added(Def(p)))
        BY <1>1, <2>1 DEF Sourced
    <2>3. Clash(p, here) /\ p # here BY <1>2, <1>4, <2>1, <2>2 DEF Clash, IsObject
    <2> QED BY <1>2, <1>3, <2>3
<1>5. ASSUME d.kind # "object" PROVE Reason
    <2>1. d.name \in DOMAIN types /\ types[d.name] # Converted(d)
        BY <1>5 DEF DefinitionConflicted
    <2>2. CASE d.name \in Roots BY <1>2, <1>5, <2>2
    <2>3. CASE d.name \notin Roots
        <3>1. PICK p \in Combined : Def(p).name = d.name BY <1>1, <2>1, <2>3 DEF Sourced
        <3>2. CASE \E q \in Combined : Def(q).name = d.name /\ Def(q).kind = "object"
            <4>1. PICK q \in Combined : Def(q).name = d.name /\ Def(q).kind = "object" BY <3>2
            <4>2. Clash(q, here) /\ q # here BY <1>2, <1>5, <4>1 DEF Clash
            <4> QED BY <1>2, <1>3, <4>2
        <3>3. CASE \A q \in Combined : Def(q).name = d.name => Def(q).kind # "object"
            <4>1. types[d.name] = Converted(Def(p))
                BY <1>1, <2>3, <3>1, <3>3 DEF Plain, IsObject, Same
            <4>2. Clash(p, here) /\ p # here BY <1>2, <1>5, <2>1, <3>1, <3>3, <4>1 DEF Clash
            <4> QED BY <1>2, <1>3, <4>2
        <3> QED BY <3>2, <3>3
    <2> QED BY <2>2, <2>3
<1>6. Reason BY <1>4, <1>5
<1>7. NoFalseConflict'
    <2>1. Reason'
        BY <1>1, <1>6, DocsKept
    <2> QED BY <2>1 DEF NoFalseConflict
<1>8. TypeOK' /\ Placed' BY <1>1 DEF TypeOK, Placed
<1> QED BY <1>1, <1>7, <1>8 DEF IInv, Credited, Sourced, Plain, FieldsOnce

-----------------------------------------------------------------------------
(* The invariant and what follows from it.                                 *)

LEMMA InitInvariant == Init => IInv
<1> SUFFICES ASSUME Init PROVE IInv OBVIOUS
<1>1. Combined = {} BY DEF Init, Combined, Places
<1>2. TypeOK BY EmptyType, NamesAssumption DEF Init, TypeOK
<1>3. Sourced BY DEF Init, Sourced, EmptyObject
<1>4. Placed BY NamesAssumption DEF Init, Placed
<1> QED BY <1>1, <1>2, <1>3, <1>4
        DEF IInv, Credited, Plain, FieldsOnce, NoFalseConflict, Init

\* What does not touch docs, types, the outcome or what is combined.
LEMMA QuietKeeps ==
    ASSUME IInv, TypeOK', Placed', UNCHANGED <<docs, types, outcome>>, Combined' = Combined
    PROVE  IInv'
<1>1. \A p : Def(p)' = Def(p) BY DEF Def
<1>2. Credited' BY <1>1 DEF IInv, Credited, IsObject, Added, IsExtension
<1>3. Sourced' BY <1>1 DEF IInv, Sourced, IsObject, Added, IsExtension
<1>4. Plain' BY <1>1 DEF IInv, Plain, IsObject, Same, Converted, NoKeys
<1>5. FieldsOnce' BY <1>1 DEF IInv, FieldsOnce, Added, IsExtension
<1>6. NoFalseConflict' BY DocsKept DEF IInv, NoFalseConflict
<1> QED BY <1>2, <1>3, <1>4, <1>5, <1>6 DEF IInv

LEMMA NextInvariant == IInv /\ [Next]_vars => IInv'
<1> SUFFICES ASSUME IInv, [Next]_vars PROVE IInv' OBVIOUS
<1>0. TypeOK /\ Placed BY DEF IInv
<1>1. ASSUME NEW s \in Services, TakeDocument(s) PROVE IInv'
    <2>1. docs[s] \in Seq(Definition) BY <1>0, DocumentsAssumption DEF TypeOK
    <2>2. TypeOK' BY <1>0, <1>1 DEF TypeOK, TakeDocument
    <2>3. Len(docs[s]) \in Nat BY <2>1
    <2>4. 1 \in 1 .. Len(docs[s]) + 1 BY <2>3
    <2>5. Placed' BY <1>0, <1>1, <2>4 DEF Placed, TakeDocument
    <2>6. Combined' = Combined BY <1>0, <1>1, CombinedKept DEF TakeDocument
    <2> QED BY <1>1, <2>2, <2>5, <2>6, QuietKeeps DEF TakeDocument
<1>2. CASE EndDocument
    <2>1. TypeOK' /\ Placed' BY <1>0, <1>2 DEF TypeOK, Placed, EndDocument, Reading
    <2>2. Combined' = Combined BY <1>0, <1>2, CombinedKept DEF EndDocument
    <2> QED BY <1>2, <2>1, <2>2, QuietKeeps DEF EndDocument
<1>3. CASE Define
    <2> DEFINE d == docs[current][at]
    <2>1. Reading /\ at <= Len(docs[current]) BY <1>3 DEF Define
    <2>2. \/ /\ \/ d.kind = "object" /\ FieldConflicted(d)
                \/ d.kind # "object" /\ DefinitionConflicted(d)
             /\ Reject
          \/ /\ d.kind = "object" /\ ~FieldConflicted(d)
             /\ Put(d.name, Merged(current, d, Entry(d.name))) /\ Step
          \/ /\ d.kind # "object" /\ ~DefinitionConflicted(d)
             /\ Put(d.name, Converted(d)) /\ Step
        BY <1>3 DEF Define, DefineObject, DefineOther
    <2> QED BY <2>1, <2>2, DefineObjectKeeps, DefineOtherKeeps, RejectKeeps
<1>4. CASE Finish
    <2>1. /\ outcome' = "ok" /\ UNCHANGED <<docs, todo, current, at>>
          /\ outcome = "combining" /\ todo = {} /\ current = NoService
        BY <1>4 DEF Finish
    <2>2. DOMAIN types' \in SUBSET TypeNames /\ \A n \in DOMAIN types' : types'[n] \in MetaType
        BY <1>0, <1>4, FinishedType DEF Finish, TypeOK
    <2>3. TypeOK' BY <1>0, <2>1, <2>2 DEF TypeOK
    <2>4. Placed' BY <2>1 DEF Placed
    <2>5. Combined' = Combined BY <1>0, <2>1, CombinedKept
    <2>6. \A p : Def(p)' = Def(p) BY <2>1 DEF Def
    <2>7. FieldsOnce' BY <2>1, <2>5, <2>6 DEF IInv, FieldsOnce, Added, IsExtension
    <2> QED BY <2>1, <2>3, <2>4, <2>7 DEF IInv, Credited, Sourced, Plain, NoFalseConflict
<1>5. CASE UNCHANGED vars
    <2>1. TypeOK' /\ Placed' BY <1>0, <1>5 DEF TypeOK, Placed, vars
    <2>2. Combined' = Combined BY <1>0, <1>5, CombinedKept DEF vars
    <2> QED BY <1>5, <2>1, <2>2, QuietKeeps DEF vars
<1> QED BY <1>1, <1>2, <1>3, <1>4, <1>5 DEF Next

\* The inductive invariant holds in every reachable state.
THEOREM Invariance == Spec => []IInv
BY InitInvariant, NextInvariant, PTL DEF Spec

\* What is composed is always a map from names to types, and the loops stay
\* inside the documents.
THEOREM TypeCorrect == Spec => []TypeOK
<1>1. IInv => TypeOK BY DEF IInv
<1> QED BY <1>1, Invariance, PTL

\* No field of a composed type has two definitions, whatever the services publish
\* and whatever their order.
THEOREM FieldsDefinedOnce == Spec => []FieldsOnce
<1>1. IInv => FieldsOnce BY DEF IInv
<1> QED BY <1>1, Invariance, PTL

\* Documents are refused only for definitions that clash.
THEOREM RefusedForAReason == Spec => []NoFalseConflict
<1>1. IInv => NoFalseConflict BY DEF IInv
<1> QED BY <1>1, Invariance, PTL

-----------------------------------------------------------------------------
(* What the entry of a name holds of the definitions combined so far, in    *)
(* documents that agree: with all of them combined it is the reference.     *)

\* The definitions of the document of s that have been combined.
ReadOf(s) == IF s \in todo THEN 0 ELSE IF s = current THEN at - 1 ELSE Len(docs[s])

KeyParts(s, n, k) ==
    [i \in 1 .. k |-> IF docs[s][i].name = n THEN docs[s][i].keys ELSE <<>>]

Named(p, n) == Def(p).name = n

OwnerGathered(n) ==
    /\ \A p \in Combined : Named(p, n) /\ ~IsExtension(Def(p)) => Entry(n).owner = p[1]
    /\ (\A p \in Combined : Named(p, n) => IsExtension(Def(p))) => Entry(n).owner = NoService

KeysGathered(n) ==
    \A s \in Services : Entry(n).keys[s] = FlattenSeq(KeyParts(s, n, ReadOf(s)))

ImplementsGathered(n) ==
    \A t \in TypeNames :
        t \in Entry(n).implements <=> \E p \in Combined : Named(p, n) /\ t \in Def(p).implements

FieldsGathered(n) ==
    \A f \in FieldNames :
        /\ f \in DOMAIN Entry(n).fields <=> \E p \in Combined : Named(p, n) /\ f \in Added(Def(p))
        /\ \A p \in Combined : Named(p, n) /\ f \in Added(Def(p))
                                 => Entry(n).fields[f] = Resolver(p[1], Def(p))

Gathered(n) ==
    /\ Entry(n).kind = "object" /\ Entry(n).members = {}
    /\ OwnerGathered(n) /\ KeysGathered(n) /\ ImplementsGathered(n) /\ FieldsGathered(n)

Objects(n) == \A p \in Combined : Named(p, n) => IsObject(p)

Gathering ==
    outcome = "combining" /\ Agreeing =>
        /\ Roots \subseteq DOMAIN types
        /\ \A n \in TypeNames : Objects(n) => Gathered(n)

\* What is read of the document of s one definition further.
LEMMA KeysStep ==
    ASSUME NEW s \in Services, NEW n, NEW k \in Nat, docs[s] \in Seq(Definition),
           k + 1 <= Len(docs[s])
    PROVE  LET before == FlattenSeq(KeyParts(s, n, k))
               here == IF docs[s][k + 1].name = n THEN docs[s][k + 1].keys ELSE <<>>
           IN  /\ before \in Seq(Keys) /\ here \in Seq(Keys)
               /\ FlattenSeq(KeyParts(s, n, k + 1)) = before \o here
<1> DEFINE part(i) == IF docs[s][i].name = n THEN docs[s][i].keys ELSE <<>>
           before == KeyParts(s, n, k)
           after == KeyParts(s, n, k + 1)
<1>1. ASSUME NEW i \in 1 .. k + 1 PROVE part(i) \in Seq(Keys)
    <2>1. i \in 1 .. Len(docs[s]) BY <1>1
    <2>2. docs[s][i] \in Definition BY <2>1
    <2> QED BY <2>2 DEF Definition
<1>2. /\ before = [i \in 1 .. k |-> part(i)] /\ after = [i \in 1 .. k + 1 |-> part(i)]
    BY DEF KeyParts
<1>3. k + 1 \in 1 .. k + 1 /\ \A i \in 1 .. k : i \in 1 .. k + 1 /\ i # k + 1 BY DEF KeyParts
<1> HIDE DEF part, before, after
<1>4. before \in Seq(Seq(Keys)) /\ Len(before) = k
    BY <1>1, <1>2, <1>3
<1>5. after \in Seq(Seq(Keys)) /\ Len(after) = k + 1
    BY <1>1, <1>2
<1>6. after = Append(before, part(k + 1))
    <2>1. Append(before, part(k + 1)) \in Seq(Seq(Keys))
        BY <1>1, <1>3, <1>4
    <2>2. Len(Append(before, part(k + 1))) = k + 1 BY <1>4
    <2>3. \A i \in 1 .. k + 1 : after[i] = Append(before, part(k + 1))[i]
        BY <1>2, <1>3, <1>4
    <2> QED BY <1>5, <2>1, <2>2, <2>3
<1>7. FlattenSeq(before) \in Seq(Keys) /\ FlattenSeq(after) = FlattenSeq(before) \o part(k + 1)
    BY <1>1, <1>3, <1>4, <1>6, FlattenAppend
<1> QED BY <1>1, <1>3, <1>7 DEF before, after, part

LEMMA NothingRead ==
    ASSUME NEW s, NEW n
    PROVE  FlattenSeq(KeyParts(s, n, 0)) = <<>>
<1>1. KeyParts(s, n, 0) = <<>> BY DEF KeyParts
<1> QED BY <1>1, FlattenEmpty

\* m is what merging the definition d of s makes of e.
Merges(s, d, e, m) ==
    /\ m.kind = e.kind /\ m.members = e.members
    /\ m.owner = IF IsExtension(d) THEN e.owner ELSE s
    /\ m.keys[s] = e.keys[s] \o d.keys
    /\ \A t \in Services : t # s => m.keys[t] = e.keys[t]
    /\ m.implements = e.implements \cup d.implements
    /\ DOMAIN m.fields = DOMAIN e.fields \cup Added(d)
    /\ \A f \in Added(d) : m.fields[f] = Resolver(s, d)
    /\ \A f \in DOMAIN e.fields : f \notin Added(d) => m.fields[f] = e.fields[f]

LEMMA MergedMerges ==
    ASSUME NEW s \in Services, NEW d \in Definition, NEW e \in MetaType
    PROVE  Merges(s, d, e, Merged(s, d, e))
<1>1. e.keys \in [Services -> Seq(Keys)] BY DEF MetaType
<1> QED BY <1>1 DEF Merges, Merged, MetaType

LEMMA EntryType ==
    ASSUME TypeOK, NEW n
    PROVE  Entry(n) \in MetaType
BY EmptyType DEF TypeOK, Entry

\* What a step that reads a definition leaves as it is.
LEMMA StepReads ==
    ASSUME TypeOK, Placed, Reading, at <= Len(docs[current]), Step
    PROVE  /\ docs[current] \in Seq(Definition)
           /\ at - 1 \in Nat /\ (at - 1) + 1 = at
           /\ ReadOf(current) = at - 1 /\ ReadOf(current)' = at
           /\ \A s \in Services : s # current => ReadOf(s)' = ReadOf(s)
<1>1. docs[current] \in Seq(Definition)
    BY DocumentsAssumption DEF TypeOK, Reading
<1>2. at \in Nat /\ at >= 1 BY DEF TypeOK, Placed, Reading
<1>3. current \notin todo BY DEF Placed, Reading
<1>4. ReadOf(current) = at - 1 BY <1>3 DEF ReadOf
<1>5. ReadOf(current)' = at BY <1>2, <1>3 DEF ReadOf, Step
<1>6. \A s \in Services : s # current => ReadOf(s)' = ReadOf(s) BY DEF ReadOf, Step
<1> QED BY <1>1, <1>2, <1>4, <1>5, <1>6

\* A step that reads a definition adds its keys to those of its service and name.
LEMMA KeysRead ==
    ASSUME TypeOK, Placed, Reading, at <= Len(docs[current]), Step,
           NEW n, NEW s \in Services
    PROVE  LET before == FlattenSeq(KeyParts(s, n, ReadOf(s)))
               d == docs[current][at]
           IN  FlattenSeq(KeyParts(s, n, ReadOf(s)')) =
                   IF s = current /\ d.name = n THEN before \o d.keys ELSE before
<1>1. CASE s # current BY <1>1, StepReads
<1>2. CASE s = current
    <2> DEFINE k == at - 1
               before == FlattenSeq(KeyParts(s, n, k))
               d == docs[s][k + 1]
               here == IF d.name = n THEN d.keys ELSE <<>>
    <2>1. docs[s] \in Seq(Definition) /\ k \in Nat /\ k + 1 = at
        BY <1>2, StepReads
    <2>2. ReadOf(s) = k /\ ReadOf(s)' = k + 1
        <3>1. ReadOf(current) = at - 1 /\ ReadOf(current)' = at BY StepReads
        <3>2. ReadOf(s)' = ReadOf(current)' BY <1>2 DEF ReadOf, Step
        <3> QED BY <1>2, <2>1, <3>1, <3>2
    <2>3. k + 1 <= Len(docs[s]) BY <1>2, <2>1
    <2> HIDE DEF k
    <2>4. before \in Seq(Keys) /\ FlattenSeq(KeyParts(s, n, k + 1)) = before \o here
        BY <2>1, <2>3, KeysStep
    <2>5. before \o <<>> = before
        <3> HIDE DEF before
        <3> QED BY <2>4
    <2>6. docs[current][at] = d BY <1>2, <2>1
    <2> HIDE DEF before, d
    <2>7. FlattenSeq(KeyParts(s, n, ReadOf(s)')) = IF d.name = n THEN before \o d.keys ELSE before
        BY <2>2, <2>4, <2>5
    <2>8. FlattenSeq(KeyParts(s, n, ReadOf(s))) = before BY <2>2 DEF before
    <2> QED BY <1>2, <2>6, <2>7, <2>8
<1> QED BY <1>1, <1>2

\* Agreement is a matter of the documents.
LEMMA AgreeingKept == docs' = docs => (Agreeing' <=> Agreeing)
<1> SUFFICES ASSUME docs' = docs PROVE Agreeing' <=> Agreeing OBVIOUS
<1>1. Places' = Places /\ \A p : Def(p)' = Def(p) BY DocsKept
<1> QED BY <1>1 DEF Agreeing, IsExtension

\* The entry of another name than the one that is defined.
LEMMA GatherElsewhere ==
    ASSUME TypeOK, Placed, Reading, at <= Len(docs[current]), Step,
           NEW n, Def(<<current, at>>).name # n, Entry(n)' = Entry(n),
           Objects(n)', Objects(n) => Gathered(n)
    PROVE  Gathered(n)'
<1> DEFINE here == <<current, at>>
<1>1. /\ Def(here) = docs[current][at]
      /\ Combined' = Combined \cup {here}
    BY CombinedGrows
<1>2. docs' = docs BY DEF Step
<1>3. \A p : Def(p)' = Def(p) BY <1>2, DocsKept
<1> HIDE DEF here
<1>4. \A p : Named(p, n)' <=> Named(p, n) BY <1>3 DEF Named
<1>5. ~Named(here, n) BY DEF Named, here
<1>6. Objects(n) BY <1>1, <1>3, <1>4 DEF Objects, IsObject
<1>7. Gathered(n) BY <1>6
<1>8. OwnerGathered(n)'
    BY <1>1, <1>3, <1>4, <1>5, <1>7 DEF Gathered, OwnerGathered, IsExtension
<1>9. KeysGathered(n)'
    <2>1. ASSUME NEW s \in Services
          PROVE  Entry(n).keys[s] = FlattenSeq(KeyParts(s, n, ReadOf(s)'))
        <3>1. Entry(n).keys[s] = FlattenSeq(KeyParts(s, n, ReadOf(s)))
            BY <1>7 DEF Gathered, KeysGathered
        <3>2. docs[current][at].name # n BY <1>1 DEF here
        <3>3. FlattenSeq(KeyParts(s, n, ReadOf(s)')) = FlattenSeq(KeyParts(s, n, ReadOf(s)))
            BY <3>2, KeysRead
        <3> QED BY <3>1, <3>3
    <2> QED BY <1>2, <2>1 DEF KeysGathered, KeyParts
<1>10. ImplementsGathered(n)'
    BY <1>1, <1>3, <1>4, <1>5, <1>7 DEF Gathered, ImplementsGathered
<1>11. FieldsGathered(n)'
    BY <1>1, <1>3, <1>4, <1>5, <1>7 DEF Gathered, FieldsGathered, Added, IsExtension, Resolver
<1> QED BY <1>7, <1>8, <1>9, <1>10, <1>11 DEF Gathered

\* The entry of the object that is defined.
LEMMA GatherHere ==
    ASSUME TypeOK, Placed, Reading, at <= Len(docs[current]), Step, Agreeing,
           NEW d, d = docs[current][at], ~FieldConflicted(d),
           Entry(d.name)' = Merged(current, d, Entry(d.name)),
           Objects(d.name)', Objects(d.name) => Gathered(d.name)
    PROVE  Gathered(d.name)'
<1> DEFINE here == <<current, at>>
           n == d.name
           e == Entry(n)
           m == Merged(current, d, e)
<1>1. /\ here \in Places \ Combined
      /\ Def(here) = d
      /\ Combined' = Combined \cup {here}
      /\ here[1] = current
    BY CombinedGrows
<1>2. docs' = docs BY DEF Step
<1>3. \A p : Def(p)' = Def(p) BY <1>2, DocsKept
<1>4. d \in Definition /\ current \in Services BY <1>1, DefType DEF TypeOK, Reading
<1>5. e \in MetaType BY EntryType
<1>6. Merges(current, d, e, m)
    <2> HIDE DEF e
    <2> QED BY <1>4, <1>5, MergedMerges
<1>7. Added(d) \cap DOMAIN e.fields = {} BY DEF FieldConflicted
<1>8. Entry(n)' = m OBVIOUS
<1>9. \A p : Named(p, n)' <=> Named(p, n) BY <1>3 DEF Named
<1>10. Named(here, n) BY <1>1 DEF Named
<1>11. Combined \subseteq Places BY DEF Combined
<1> HIDE DEF here, n, e, m
<1>12. Objects(n) BY <1>1, <1>3, <1>9 DEF Objects, IsObject, n
<1>13. Gathered(n) BY <1>12 DEF n
<1>14. OwnerGathered(n)'
    <2>0. IsObject(here)
        BY <1>1, <1>3, <1>9, <1>10 DEF Objects, IsObject, n
    <2>1. ASSUME NEW p \in Combined, Named(p, n) PROVE IsExtension(Def(p)) \/ IsExtension(d)
        BY <1>1, <1>10, <1>11, <2>0, <2>1 DEF Agreeing, Named, IsObject
    <2>2. ASSUME NEW p \in Combined', Named(p, n), ~IsExtension(Def(p)) PROVE m.owner = p[1]
        <3>1. CASE p = here BY <1>1, <1>6, <2>2, <3>1 DEF Merges
        <3>2. CASE p # here
            <4>1. p \in Combined BY <1>1, <3>2
            <4>2. e.owner = p[1] BY <1>13, <2>2, <4>1 DEF Gathered, OwnerGathered, e
            <4> QED BY <1>6, <2>1, <2>2, <4>1, <4>2 DEF Merges
        <3> QED BY <3>1, <3>2
    <2>3. ASSUME \A p \in Combined' : Named(p, n) => IsExtension(Def(p)) PROVE m.owner = NoService
        <3>1. IsExtension(d) BY <1>1, <1>10, <2>3
        <3>2. e.owner = NoService BY <1>1, <1>13, <2>3 DEF Gathered, OwnerGathered, e
        <3> QED BY <1>6, <3>1, <3>2 DEF Merges
    <2> QED BY <1>3, <1>8, <1>9, <2>2, <2>3 DEF OwnerGathered, IsExtension
<1>15. KeysGathered(n)'
    <2>1. ASSUME NEW s \in Services
          PROVE  m.keys[s] = FlattenSeq(KeyParts(s, n, ReadOf(s)'))
        <3>1. e.keys[s] = FlattenSeq(KeyParts(s, n, ReadOf(s)))
            BY <1>13 DEF Gathered, KeysGathered, e
        <3>2. docs[current][at] = d /\ d.name = n BY DEF n
        <3>3. FlattenSeq(KeyParts(s, n, ReadOf(s)')) =
                  IF s = current THEN FlattenSeq(KeyParts(s, n, ReadOf(s))) \o d.keys
                  ELSE FlattenSeq(KeyParts(s, n, ReadOf(s)))
            BY <3>2, KeysRead
        <3> QED BY <1>6, <3>1, <3>3 DEF Merges
    <2> QED BY <1>2, <1>8, <2>1 DEF KeysGathered, KeyParts
<1>16. ImplementsGathered(n)'
    <2>1. ASSUME NEW t \in TypeNames
          PROVE  t \in m.implements <=> \E p \in Combined' : Named(p, n) /\ t \in Def(p).implements
        BY <1>1, <1>6, <1>10, <1>13 DEF Gathered, ImplementsGathered, e, Merges
    <2> QED BY <1>3, <1>8, <1>9, <2>1 DEF ImplementsGathered
<1>17. FieldsGathered(n)'
    <2>1. ASSUME NEW f \in FieldNames
          PROVE  f \in DOMAIN m.fields <=> \E p \in Combined' : Named(p, n) /\ f \in Added(Def(p))
        BY <1>1, <1>6, <1>10, <1>13 DEF Gathered, FieldsGathered, e, Merges
    <2>2. ASSUME NEW f \in FieldNames, NEW p \in Combined', Named(p, n), f \in Added(Def(p))
          PROVE  m.fields[f] = Resolver(p[1], Def(p))
        <3>1. CASE p = here BY <1>1, <1>6, <2>2, <3>1 DEF Merges
        <3>2. CASE p # here
            <4>1. p \in Combined BY <1>1, <3>2
            <4>2. f \in DOMAIN e.fields /\ e.fields[f] = Resolver(p[1], Def(p))
                BY <1>13, <2>2, <4>1 DEF Gathered, FieldsGathered, e
            <4> QED BY <1>6, <1>7, <4>2 DEF Merges
        <3> QED BY <3>1, <3>2
    <2> QED BY <1>3, <1>8, <1>9, <2>1, <2>2 DEF FieldsGathered, Added, IsExtension, Resolver
<1> QED BY <1>6, <1>8, <1>13, <1>14, <1>15, <1>16, <1>17 DEF Gathered, n, e, Merges

\* Taking a document and leaving one read nothing.
LEMMA ReadKept ==
    ASSUME TypeOK, Placed, docs' = docs,
           \/ \E s \in Services : TakeDocument(s)
           \/ EndDocument
           \/ UNCHANGED <<todo, current, at>>
    PROVE  \A s \in Services : ReadOf(s)' = ReadOf(s)
<1>1. CASE \E s \in Services : TakeDocument(s)
    BY <1>1, NamesAssumption DEF ReadOf, TakeDocument, TypeOK
<1>2. CASE EndDocument
    <2>1. docs[current] \in Seq(Definition)
        BY <1>2, DocumentsAssumption DEF EndDocument, Reading, TypeOK
    <2>2. at - 1 = Len(docs[current])
        BY <1>2, <2>1 DEF EndDocument, Reading, Placed, TypeOK
    <2> QED BY <1>2, <2>2, NamesAssumption DEF ReadOf, EndDocument, Reading, Placed
<1>3. CASE UNCHANGED <<todo, current, at>> BY <1>3 DEF ReadOf
<1> QED BY <1>1, <1>2, <1>3

LEMMA GatherNothing ==
    ASSUME Gathering, UNCHANGED <<docs, types, outcome>>, Combined' = Combined,
           \A s \in Services : ReadOf(s)' = ReadOf(s)
    PROVE  Gathering'
<1>1. \A p : Def(p)' = Def(p) BY DocsKept
<1>2. \A p, n : Named(p, n)' <=> Named(p, n) BY <1>1 DEF Named
<1>3. \A n : Entry(n)' = Entry(n) BY DEF Entry
<1>4. ASSUME NEW n, Gathered(n) PROVE Gathered(n)'
    <2>1. OwnerGathered(n)'
        BY <1>1, <1>2, <1>3, <1>4 DEF Gathered, OwnerGathered, IsExtension
    <2>2. KeysGathered(n)' BY <1>3, <1>4 DEF Gathered, KeysGathered, KeyParts
    <2>3. ImplementsGathered(n)'
        BY <1>1, <1>2, <1>3, <1>4 DEF Gathered, ImplementsGathered
    <2>4. FieldsGathered(n)'
        BY <1>1, <1>2, <1>3, <1>4 DEF Gathered, FieldsGathered, Added, IsExtension, Resolver
    <2> QED BY <1>3, <1>4, <2>1, <2>2, <2>3, <2>4 DEF Gathered
<1>5. \A n : Objects(n)' <=> Objects(n) BY <1>1, <1>2 DEF Objects, IsObject
<1>6. Agreeing' <=> Agreeing BY AgreeingKept
<1> HIDE DEF Gathered
<1> QED BY <1>4, <1>5, <1>6 DEF Gathering

LEMMA GatheringInit == Init => Gathering
<1> SUFFICES ASSUME Init PROVE Gathering OBVIOUS
<1>1. Combined = {} BY DEF Init, Combined, Places
<1>2. \A n : Entry(n) = EmptyObject BY DEF Init, Entry
<1>3. \A s \in Services : ReadOf(s) = 0 BY DEF Init, ReadOf
<1>4. ASSUME NEW n PROVE Gathered(n)
    <2>1. KeysGathered(n)
        BY <1>2, <1>3, NothingRead DEF KeysGathered, EmptyObject, NoKeys
    <2> QED BY <1>1, <1>2, <2>1 DEF Gathered, OwnerGathered, ImplementsGathered, FieldsGathered, EmptyObject
<1>5. Roots \subseteq DOMAIN types BY DEF Init
<1> QED BY <1>4, <1>5 DEF Gathering

LEMMA GatheringStep ==
    ASSUME IInv, Gathering, [Next]_vars
    PROVE  Gathering'
<1>0. TypeOK /\ Placed BY DEF IInv
<1>1. ASSUME \/ \E s \in Services : TakeDocument(s)
             \/ EndDocument
             \/ UNCHANGED vars
      PROVE  Gathering'
    <2>1. UNCHANGED <<docs, types, outcome>>
        BY <1>1 DEF TakeDocument, EndDocument, vars
    <2>2. \/ \E s \in Services : TakeDocument(s)
          \/ EndDocument
          \/ UNCHANGED <<todo, current, at>>
        BY <1>1 DEF vars
    <2>3. Combined' = Combined BY <1>0, <2>1, <2>2, CombinedKept
    <2>4. \A s \in Services : ReadOf(s)' = ReadOf(s) BY <1>0, <2>1, <2>2, ReadKept
    <2> QED BY <2>1, <2>3, <2>4, GatherNothing
<1>2. CASE Finish BY <1>2 DEF Finish, Gathering
<1>3. CASE Define
    <2>1. Reading /\ at <= Len(docs[current]) BY <1>3 DEF Define
    <2>2. CASE Reject BY <2>2 DEF Reject, Gathering
    <2>3. ASSUME Step, NEW d, d = docs[current][at], NEW m, Put(d.name, m),
                 \/ d.kind = "object" /\ ~FieldConflicted(d) /\ m = Merged(current, d, Entry(d.name))
                 \/ d.kind # "object"
          PROVE  Gathering'
        <3>0. outcome = "combining" /\ docs' = docs BY <2>1, <2>3 DEF Reading, Step
        <3>1. Def(<<current, at>>) = d /\ Combined' = Combined \cup {<<current, at>>}
            BY <1>0, <2>1, <2>3, CombinedGrows
        <3>2. SUFFICES ASSUME Agreeing, NEW n \in TypeNames, Objects(n)' PROVE Gathered(n)'
            <4>1. DOMAIN types \subseteq DOMAIN types' BY <2>3 DEF Put
            <4> QED BY <3>0, <4>1, AgreeingKept DEF Gathering
        <3>3. Objects(n) => Gathered(n) BY <3>0, <3>2 DEF Gathering
        <3>4. CASE n # d.name
            <4>1. Entry(n)' = Entry(n) BY <2>3, <3>4 DEF Put, Entry
            <4> QED BY <1>0, <2>1, <2>3, <3>1, <3>2, <3>3, <3>4, <4>1, GatherElsewhere
        <3>5. CASE n = d.name
            <4>1. \A p : Def(p)' = Def(p) BY <3>0, DocsKept
            <4>2. d.kind = "object"
                BY <3>1, <3>2, <3>5, <4>1 DEF Objects, Named, IsObject
            <4>3. ~FieldConflicted(d) /\ Entry(d.name)' = Merged(current, d, Entry(d.name))
                BY <2>3, <4>2 DEF Put, Entry
            <4> QED BY <1>0, <2>1, <2>3, <3>2, <3>3, <3>5, <4>3, GatherHere
        <3> QED BY <3>4, <3>5
    <2>4. PICK d : d = docs[current][at] OBVIOUS
    <2>5. \/ Reject
          \/ d.kind = "object" /\ ~FieldConflicted(d) /\ Put(d.name, Merged(current, d, Entry(d.name))) /\ Step
          \/ d.kind # "object" /\ Put(d.name, Converted(d)) /\ Step
        BY <1>3, <2>4 DEF Define, DefineObject, DefineOther
    <2> QED BY <2>2, <2>3, <2>4, <2>5
<1> QED BY <1>1, <1>2, <1>3 DEF Next

-----------------------------------------------------------------------------
(* What is composed of all definitions is the reference.                    *)

\* The last step is taken.
Complete == outcome = "combining" /\ todo = {} /\ current = NoService

LEMMA AllCombined ==
    ASSUME TypeOK, Complete
    PROVE  /\ Combined = Places
           /\ \A s \in Services : ReadOf(s) = Len(docs[s])
<1>1. ASSUME NEW p \in Places PROVE p \in Combined
    BY DefType, NamesAssumption DEF Complete, Combined
<1> QED BY <1>1, NamesAssumption DEF Complete, Combined, ReadOf

\* The names of the types that are composed.
LEMMA ComposedNames ==
    ASSUME IInv, Gathering, Agreeing, Complete
    PROVE  DOMAIN types = Roots \cup {Def(p).name : p \in Places}
<1>1. Combined = Places BY AllCombined DEF IInv
<1>2. ASSUME NEW p \in Places PROVE Def(p).name \in DOMAIN types
    <2>1. CASE IsObject(p) BY <1>1, <2>1 DEF IInv, Credited, Complete
    <2>2. CASE ~IsObject(p)
        <3>1. Def(p).name \notin Roots BY <2>2 DEF Agreeing, IsObject
        <3>2. \A q \in Combined : Same(p, q) => ~IsObject(q)
            BY <1>1, <2>2 DEF Agreeing, IsObject, Same
        <3> QED BY <1>1, <2>2, <3>1, <3>2 DEF IInv, Plain, Complete
    <2> QED BY <2>1, <2>2
<1>3. \A n \in DOMAIN types : n \in Roots \/ \E p \in Places : Def(p).name = n
    BY <1>1 DEF IInv, Sourced, Complete
<1>4. Roots \subseteq DOMAIN types
    BY DEF Gathering, Complete
<1> QED BY <1>2, <1>3, <1>4

LEMMA RecordOf ==
    ASSUME NEW m \in MetaType
    PROVE  m = [kind |-> m.kind, owner |-> m.owner, keys |-> m.keys, implements |-> m.implements,
                fields |-> m.fields, members |-> m.members]
BY DEF MetaType

\* An entry that holds what all definitions say is the reference, but for the
\* introspection fields.
LEMMA GatheredReference ==
    ASSUME TypeOK, Complete, NEW n, Gathered(n)
    PROVE  /\ Entry(n).kind = ReferenceObject(n).kind
           /\ Entry(n).owner = ReferenceObject(n).owner
           /\ Entry(n).keys = ReferenceObject(n).keys
           /\ Entry(n).implements = ReferenceObject(n).implements
           /\ Entry(n).members = ReferenceObject(n).members
           /\ DOMAIN Entry(n).fields = UNION {Added(Def(p)) : p \in DefsOf(n)}
           /\ \A f \in DOMAIN Entry(n).fields :
                  Entry(n).fields[f] = LET p == CHOOSE p \in AddersOf(n, f) : TRUE
                                       IN IF p \in OwnersOf(n) THEN NoService ELSE p[1]
<1> DEFINE e == Entry(n)
<1>1. Combined = Places /\ \A s \in Services : ReadOf(s) = Len(docs[s]) BY AllCombined
<1>2. e \in MetaType BY EntryType
<1>3. \A p : p \in DefsOf(n) <=> p \in Combined /\ Named(p, n) BY <1>1 DEF DefsOf, Named
<1>4. \A p \in DefsOf(n) : Def(p) \in Definition BY DefType DEF DefsOf
<1>5. ASSUME NEW d \in Definition PROVE d.implements \subseteq TypeNames /\ Added(d) \subseteq FieldNames
    BY DEF Definition, Added
<1> HIDE DEF e
<1>6. e.kind = "object" /\ e.members = {} BY DEF Gathered, e
<1>7. e.owner = IF OwnersOf(n) = {} THEN NoService ELSE (CHOOSE p \in OwnersOf(n) : TRUE)[1]
    <2>1. \A p \in OwnersOf(n) : e.owner = p[1]
        BY <1>3 DEF Gathered, OwnerGathered, OwnersOf, e
    <2>2. OwnersOf(n) = {} => e.owner = NoService
        BY <1>3 DEF Gathered, OwnerGathered, OwnersOf, e
    <2> QED BY <2>1, <2>2
<1>8. e.keys = [s \in Services |-> KeysOf(s, n)]
    <2>1. e.keys \in [Services -> Seq(Keys)] BY <1>2 DEF MetaType
    <2>2. ASSUME NEW s \in Services PROVE e.keys[s] = KeysOf(s, n)
        BY <1>1 DEF Gathered, KeysGathered, KeyParts, KeysOf, e
    <2> QED BY <2>1, <2>2
<1>9. e.implements = UNION {Def(p).implements : p \in DefsOf(n)}
    <2>1. e.implements \subseteq TypeNames BY <1>2 DEF MetaType
    <2>2. \A t \in TypeNames : t \in e.implements <=> \E p \in DefsOf(n) : t \in Def(p).implements
        BY <1>3 DEF Gathered, ImplementsGathered, e
    <2> QED BY <1>4, <1>5, <2>1, <2>2
<1>10. DOMAIN e.fields \subseteq FieldNames BY <1>2 DEF MetaType
<1>11. DOMAIN e.fields = UNION {Added(Def(p)) : p \in DefsOf(n)}
    <2>1. \A f \in FieldNames : f \in DOMAIN e.fields <=> \E p \in DefsOf(n) : f \in Added(Def(p))
        BY <1>3 DEF Gathered, FieldsGathered, e
    <2> QED BY <1>4, <1>5, <1>10, <2>1
<1>12. ASSUME NEW f \in DOMAIN e.fields
       PROVE  e.fields[f] = LET p == CHOOSE p \in AddersOf(n, f) : TRUE
                            IN IF p \in OwnersOf(n) THEN NoService ELSE p[1]
    <2> DEFINE p == CHOOSE q \in AddersOf(n, f) : TRUE
    <2>1. p \in AddersOf(n, f) BY <1>11 DEF AddersOf
    <2> HIDE DEF p
    <2>2. p \in DefsOf(n) /\ f \in Added(Def(p)) BY <2>1 DEF AddersOf
    <2>3. e.fields[f] = Resolver(p[1], Def(p))
        BY <1>3, <1>10, <2>2 DEF Gathered, FieldsGathered, e
    <2>4. p \in OwnersOf(n) <=> ~IsExtension(Def(p)) BY <2>2 DEF OwnersOf
    <2> QED BY <2>3, <2>4 DEF Resolver, p
<1> QED BY <1>6, <1>7, <1>8, <1>9, <1>11, <1>12 DEF ReferenceObject, e

\* The entry of an object has all there is to it.
LEMMA ObjectEntry ==
    ASSUME IInv, Gathering, Agreeing, Complete, NEW n \in DOMAIN types,
           n \in Roots \/ \E p \in DefsOf(n) : IsObject(p)
    PROVE  n \in TypeNames /\ Entry(n) = types[n] /\ Gathered(n)
<1>1. Combined = Places /\ n \in TypeNames BY AllCombined DEF IInv, TypeOK
<1>2. ASSUME NEW p \in Combined, Named(p, n) PROVE IsObject(p)
    BY <1>1, <1>2 DEF Agreeing, DefsOf, Named, IsObject
<1> QED BY <1>1, <1>2 DEF Gathering, Complete, Objects, Entry

LEMMA OtherEntry ==
    ASSUME IInv, Agreeing, Complete, NEW n \in DOMAIN types,
           n \notin Roots, \A p \in DefsOf(n) : ~IsObject(p)
    PROVE  DefsOf(n) # {} /\ \A p \in DefsOf(n) : types[n] = Converted(Def(p))
<1>1. Combined = Places BY AllCombined DEF IInv
<1>2. \A p : p \in DefsOf(n) <=> p \in Combined /\ Def(p).name = n BY <1>1 DEF DefsOf
<1>3. DefsOf(n) # {} BY <1>2 DEF IInv, Sourced, Complete
<1>4. ASSUME NEW p \in DefsOf(n) PROVE types[n] = Converted(Def(p))
    BY <1>2 DEF IInv, Plain, Complete, Same
<1> QED BY <1>3, <1>4

LEMMA KeptDescribed ==
    ASSUME IInv, Gathering, Agreeing, Complete
    PROVE  Kept(types) = Described
<1>1. DOMAIN types = Roots \cup {Def(p).name : p \in Places} BY ComposedNames
<1>2. ASSUME NEW n \in {"Mutation", "Subscription"}
      PROVE  DOMAIN types[n].fields # {} <=> \E p \in DefsOf(n) : Added(Def(p)) # {}
    <2>1. n \in DOMAIN types /\ n \in Roots BY <1>1 DEF Roots
    <2>2. Entry(n) = types[n] /\ Gathered(n) BY <2>1, ObjectEntry
    <2>3. DOMAIN types[n].fields = UNION {Added(Def(p)) : p \in DefsOf(n)}
        BY <2>2, GatheredReference DEF IInv
    <2> QED BY <2>3
<1>3. ASSUME NEW n \in {"Mutation", "Subscription"}, NEW p \in DefsOf(n)
      PROVE  n \in {Def(q).name : q \in Places}
    BY <1>3 DEF DefsOf
<1> QED BY <1>1, <1>2, <1>3 DEF Kept, Described, Roots

\* The type of a name before its possible types are filled in.
LEMMA DeclaredType ==
    ASSUME IInv, Gathering, Agreeing, Complete, NEW n \in Described, n \notin Builtins
    PROVE  WithBuiltins(types)[n] = Declared(n)
<1> DEFINE t == types[n]
           b == WithBuiltins(types)[n]
<1>1. n \in Kept(types) /\ n \in DOMAIN types BY KeptDescribed DEF Kept
<1>2. b = IF n = "Query"
          THEN [t EXCEPT !.fields = [f \in DOMAIN @ \cup Introspection |->
                                        IF f \in Introspection THEN NoService ELSE @[f]]]
          ELSE t
    BY <1>1 DEF WithBuiltins
<1>3. t \in MetaType BY <1>1 DEF IInv, TypeOK
<1>4. ASSUME n \in Roots \/ \E p \in DefsOf(n) : IsObject(p)
      PROVE  b = ReferenceObject(n)
    <2> DEFINE own == IF n = "Query" THEN Introspection ELSE {}
               r == ReferenceObject(n)
               F == [f \in DOMAIN t.fields \cup own |-> IF f \in own THEN NoService ELSE t.fields[f]]
    <2>1. Entry(n) = t /\ Gathered(n) BY <1>1, <1>4, ObjectEntry
    <2>2. /\ t.kind = r.kind /\ t.owner = r.owner /\ t.keys = r.keys
          /\ t.implements = r.implements /\ t.members = r.members
          /\ DOMAIN t.fields = UNION {Added(Def(p)) : p \in DefsOf(n)}
          /\ \A f \in DOMAIN t.fields :
                  t.fields[f] = LET p == CHOOSE p \in AddersOf(n, f) : TRUE
                                IN IF p \in OwnersOf(n) THEN NoService ELSE p[1]
        BY <2>1, GatheredReference DEF IInv
    <2>3. r.fields = [f \in (UNION {Added(Def(p)) : p \in DefsOf(n)}) \cup own |->
                         IF f \in own THEN NoService
                         ELSE LET p == CHOOSE p \in AddersOf(n, f) : TRUE
                              IN IF p \in OwnersOf(n) THEN NoService ELSE p[1]]
        BY DEF ReferenceObject
    <2>4. r.fields = F BY <2>2, <2>3
    <2>5. r = [kind |-> r.kind, owner |-> r.owner, keys |-> r.keys, implements |-> r.implements,
               fields |-> r.fields, members |-> r.members]
        BY DEF ReferenceObject
    <2>6. t = [kind |-> t.kind, owner |-> t.owner, keys |-> t.keys, implements |-> t.implements,
               fields |-> t.fields, members |-> t.members]
        BY <1>3, RecordOf
    <2>7. b = [kind |-> t.kind, owner |-> t.owner, keys |-> t.keys, implements |-> t.implements,
               fields |-> F, members |-> t.members]
        <3>1. CASE n = "Query" BY <1>2, <2>6, <3>1
        <3>2. CASE n # "Query"
            <4>1. own = {} BY <3>2
            <4>2. F = t.fields
                <5>1. PICK G \in SUBSET FieldNames : t.fields \in [G -> Services \cup {NoService}]
                    BY <1>3 DEF MetaType
                <5> QED BY <4>1, <5>1
            <4> QED BY <1>2, <2>6, <3>2, <4>2
        <3> QED BY <3>1, <3>2
    <2> HIDE DEF F, r
    <2> QED BY <2>2, <2>4, <2>5, <2>7 DEF r
<1>5. ASSUME n \notin Roots, \A p \in DefsOf(n) : ~IsObject(p)
      PROVE  b = Converted(Def(CHOOSE p \in DefsOf(n) : TRUE))
    <2>1. DefsOf(n) # {} /\ \A p \in DefsOf(n) : t = Converted(Def(p))
        BY <1>1, <1>5, OtherEntry
    <2>2. n # "Query" BY <1>5 DEF Roots
    <2> QED BY <1>2, <2>1, <2>2
<1>6. n \in Roots /\ n # "Query" => \E p \in DefsOf(n) : Def(p).kind = "object"
    BY DEF Described, Roots, Agreeing, DefsOf
<1> QED BY <1>4, <1>5, <1>6 DEF Declared, IsObject, Roots

LEMMA ImplementersDescribed ==
    ASSUME IInv, Gathering, Agreeing, Complete, NEW n \in TypeNames
    PROVE  Implementers(WithBuiltins(types), n) = DescribedImplementers(n)
<1> DEFINE bs == WithBuiltins(types)
<1>1. DOMAIN bs = Described \cup Builtins BY KeptDescribed DEF WithBuiltins
<1>2. ASSUME NEW t \in Builtins
      PROVE  bs[t].kind # "object" /\ t \notin DescribedImplementers(n)
    <2>1. bs[t] = Builtin BY <1>1 DEF WithBuiltins
    <2>2. Builtin.kind = "builtin" BY DEF Builtin, EmptyObject
    <2>3. DefsOf(t) = {} BY DEF Agreeing, DefsOf
    <2> QED BY <2>1, <2>2, <2>3 DEF DescribedImplementers
<1>3. ASSUME NEW t \in Described, t \notin Builtins
      PROVE  bs[t].kind = "object" /\ n \in bs[t].implements
                 <=> \E p \in DefsOf(t) : Def(p).kind = "object" /\ n \in Def(p).implements
    <2>1. bs[t] = Declared(t) BY <1>3, DeclaredType
    <2>2. t \in DOMAIN types BY KeptDescribed DEF Kept
    <2>3. CASE t = "Query" \/ \E p \in DefsOf(t) : IsObject(p)
        <3>1. Declared(t) = ReferenceObject(t) BY <2>3 DEF Declared, IsObject
        <3>2. /\ ReferenceObject(t).kind = "object"
              /\ ReferenceObject(t).implements = UNION {Def(p).implements : p \in DefsOf(t)}
            BY DEF ReferenceObject
        <3>3. \A p \in DefsOf(t) : Def(p).kind = "object"
            BY <2>3 DEF Agreeing, DefsOf, IsObject, Roots
        <3> QED BY <2>1, <3>1, <3>2, <3>3
    <2>4. CASE t # "Query" /\ \A p \in DefsOf(t) : ~IsObject(p)
        <3>1. t \notin Roots BY <2>4 DEF Described, Roots, Agreeing, DefsOf, IsObject
        <3>2. PICK p \in DefsOf(t) : Declared(t) = Converted(Def(p))
            BY <2>2, <2>4, <3>1, OtherEntry DEF Declared, IsObject
        <3>3. Converted(Def(p)).kind # "object" BY <2>4 DEF Converted, IsObject
        <3> QED BY <2>1, <2>4, <3>2, <3>3 DEF IsObject
    <2> QED BY <2>3, <2>4
<1> HIDE DEF bs
<1>4. Implementers(bs, n) = {t \in Described \cup Builtins : bs[t].kind = "object" /\ n \in bs[t].implements}
    BY <1>1 DEF Implementers
<1> QED BY <1>2, <1>3, <1>4 DEF DescribedImplementers, bs

LEMMA FinishReference ==
    ASSUME IInv, Gathering, Agreeing, Complete
    PROVE  WithPossibleTypes(WithBuiltins(types)) = Reference
<1> DEFINE bs == WithBuiltins(types)
           base(n) == IF n \in Builtins THEN Builtin ELSE Declared(n)
<1>1. DOMAIN bs = Described \cup Builtins BY KeptDescribed DEF WithBuiltins
<1>2. ASSUME NEW n \in DOMAIN bs PROVE bs[n] = base(n)
    <2>1. CASE n \in Builtins BY <1>1, <2>1 DEF WithBuiltins
    <2>2. CASE n \notin Builtins BY <1>1, <2>2, DeclaredType
    <2> QED BY <2>1, <2>2
<1>3. Described \subseteq TypeNames
    BY KeptDescribed DEF Kept, IInv, TypeOK
<1>4. ASSUME NEW n \in DOMAIN bs PROVE Implementers(bs, n) = DescribedImplementers(n)
    BY <1>1, <1>3, ImplementersDescribed, NamesAssumption
<1>5. ASSUME NEW n \in DOMAIN bs PROVE bs[n] \in MetaType
    BY WithBuiltinsType DEF IInv, TypeOK
<1> HIDE DEF bs, base
<1>6. ASSUME NEW n \in DOMAIN bs
      PROVE  (IF Implementers(bs, n) = {} THEN bs[n]
              ELSE [bs[n] EXCEPT !.members = Implementers(bs, n)])
             = [base(n) EXCEPT !.members = IF DescribedImplementers(n) = {} THEN @
                                           ELSE DescribedImplementers(n)]
    <2>1. CASE DescribedImplementers(n) = {}
        <3>1. [bs[n] EXCEPT !.members = @] = bs[n] BY <1>5 DEF MetaType
        <3> QED BY <1>2, <1>4, <2>1, <3>1
    <2>2. CASE DescribedImplementers(n) # {} BY <1>2, <1>4, <2>2
    <2> QED BY <2>1, <2>2
<1>7. Reference = [n \in DOMAIN bs |-> [base(n) EXCEPT !.members = IF DescribedImplementers(n) = {} THEN @
                                                                   ELSE DescribedImplementers(n)]]
    BY <1>1 DEF Reference, base
<1>8. WithPossibleTypes(bs) = [n \in DOMAIN bs |->
          IF Implementers(bs, n) = {} THEN bs[n]
          ELSE [bs[n] EXCEPT !.members = Implementers(bs, n)]]
    BY DEF WithPossibleTypes
<1>9. WithPossibleTypes(bs) = Reference BY <1>6, <1>7, <1>8
<1> QED BY <1>9 DEF bs

\* What the documents describe does not change.
LEMMA ReferenceKept ==
    ASSUME docs' = docs
    PROVE  Reference' = Reference
<1>1. Places' = Places /\ \A p : Def(p)' = Def(p) BY DocsKept
<1>2. \A n : DefsOf(n)' = DefsOf(n) BY <1>1 DEF DefsOf
<1>3. \A n : OwnersOf(n)' = OwnersOf(n) BY <1>1, <1>2 DEF OwnersOf, IsExtension
<1>4. \A n, f : AddersOf(n, f)' = AddersOf(n, f) BY <1>1, <1>2 DEF AddersOf, Added, IsExtension
<1>5. \A s, n : KeysOf(s, n)' = KeysOf(s, n) BY DEF KeysOf
<1>6. ASSUME NEW n PROVE ReferenceObject(n)' = ReferenceObject(n)
    <2> DEFINE fields == UNION {Added(Def(p)) : p \in DefsOf(n)}
               adder(f) == CHOOSE p \in AddersOf(n, f) : TRUE
               owner == CHOOSE p \in OwnersOf(n) : TRUE
               implements == UNION {Def(p).implements : p \in DefsOf(n)}
    <2>1. fields' = fields BY <1>1, <1>2 DEF Added, IsExtension
    <2>2. \A f : adder(f)' = adder(f) BY <1>4
    <2>3. owner' = owner BY <1>3
    <2>4. implements' = implements BY <1>1, <1>2
    <2> HIDE DEF fields, adder, owner, implements
    <2> DEFINE assembled ==
              LET own == IF n = "Query" THEN Introspection ELSE {}
              IN [kind |-> "object",
                  owner |-> IF OwnersOf(n) = {} THEN NoService ELSE owner[1],
                  keys |-> [s \in Services |-> KeysOf(s, n)],
                  implements |-> implements,
                  fields |-> [f \in fields \cup own |->
                      IF f \in own THEN NoService
                      ELSE IF adder(f) \in OwnersOf(n) THEN NoService ELSE adder(f)[1]],
                  members |-> {}]
    <2>5. ReferenceObject(n) = assembled
        BY DEF ReferenceObject, fields, adder, owner, implements
    <2>6. ReferenceObject(n)' = assembled'
        BY DEF ReferenceObject, fields, adder, owner, implements
    <2>7. assembled' = assembled
        BY <1>3, <1>5, <2>1, <2>2, <2>3, <2>4
    <2> QED BY <2>5, <2>6, <2>7
<1>7. \A n : Declared(n)' = Declared(n) BY <1>1, <1>2, <1>6 DEF Declared, Converted
<1>8. Described' = Described BY <1>1, <1>2 DEF Described, Added, IsExtension
<1>9. \A n : DescribedImplementers(n)' = DescribedImplementers(n)
    BY <1>1, <1>2, <1>8 DEF DescribedImplementers
<1> QED BY <1>7, <1>8, <1>9 DEF Reference, Builtin, EmptyObject, NoKeys

LEMMA OrderFreeStep ==
    ASSUME IInv, Gathering, OrderFree, [Next]_vars
    PROVE  OrderFree'
<1>1. CASE Finish
    <2>1. Complete /\ docs' = docs BY <1>1 DEF Finish, Complete
    <2>2. SUFFICES ASSUME Agreeing' PROVE types' = Reference' BY DEF OrderFree
    <2>3. Agreeing BY <2>1, <2>2, AgreeingKept
    <2>4. types' = Reference BY <1>1, <2>1, <2>3, FinishReference DEF Finish
    <2> QED BY <2>1, <2>4, ReferenceKept
<1>2. CASE UNCHANGED vars
    <2>1. docs' = docs BY <1>2 DEF vars
    <2>2. (Agreeing' <=> Agreeing) /\ Reference' = Reference
        BY <2>1, AgreeingKept, ReferenceKept
    <2> QED BY <1>2, <2>2 DEF OrderFree, vars
<1>3. CASE Define \/ EndDocument \/ \E s \in Services : TakeDocument(s)
    BY <1>3 DEF OrderFree, Define, DefineObject, DefineOther, Reject, Step, EndDocument,
                Reading, TakeDocument
<1> QED BY <1>1, <1>2, <1>3 DEF Next

\* Services whose documents agree are composed to the same schema in every order:
\* it is the one that the documents describe without an order.
THEOREM OrderDoesNotMatter == Spec => []OrderFree
<1>1. Init => OrderFree BY DEF Init, OrderFree
<1>2. Init => Gathering BY GatheringInit
<1>3. IInv /\ Gathering /\ [Next]_vars => Gathering' BY GatheringStep
<1>4. IInv /\ Gathering /\ OrderFree /\ [Next]_vars => OrderFree' BY OrderFreeStep
<1> QED BY <1>1, <1>2, <1>3, <1>4, Invariance, PTL DEF Spec

=============================================================================
