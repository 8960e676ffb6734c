------------------------------- MODULE Planner -------------------------------
(***************************************************************************)
(* The query planner (planner/builder.rs, planner/types.rs).  A plan is a   *)
(* sequence of rounds.  The first round fetches the root fields, grouped by *)
(* service; each later one fetches the entities that the one before it met *)
(* in a service that does not resolve all of their fields.                  *)
(*                                                                         *)
(* The functions that descend a query are operators over the state they     *)
(* share, an accumulator with the selection built so far, the group of      *)
(* entities to fetch next and the next key prefix.  Validate comes first;   *)
(* the rounds are actions: PlanRoot or PlanSubscribe, then PlanEntities     *)
(* while there are entities.                                               *)
(***************************************************************************)
EXTENDS Validation

CONSTANTS NoOperation

VARIABLES
    stage,     \* "checking", "planning", "entities", "done", or how it failed
    errors,    \* the rules of the validator that reported something
    introspection,  \* the fields of the introspection node
    rounds,    \* the rounds of fetches planned so far
    group,     \* fetch_entity_group: the entities of the next round
    keyId      \* the next prefix of keys

planVars == <<introspection, rounds, group, keyId>>

-----------------------------------------------------------------------------
(* What the functions of the builder share.                                *)

Start(g, id) == [refs |-> <<>>, group |-> g, keyId |-> id]
Push(acc, ref) == [acc EXCEPT !.refs = Append(@, ref)]

FieldRef(f, refs) ==
    [kind |-> "field", name |-> f.name, key |-> f.key, args |-> f.args, dirs |-> f.dirs, set |-> refs]
TypenameRef == [kind |-> "typename"]
RequiredRef(id, keys, requires) ==
    [kind |-> "required", prefix |-> id, keys |-> keys, requires |-> requires]
InlineRef(t, refs) == [kind |-> "inline", on |-> t, set |-> refs]

\* Mutant: the owner of the type resolves a field that a service has extended it by.
OwnerResolves(t, f, current) ==
    IF Types[t].owner # NoService THEN Types[t].owner
    ELSE IF FieldOf(t, f).service # NoService THEN FieldOf(t, f).service ELSE current

ServiceOf(t, f, current) ==
    IF FieldOf(t, f).service # NoService THEN FieldOf(t, f).service
    ELSE IF Types[t].owner # NoService THEN Types[t].owner ELSE current

\* The keys to fetch an entity with: the service's first, else the owner's first.
EntityKeys(t, service) ==
    LET first(s) == IF s \in DOMAIN Types[t].keys THEN Types[t].keys[s][1] ELSE NoKeys
    IN IF first(service) # NoKeys THEN first(service) ELSE first(Types[t].owner)

\* Whether all that is selected is among the keys, however deep.
RECURSIVE SelectedInKeys(_, _)
SelectedInKeys(sel, keys) ==
    \A s \in Range(sel) :
        CASE s.kind = "field" ->
                 \E k \in Range(keys) : k.name = s.name /\ SelectedInKeys(s.sel, k.keys)
          [] s.kind = "inline" -> SelectedInKeys(s.sel, keys)
          [] s.kind = "spread" -> SelectedInKeys(Fragments[s.fragment].sel, keys)

FieldInKeys(f, keys) == SelectedInKeys(<<f>>, keys)

\* Mutant: the prefix of the keys is not taken, so the next entity has it too.
SameKeyPrefix(id) == id

TakeKeyPrefix(id) == id + 1

\* Mutant: entities of one type and service are one, wherever they are.
SameType(e, service, path, t) == e.service = service /\ e.type = t

SameEntity(e, service, path, t) == e.service = service /\ e.path = path /\ e.type = t

\* A field for an entity that waits already joins it; another entity asks for
\* its keys under a prefix of its own, along with what the field requires.
AddFetchEntity(acc, path, t, f, service, keys) ==
    LET same == {i \in DOMAIN acc.group : SameEntity(acc.group[i], service, path, t)}
    IN IF same # {}
       THEN [acc EXCEPT !.group[CHOOSE i \in same : TRUE].fields = Append(@, f)]
       ELSE [refs |-> Append(acc.refs, RequiredRef(acc.keyId, keys, FieldOf(t, f.name).requires)),
             group |-> Append(acc.group, [service |-> service, path |-> path, type |-> t,
                                          prefix |-> acc.keyId, fields |-> <<f>>]),
             keyId |-> TakeKeyPrefix(acc.keyId)]

-----------------------------------------------------------------------------
(* The descent of a query.                                                 *)

\* What has been built below a field, or for a possible type, joins what was built
\* before it.
WithField(acc, f, b) == [b EXCEPT !.refs = Append(acc.refs, FieldRef(f, @))]
WithSpread(acc, c, b) == [b EXCEPT !.refs = IF @ = <<>> THEN acc.refs ELSE Append(acc.refs, InlineRef(c, @))]

RECURSIVE BuildField(_, _, _, _, _), BuildSelectionSet(_, _, _, _, _),
          BuildAbstract(_, _, _, _, _), BuildFields(_, _, _, _, _)

BuildField(acc, service, path, t, f) ==
    IF f.name = Typename THEN Push(acc, TypenameRef)
    ELSE IF f.name \notin DOMAIN Types[t].fields THEN acc
    ELSE LET d == FieldOf(t, f.name)
             resolver == ServiceOf(t, f.name, service)
             keys == EntityKeys(t, resolver)
             below == Append(path, Segment(f.key, IsList(d.type)))
             inner == IF IsAbstract(d.type.name)
                      THEN BuildAbstract(Start(acc.group, acc.keyId), service, below, d.type.name, f.sel)
                      ELSE BuildSelectionSet(Start(acc.group, acc.keyId), service, below, d.type.name, f.sel)
         IN CASE resolver # service /\ keys = NoKeys -> acc
              [] resolver # service /\ keys # NoKeys /\ ~FieldInKeys(f, keys) ->
                     AddFetchEntity(acc, path, t, f, resolver, keys)
              [] OTHER -> WithField(acc, f, inner)

\* Below an object every fragment applies, as the validator saw to it.
BuildSelectionSet(acc, service, path, t, sel) ==
    FoldLeft(LAMBDA a, s :
                 CASE s.kind = "field" -> BuildField(a, service, path, t, s)
                   [] s.kind = "inline" -> BuildSelectionSet(a, service, path, t, s.sel)
                   [] s.kind = "spread" ->
                          BuildSelectionSet(a, service, path, t, Fragments[s.fragment].sel),
             acc, sel)

\* Below an interface or a union: the selection for one of the possible types.
BuildFields(acc, service, path, c, sel) ==
    FoldLeft(LAMBDA a, s :
                 CASE s.kind = "field" -> BuildField(a, service, path, c, s)
                   [] s.kind = "inline" ->
                          IF s.on \in {NoType, c} THEN BuildFields(a, service, path, c, s.sel) ELSE a
                   [] s.kind = "spread" ->
                          LET body == Fragments[s.fragment]
                          IN IF body.on = c \/ IsAbstract(body.on)
                             THEN BuildFields(a, service, path, c, body.sel) ELSE a,
             acc, sel)

BuildAbstract(acc, service, path, t, sel) ==
    FoldLeft(LAMBDA a, c : WithSpread(a, c, BuildFields(Start(a.group, a.keyId), service, Marked(path, c), c, sel)),
             acc, Types[t].possible)

\* The keys as the text of a fetch has them: below a key, the first is missing.
RECURSIVE SentBelow(_)
SentBelow(keys) ==
    [i \in 1 .. Len(keys) - 1 |-> [name |-> keys[i + 1].name, keys |-> SentBelow(keys[i + 1].keys)]]
SentKeys(keys) == [i \in DOMAIN keys |-> [name |-> keys[i].name, keys |-> SentBelow(keys[i].keys)]]

\* The variables that a fetch must declare.
RECURSIVE ReferencedVariables(_)
ReferencedVariables(refs) ==
    UNION {CASE r.kind = "field" -> FieldVariables(r) \cup ReferencedVariables(r.set)
             [] r.kind = "inline" -> ReferencedVariables(r.set)
             [] OTHER -> {}
           : r \in Range(refs)}

Fetch(service, operation, refs) ==
    [service |-> service, operation |-> operation, entity |-> NoType, path |-> <<>>, prefix |-> 0,
     set |-> refs, definitions |-> ReferencedVariables(refs),
     variables |-> ReferencedVariables(refs) \cap DOMAIN request.given]

Flatten(e, refs) ==
    [Fetch(e.service, "query", refs) EXCEPT !.entity = e.type, !.path = e.path, !.prefix = e.prefix]

\* The fetch of an entity joins the others of its round.
WithFetch(acc, e, b) == [b EXCEPT !.refs = Append(acc.refs, Flatten(e, @))]

-----------------------------------------------------------------------------
(* The root fields.                                                        *)

\* The place of a service's selection among those of the root fields: queries
\* have one for each service, mutations one for each run of fields of a service.
QuerySlot(roots, service) ==
    LET same == {i \in DOMAIN roots : roots[i].service = service}
    IN IF same = {} THEN Len(roots) + 1 ELSE CHOOSE i \in same : TRUE

MutationSlot(roots, service) ==
    IF roots # <<>> /\ roots[Len(roots)].service = service THEN Len(roots) ELSE Len(roots) + 1

Slot(operation, roots, service) ==
    IF operation = "mutation" THEN MutationSlot(roots, service) ELSE QuerySlot(roots, service)

IntoSlot(a, roots, slot, b) ==
    [a EXCEPT !.roots = [roots EXCEPT ![slot].refs = b.refs], !.group = b.group, !.keyId = b.keyId]

\* One root field, into the selection of the service that resolves it.
RootField(operation, t, a, f) ==
    LET service == FieldOf(t, f.name).service
        slot == Slot(operation, a.roots, service)
        roots == IF slot > Len(a.roots) THEN Append(a.roots, [service |-> service, refs |-> <<>>])
                 ELSE a.roots
    IN IF f.name \notin DOMAIN Types[t].fields \/ service = NoService THEN a
       ELSE IntoSlot(a, roots, slot,
                     BuildField([refs |-> roots[slot].refs, group |-> a.group, keyId |-> a.keyId],
                                service, <<>>, t, f))

\* Introspection fields and all below them, their fragments dissolved and the
\* request's variables in their arguments.
ConstArguments(args) == [i \in DOMAIN args |-> [args[i] EXCEPT !.value = IntoConst(@)]]

RECURSIVE IntrospectionSet(_)
IntrospectionSet(sel) ==
    FlattenSeq([i \in DOMAIN sel |->
        LET s == sel[i]
        IN CASE s.kind = "field" ->
                    <<[name |-> s.name, key |-> s.key, args |-> ConstArguments(s.args),
                       dirs |-> [d \in DOMAIN s.dirs |-> [s.dirs[d] EXCEPT !.args = ConstArguments(@)]],
                       set |-> IntrospectionSet(s.sel)]>>
             [] s.kind = "inline" -> IntrospectionSet(s.sel)
             [] s.kind = "spread" -> IntrospectionSet(Fragments[s.fragment].sel)])

\* The variables there, all of which must be given.
RECURSIVE IntrospectionVariables(_)
IntrospectionVariables(sel) ==
    UNION {CASE s.kind = "field" -> FieldVariables(s) \cup IntrospectionVariables(s.sel)
             [] s.kind = "inline" -> IntrospectionVariables(s.sel)
             [] s.kind = "spread" -> IntrospectionVariables(Fragments[s.fragment].sel)
           : s \in Range(sel)}

RECURSIVE RootFields(_, _, _, _)
RootFields(operation, t, acc, sel) ==
    FoldLeft(LAMBDA a, s :
                 CASE s.kind = "field" /\ Introspective(s.name) ->
                          [a EXCEPT !.introspection = Append(@, s)]
                   [] s.kind = "field" /\ ~Introspective(s.name) -> RootField(operation, t, a, s)
                   [] s.kind = "inline" -> RootFields(operation, t, a, s.sel)
                   [] s.kind = "spread" -> RootFields(operation, t, a, Fragments[s.fragment].sel),
             acc, sel)

\* A subscription is planned by its root fields alone, fragments aside.
SubscriptionFields(t, acc, sel) ==
    FoldLeft(LAMBDA a, s : IF s.kind = "field" THEN RootField("subscription", t, a, s) ELSE a, acc, sel)

-----------------------------------------------------------------------------
(* The actions.                                                            *)

\* The operation that is planned, of a document with one operation that has no
\* name or with several by name.
GetOperation ==
    LET ops == request.operations
    IN IF request.name # NoOperation
       THEN IF ~request.single /\ request.name \in DOMAIN ops THEN ops[request.name] ELSE NoOperation
       ELSE IF Cardinality(DOMAIN ops) = 1 THEN ops[CHOOSE n \in DOMAIN ops : TRUE] ELSE NoOperation

\* The rules are checked before anything is planned.
Validate ==
    /\ stage = "checking"
    /\ \E visits \in {Visits} :
           IF Overflows(visits)
           THEN stage' = "overflowed" /\ UNCHANGED errors
           ELSE /\ errors' = CheckRules(visits)
                /\ stage' = IF errors' = {} THEN "planning" ELSE "refused"
    /\ UNCHANGED <<request, planVars>>

NoSuchOperation ==
    /\ stage = "planning"
    /\ GetOperation = NoOperation
    /\ stage' = "panicked"
    /\ UNCHANGED <<request, errors, planVars>>

RootAcc == [roots |-> <<>>, introspection |-> <<>>, group |-> <<>>, keyId |-> keyId]

\* The definition of each variable of a fetch is looked up in the operation.
Defined(nodes) ==
    UNION {n.definitions : n \in Range(nodes)} \subseteq Names(GetOperation.defs)

FirstRound(op, a) ==
    LET nodes == [i \in DOMAIN a.roots |-> Fetch(a.roots[i].service, op.type, a.roots[i].refs)]
    IN IF IntrospectionVariables(a.introspection) \subseteq DOMAIN request.given /\ Defined(nodes)
       THEN /\ introspection' = IntrospectionSet(a.introspection)
            /\ rounds' = <<nodes>>
            /\ group' = a.group
            /\ keyId' = a.keyId
            /\ stage' = "entities"
            /\ UNCHANGED <<request, errors>>
       ELSE stage' = "crashed" /\ UNCHANGED <<request, errors, planVars>>

PlanRoot ==
    /\ stage = "planning"
    /\ LET op == GetOperation
       IN /\ op # NoOperation /\ op.type # "subscription"
          /\ FirstRound(op, RootFields(op.type, RootType(op), RootAcc, op.sel))

PlanSubscribe ==
    /\ stage = "planning"
    /\ LET op == GetOperation
       IN /\ op # NoOperation /\ op.type = "subscription"
          /\ FirstRound(op, SubscriptionFields(RootType(op), RootAcc, op.sel))

\* One round: a fetch for each entity, and the entities met below them.
FetchEntities(after) ==
    IF Defined(after.refs)
    THEN /\ rounds' = Append(rounds, after.refs)
         /\ group' = after.group
         /\ keyId' = after.keyId
         /\ UNCHANGED <<stage, introspection>>
    ELSE stage' = "crashed" /\ UNCHANGED planVars

PlanEntities ==
    /\ stage = "entities" /\ group # <<>>
    /\ LET build(a, e) == FoldLeft(LAMBDA b, f : BuildField(b, e.service, e.path, e.type, f),
                                   Start(a.group, a.keyId), e.fields)
       IN FetchEntities(FoldLeft(LAMBDA a, e : WithFetch(a, e, build(a, e)), Start(<<>>, keyId), group))
    /\ UNCHANGED <<request, errors>>

Finish ==
    /\ stage = "entities" /\ group = <<>>
    /\ stage' = "done"
    /\ UNCHANGED <<request, errors, planVars>>

Plan == Validate \/ NoSuchOperation \/ PlanRoot \/ PlanSubscribe \/ PlanEntities \/ Finish

-----------------------------------------------------------------------------
(* Properties.                                                             *)

Fetches == UNION {Range(rounds[i]) : i \in DOMAIN rounds}
TypeFetched(n) == IF n.entity = NoType THEN RootType(GetOperation) ELSE n.entity

\* What the selection of a fetch asks for, as Wanted puts it.
RECURSIVE Asked(_, _, _)
Asked(t, path, refs) ==
    UNION {CASE r.kind = "field" ->
                   {[at |-> path, type |-> t, name |-> r.name, key |-> r.key,
                     args |-> r.args, dirs |-> r.dirs]}
                      \cup Asked(FieldOf(t, r.name).type.name,
                                 Append(path, Segment(r.key, IsList(FieldOf(t, r.name).type))), r.set)
             [] r.kind = "typename" ->
                   {[at |-> path, type |-> t, name |-> Typename, key |-> Typename,
                     args |-> <<>>, dirs |-> <<>>]}
             [] r.kind = "inline" -> Asked(r.on, Marked(path, r.on), r.set)
             [] r.kind = "required" -> {}
           : r \in Range(refs)}

AskedBy(n) == Asked(TypeFetched(n), n.path, n.set)

\* Where the keys of entities are asked for.
RECURSIVE RequiredIn(_, _, _)
RequiredIn(t, path, refs) ==
    UNION {CASE r.kind = "field" ->
                   RequiredIn(FieldOf(t, r.name).type.name,
                              Append(path, Segment(r.key, IsList(FieldOf(t, r.name).type))), r.set)
             [] r.kind = "inline" -> RequiredIn(r.on, Marked(path, r.on), r.set)
             [] r.kind = "required" -> {[at |-> path, type |-> t, prefix |-> r.prefix,
                                        keys |-> r.keys, requires |-> r.requires]}
             [] r.kind = "typename" -> {}
           : r \in Range(refs)}

RequiredBy(n) == RequiredIn(TypeFetched(n), n.path, n.set)

RootCollected == Collect(RootType(GetOperation), GetOperation.sel)
RootSelection == SelectSeq(RootCollected, LAMBDA f : ~Introspective(f.name))
RootKeys(refs) == [i \in DOMAIN refs |-> refs[i].key]

\* A selection set with what a plan has no room for: directives on a fragment that
\* is spread or written inline, or on a __typename that a service answers.
RECURSIVE DirectivesLost(_)
DirectivesLost(sel) ==
    \E s \in Range(sel) :
        CASE s.kind = "field" -> (s.name = Typename /\ s.dirs # <<>>) \/ DirectivesLost(s.sel)
          [] s.kind = "inline" -> s.dirs # <<>> \/ DirectivesLost(s.sel)
          [] s.kind = "spread" -> s.dirs # <<>> \/ DirectivesLost(Fragments[s.fragment].sel)

Undirected(asked) == {[a EXCEPT !.dirs = <<>>] : a \in asked}

\* The fetches of a plan together ask for exactly what the query does: each field
\* of each possible type, where the query has it, with its variables declared, and
\* introspection for the root fields that are the gateway's own to answer; and they
\* ask for it under the directives that the query puts on it, but for a query whose
\* directives are on fragments (builder.rs:745) or on __typename below a root field
\* (builder.rs:514), which the planner drops.
\* The descent splits a query over services, types and rounds (build_field,
\* build_abstract_selection_set, builder.rs:502-824).
PlanFaithful ==
    stage = "done" =>
        /\ \A asked \in {UNION {AskedBy(n) : n \in Fetches}},
              wanted \in {Wanted(RootType(GetOperation), <<>>, RootSelection)} :
               /\ Undirected(asked) = Undirected(wanted)
               /\ ~DirectivesLost(GetOperation.sel) => asked = wanted
        /\ \A n \in Fetches : \A a \in AskedBy(n) : FieldVariables(a) \subseteq n.definitions
        /\ RootKeys(introspection) = RootKeys(SelectSeq(RootCollected, LAMBDA f : Introspective(f.name)))

\* A mutation runs its root fields in the order of the document, in as few fetches
\* as that allows; the parallel fetches of a query go to different services
\* (MutationRootGroup and QueryRootGroup, types.rs:205-239).
RootOrder ==
    stage = "done" =>
        LET first == rounds[1]
        IN IF GetOperation.type = "mutation"
           THEN /\ FlattenSeq([i \in DOMAIN first |-> RootKeys(first[i].set)]) = RootKeys(RootSelection)
                /\ \A i \in DOMAIN first : i > 1 => first[i].service # first[i - 1].service
           ELSE \A i, j \in DOMAIN first : i # j => first[i].service # first[j].service
=============================================================================
