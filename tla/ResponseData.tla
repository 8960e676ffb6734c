---------------------------- MODULE ResponseData ----------------------------
(***************************************************************************)
(* The data of a response and what the executor does with it               *)
(* (handler/executor.rs): how an answer is merged in, how the keys of the   *)
(* entities on a path are taken out, and how the entities fetched with      *)
(* them are put back, by position.  At the end, what the data ought to be   *)
(* when entities have been fetched.                                        *)
(***************************************************************************)
EXTENDS ResponseValues

-----------------------------------------------------------------------------
Mergeable(target, value) ==
    /\ target.kind = value.kind
    /\ \/ target.kind = "object"
       \/ target.kind = "list" /\ DOMAIN target.at = DOMAIN value.at

RECURSIVE Merge(_, _)

\* merge_data: fields are added, lists of one length are merged element by
\* element, and whatever else is in the target stays.
Merge(target, value) ==
    CASE target = Null -> value
      [] Mergeable(target, value) ->
         [target EXCEPT !.at =
             [k \in DOMAIN target.at \cup DOMAIN value.at |->
                 CASE k \notin DOMAIN value.at -> target.at[k]
                   [] k \notin DOMAIN target.at -> value.at[k]
                   [] OTHER -> Merge(target.at[k], value.at[k])]]
      [] OTHER -> target

-----------------------------------------------------------------------------
KeyFields(v, p) == {f \in DOMAIN v.at : f[1] = p}

\* The keys of v as the representation of an entity, and v without them.
KeysOf(v, p) == Object([f \in {Field(k[2]) : k \in KeyFields(v, p)} |-> v.at[Key(p, f[2])]])
Without(v, p) == Object([f \in DOMAIN v.at \ KeyFields(v, p) |-> v.at[f]])

OfType(v, p, type) ==
    \/ type = AnyType
    \/ Has(v, Key(p, "type")) /\ v.at[Key(p, "type")] = Leaf(type)

\* extract_keys, or Skip for what is no object or not of the type.
ExtractKeys(v, p, type) ==
    IF v.kind = "object" /\ OfType(v, p, type)
    THEN [value |-> Without(v, p), reps |-> <<KeysOf(v, p)>>]
    ELSE [value |-> v, reps |-> <<Skip>>]

RECURSIVE Represent(_, _, _)

\* get_representations: v without the keys of prefix p on the path, and the
\* representations in the order of the places.
Represent(v, path, p) ==
    LET seg  == Head(path)
        last == Len(path) = 1
        Below(x) == IF last THEN ExtractKeys(x, p, seg.type) ELSE Represent(x, Tail(path), p)
        Put(x) == [v EXCEPT !.at[seg.field] = x]
        none(reps) == [value |-> v, reps |-> reps]
    IN  CASE v.kind # "object" -> none(<<>>)
          [] ~seg.list ->
             IF Has(v, seg.field)
             THEN LET b == Below(v.at[seg.field])
                  IN  [value |-> Put(b.value), reps |-> b.reps]
             ELSE none(<<Skip>>)
          [] OTHER ->
             IF Has(v, seg.field) /\ v.at[seg.field].kind = "list"
             THEN LET s == v.at[seg.field].at
                      bs == [k \in DOMAIN s |-> Below(s[k])]
                  IN  [value |-> Put(List([k \in DOMAIN s |-> bs[k].value])),
                       reps |-> FlattenSeq([k \in DOMAIN s |-> bs[k].reps])]
             ELSE none(IF last THEN <<>> ELSE <<Skip>>)

-----------------------------------------------------------------------------
\* What is left of the two iterators: the flags, one for each representation,
\* and the entities, one for each that is no Skip.

\* The next flag, and with it the next entity, is used for the place x.
PlaceNext(x, left) ==
    LET flag == left.flags # <<>> /\ Head(left.flags)
        use == flag /\ left.values # <<>>
    IN  [value  |-> IF use THEN Merge(x, Head(left.values)) ELSE x,
         flags  |-> IF left.flags = <<>> THEN <<>> ELSE Tail(left.flags),
         values |-> IF use THEN Tail(left.values) ELSE left.values]

RECURSIVE FlattenValues(_, _, _)

\* flatten_values: v with the entities merged in on the path.
FlattenValues(v, path, left) ==
    LET seg  == Head(path)
        Below(x, l) == IF Len(path) = 1 THEN PlaceNext(x, l)
                       ELSE FlattenValues(x, Tail(path), l)
        Put(b, x) == [b EXCEPT !.value = [v EXCEPT !.at[seg.field] = x]]
        each == FoldLeft(LAMBDA acc, x : LET b == Below(x, acc)
                                         IN  [b EXCEPT !.value = Append(acc.value, @)],
                         [left EXCEPT !.value = <<>>], v.at[seg.field].at)
        one == Below(v.at[seg.field], left)
    IN  CASE ~Has(v, seg.field) -> [left EXCEPT !.value = v]
          [] ~seg.list -> Put(one, one.value)
          [] v.at[seg.field].kind = "list" -> Put(each, List(each.value))
          [] OTHER -> [left EXCEPT !.value = v]

\* The response data with the entities put back at the places of reps.
PutBack(v, path, reps, entities) ==
    FlattenValues(v, path, [value  |-> v,
                            flags  |-> [k \in DOMAIN reps |-> reps[k] # Skip],
                            values |-> entities]).value

-----------------------------------------------------------------------------
\* The reference: v with each entity merged into the very object on the path that
\* carried its keys.  Entities are given by their representations.
RECURSIVE Resolve(_, _, _, _)
Resolve(v, path, p, entity) ==
    LET seg == Head(path)
        Here(x) ==
            IF Has(x, Key(p, "type")) /\ OfType(x, p, seg.type)
            THEN Merge(Without(x, p), entity[KeysOf(x, p)])
            ELSE x
        Below(x) == IF Len(path) = 1 THEN Here(x) ELSE Resolve(x, Tail(path), p, entity)
    IN  CASE ~Has(v, seg.field) -> v
          [] ~seg.list -> [v EXCEPT !.at[seg.field] = Below(@)]
          [] v.at[seg.field].kind = "list" ->
             [v EXCEPT !.at[seg.field].at = [k \in DOMAIN @ |-> Below(@[k])]]
          [] OTHER -> v

\* A value in which no key is left that the planner added.
RECURSIVE Clean(_)
Clean(v) ==
    /\ v.kind = "object" => \A f \in DOMAIN v.at : f[1] = 0
    /\ v.kind \in {"object", "list"} => \A k \in DOMAIN v.at : Clean(v.at[k])
=============================================================================
