--------------------------- MODULE QueryExecution ---------------------------
(***************************************************************************)
(* A request and the execution of its plan: module QueryService makes the   *)
(* plan, module Executor runs it, and the services answer what its fetches  *)
(* ask.  A world is what the services know: objects, by their names, with   *)
(* the values of their fields.  A root type is an object of its own name.   *)
(*                                                                         *)
(* One evaluator, Serve, gives the answers of the services and the data    *)
(* that the request as a whole asks for, to which the response is held.     *)
(***************************************************************************)
EXTENDS QueryService

CONSTANTS Known,      \* what there is in each world
          Worlds(_),  \* the worlds that a request is executed in
          Faulty,     \* bound: the worlds in which a fetch may fail
          MaxPushes   \* bound: responses to a subscription

VARIABLES plan,    \* the plan in execution, as Executor has it
          data, failed, state, asked, base, result, pushes   \* of Executor; failed is its errors

execution == <<plan, data, failed, state, asked, base, result, pushes>>

D == INSTANCE ResponseData

-----------------------------------------------------------------------------
(* What a fetch and a document say, in one form: fields with their key in   *)
(* the response, and fragments.                                            *)

Ask(key, name, args, dirs, sel) ==
    [kind |-> "field", key |-> key, name |-> name, args |-> args, dirs |-> dirs, sel |-> sel]
AskOn(t, dirs, sel) == [kind |-> "inline", on |-> t, dirs |-> dirs, sel |-> sel]

\* Keys under a prefix, those below them under their names.
RECURSIVE KeysWritten(_, _)
KeysWritten(prefix, keys) ==
    [i \in DOMAIN keys |->
        Ask(D!Key(prefix, keys[i].name), keys[i].name, <<>>, <<>>, KeysWritten(0, keys[i].keys))]

\* Mutant: what a field requires is not asked for along with the keys.
RequiresForgotten(r) == KeysWritten(r.prefix, SentKeys(r.keys))

RequiredWritten(r) ==
    KeysWritten(r.prefix, SentKeys(r.keys))
    \o (IF r.requires = NoKeys THEN <<>> ELSE KeysWritten(r.prefix, SentKeys(r.requires)))

\* The text of a fetch.
RECURSIVE FetchWritten(_)
FetchWritten(refs) ==
    FlattenSeq([i \in DOMAIN refs |->
        LET r == refs[i]
        IN CASE r.kind = "field" -> <<Ask(D!Field(r.key), r.name, r.args, r.dirs, FetchWritten(r.set))>>
             [] r.kind = "typename" -> <<Ask(D!Field(Typename), Typename, <<>>, <<>>, <<>>)>>
             [] r.kind = "inline" -> <<AskOn(r.on, <<>>, FetchWritten(r.set))>>
             [] r.kind = "required" ->
                    <<Ask(D!Key(r.prefix, "type"), Typename, <<>>, <<>>, <<>>)>> \o RequiredWritten(r)])

\* The client's document.
RECURSIVE Written(_)
Written(sel) ==
    [i \in DOMAIN sel |->
        LET s == sel[i]
        IN CASE s.kind = "field" -> Ask(D!Field(s.key), s.name, s.args, s.dirs, Written(s.sel))
             [] s.kind = "inline" -> AskOn(s.on, s.dirs, Written(s.sel))
             [] s.kind = "spread" -> AskOn(Fragments[s.fragment].on, s.dirs, Written(Fragments[s.fragment].sel))]

\* The values of the variables that are defined: those passed, or their defaults.
Supplied(defined, passed) ==
    LET default(v) == UNION {d.default : d \in FirstNamed(GetOperation.defs, v)}
    IN [v \in {v \in defined : v \in passed \/ default(v) # {}} |->
            IF v \in passed THEN request.given[v] ELSE CHOOSE value \in default(v) : TRUE]

-----------------------------------------------------------------------------
(* The evaluation of a selection in a world, as the GraphQL specification   *)
(* has it.                                                                 *)

RECURSIVE ValueIn(_, _)
ValueIn(given, value) ==
    IF value.kind = "variable"
    THEN IF value.text \in DOMAIN given THEN given[value.text] ELSE Null
    ELSE [value EXCEPT !.items = [i \in DOMAIN @ |-> [@[i] EXCEPT !.value = ValueIn(given, @)]]]

Holds(given, d) == \E a \in FirstNamed(d.args, "if") : ValueIn(given, a.value) = Flag(TRUE)
Kept(given, s) ==
    \A d \in Range(s.dirs) : (d.name = "skip" => ~Holds(given, d)) /\ (d.name = "include" => Holds(given, d))

RECURSIVE FieldsFor(_, _, _)
FieldsFor(given, t, sel) ==
    FlattenSeq([i \in DOMAIN sel |->
        CASE ~Kept(given, sel[i]) -> <<>>
          [] Kept(given, sel[i]) /\ sel[i].kind = "field" -> <<sel[i]>>
          [] Kept(given, sel[i]) /\ sel[i].kind = "inline" ->
                 IF Applies(sel[i].on, t) THEN FieldsFor(given, t, sel[i].sel) ELSE <<>>])

\* The value of a leaf tells the object, the field and the arguments.
LeafOf(id, name, given, args) == D!Leaf(<<id, name, {<<a.name, ValueIn(given, a.value)>> : a \in Range(args)}>>)

\* Who evaluates: a service in a world, which may hold the representation of an object.
View(world, given, service, id, held) ==
    [world |-> world, given |-> given, service |-> service, id |-> id, held |-> held]
Whole(world, given) == View(world, given, NoService, NoType, {})

\* A service cannot resolve a field that requires others, but for the object of a
\* representation that has them.
Lacks(view, id, d) ==
    /\ d.service = view.service /\ d.requires # NoKeys
    /\ ~(id = view.id /\ KeyNames(d.requires) \subseteq view.held)

ValueOf(view, id, f) ==
    LET thing == Known[view.world][id]
    IN IF f.name = Typename THEN D!Leaf(thing.type)
       ELSE CASE Lacks(view, id, FieldOf(thing.type, f.name)) -> D!Null
              [] f.name \in DOMAIN thing.at -> thing.at[f.name]
              [] IsLeaf(FieldOf(thing.type, f.name).type.name) -> LeafOf(id, f.name, view.given, f.args)
              [] OTHER -> D!Null

\* The fields of one key are one, with what any of them selects.
RECURSIVE Serve(_, _, _), Select(_, _, _), Merged(_, _, _), Complete(_, _, _)
Serve(view, id, sel) == Select(view, id, FieldsFor(view.given, Known[view.world][id].type, sel))

Select(view, id, fields) ==
    D!Object([k \in {f.key : f \in Range(fields)} |->
                 Merged(view, id, SelectSeq(fields, LAMBDA f : f.key = k))])

Merged(view, id, same) ==
    Complete(view, ValueOf(view, id, same[1]), FlattenSeq([i \in DOMAIN same |-> same[i].sel]))

Complete(view, v, sel) ==
    CASE v.kind = "object" -> Serve(view, v.name, sel)
      [] v.kind = "list" -> D!List([i \in DOMAIN v.at |-> Complete(view, v.at[i], sel)])
      [] OTHER -> v

-----------------------------------------------------------------------------
(* The services.                                                           *)

\* A fetch that the service refuses has no data.
Data(node) ==
    IF node.kind = "introspection" THEN {node.answer}
    ELSE IF ~node.resolved THEN {D!Null}
    ELSE {Serve(View(node.world, node.given, node.service, NoType, {}), node.type, node.text)}

\* The entity that has the keys of a representation.
EntityFor(node, rep) ==
    LET keys == KeyNames(EntityKeys(node.type, node.service))
        held == {k[2] : k \in DOMAIN rep.at}
        known == {id \in DOMAIN Known[node.world] :
                     /\ D!Leaf(Known[node.world][id].type) = rep.at[D!Field("type")]
                     /\ \A k \in keys : k \in held /\ rep.at[D!Field(k)] = LeafOf(id, k, node.given, <<>>)}
    IN FoldSet(LAMBDA id, none : Serve(View(node.world, node.given, node.service, id, held), id,
                                       <<AskOn(node.type, <<>>, node.text)>>),
               D!Null, known)

\* A subscription is answered by each of the services that it is sent to.
Responses(p) == UNION {Data(node) : node \in p.subscribed}

Exec == INSTANCE Executor
            WITH Plans <- {}, Answers <- Data, Entity <- EntityFor, Pushes <- Responses, errors <- failed,
                 Merging <- D!Merge, Representing <- D!Represent, PuttingBack <- D!PutBack,
                 Resolving <- D!Resolve, KeyFree <- D!Clean

\* A service that can answer for a field of a type: it resolves it, or has it
\* among its keys of the type.
CanResolve(s, t, f) ==
    \/ ServiceOf(t, f, s) = s
    \/ s \in DOMAIN Types[t].keys /\ \E i \in DOMAIN Types[t].keys[s] : f \in KeyNames(Types[t].keys[s][i])

\* A service refuses the whole of a fetch that asks for what it cannot resolve, keys
\* included.
Answerable(n) ==
    /\ \A a \in AskedBy(n) : a.name = Typename \/ CanResolve(n.service, a.type, a.name)
    /\ \A r \in RequiredBy(n) :
           \A k \in KeyNames(r.keys) \cup (IF r.requires = NoKeys THEN {} ELSE KeyNames(r.requires)) :
               CanResolve(n.service, r.type, k)

-----------------------------------------------------------------------------
(* The plan as the executor has it.                                        *)

\* Mutant: a path says nothing of the type of its last element.
PathUnmarked(path) == [i \in DOMAIN path |-> D!Segment(path[i].name, path[i].list, D!AnyType)]

PathOf(path) ==
    [i \in DOMAIN path |->
        D!Segment(path[i].name, path[i].list, IF path[i].on = NoType THEN D!AnyType ELSE path[i].on)]

NodeOf(n, w) ==
    [kind |-> IF n.entity = NoType THEN "fetch" ELSE "flatten", service |-> n.service, type |-> TypeFetched(n),
     path |-> PathOf(n.path), prefix |-> n.prefix, text |-> FetchWritten(n.set),
     given |-> Supplied(n.definitions, n.variables), world |-> w, resolved |-> Answerable(n)]

RECURSIVE ResponseValue(_)
ResponseValue(v) ==
    CASE v.kind = "null" -> D!Null
      [] v.kind = "list" -> D!List([i \in DOMAIN v.items |-> ResponseValue(v.items[i].value)])
      [] v.kind = "object" ->
             D!Object([k \in {D!Field(item.name) : item \in Range(v.items)} |-> ResponseValue(Answered(v, k[2]))])
      [] OTHER -> D!Leaf(v.text)

Subscribes == GetOperation.type = "subscription"

\* A group for the introspection, one for the root fields, which a mutation has in
\* sequence, and one for each round of entities.
GroupOf(i) ==
    [mode |-> IF i = 1 /\ GetOperation.type = "mutation" THEN "sequence" ELSE "parallel",
     nodes |-> [k \in DOMAIN rounds[i] |-> <<i, k>>]]
Groups ==
    IF Subscribes THEN [i \in 1 .. Len(rounds) - 1 |-> GroupOf(i + 1)]
    ELSE (IF introspection = <<>> THEN <<>> ELSE <<[mode |-> "sequence", nodes |-> << <<0, 1>> >>]>>)
         \o [i \in DOMAIN rounds |-> GroupOf(i)]

NodeNames == UNION {Range(g.nodes) : g \in Range(Groups)}

\* The plan in a world, and the fetch of it that fails, if any.
PlanIn(w, faulty) ==
    [kind |-> IF Subscribes THEN "subscription" ELSE "query", groups |-> Groups, faulty |-> faulty, world |-> w,
     node |-> [n \in NodeNames |->
                  IF n[1] = 0 THEN [kind |-> "introspection", answer |-> ResponseValue(answer), resolved |-> TRUE]
                  ELSE NodeOf(rounds[n[1]][n[2]], w)],
     subscribed |-> IF Subscribes THEN {NodeOf(n, w) : n \in Range(rounds[1])} ELSE {}]

-----------------------------------------------------------------------------
(* The actions.                                                            *)

NoPlan == [kind |-> "none"]
NoAnswer == [kind |-> "none"]

InitExecution ==
    /\ Init
    /\ plan = NoPlan
    /\ data = D!Null
    /\ failed = <<>>
    /\ state = <<>>
    /\ asked = <<>>
    /\ base = D!Null
    /\ result = <<>>
    /\ pushes = 0

Prepare == Next /\ UNCHANGED execution

Begin ==
    /\ stage = IF introspection = <<>> THEN "done" ELSE "answered"
    /\ stage' = "executing"
    /\ \E w \in Worlds(request) :
           \E faulty \in {{}} \cup {{n} : n \in {m \in NodeNames : w \in Faulty /\ m[1] > 0}} :
               plan' = PlanIn(w, faulty)
    /\ state' = [n \in NodeNames |-> IF Subscribes THEN "done" ELSE "waiting"]
    /\ asked' = [n \in NodeNames |-> <<>>]
    /\ result' = [n \in NodeNames |-> NoAnswer]
    /\ UNCHANGED <<request, errors, planVars, answer, data, failed, base, pushes>>

\* A service that is asked for what it cannot resolve, or for an entity without a
\* type, answers with an error.
Refused(n) ==
    \/ n \in plan.faulty
    \/ ~plan.node[n].resolved
    \/ \E r \in Range(asked[n]) \ {D!Skip} : ~D!Has(r, D!Field("type"))

Answers(n) ==
    /\ state[n] = "asked"
    /\ IF Refused(n) THEN Exec!FetchFailed(n) ELSE Exec!FetchAnswered(n) \/ Exec!FlattenAnswered(n)

Execute ==
    /\ stage = "executing"
    /\ (\E n \in DOMAIN plan.node : Exec!Run(n) \/ Answers(n)) \/ Exec!Push
    /\ UNCHANGED vars

NextExecution == Prepare \/ Begin \/ Execute

SpecExecution == InitExecution /\ [][NextExecution]_<<vars, execution>>

-----------------------------------------------------------------------------
(* Properties.                                                             *)

\* The data that the request asks for; of a subscription, the fields whose service
\* has answered.
Expected ==
    LET root == RootType(GetOperation)
        defined == Names(GetOperation.defs)
        all == Serve(Whole(plan.world, Supplied(defined, DOMAIN request.given)), root, Written(GetOperation.sel))
        keys == {k \in DOMAIN all.at : /\ \E f \in Range(RootSelection) : D!Field(f.key) = k
                                       /\ Subscribes => D!Has(base, k)}
    IN D!Merge(IF introspection = <<>> THEN D!Null ELSE ResponseValue(answer),
               D!Object([k \in keys |-> all.at[k]]))

\* A value that is another one, or lacks some of its fields.
RECURSIVE Within(_, _)
Within(v, whole) ==
    \/ v = whole
    \/ /\ v.kind = whole.kind /\ v.kind \in {"object", "list"}
       /\ DOMAIN v.at \subseteq DOMAIN whole.at
       /\ v.kind = "list" => DOMAIN v.at = DOMAIN whole.at
       /\ \A k \in DOMAIN v.at : Within(v.at[k], whole.at[k])

\* The response is what the request asks for, evaluated as if one service knew
\* everything, whatever the order of the answers; when a fetch fails there are
\* errors, and what is there is right: nothing is in another's place, no key of the
\* planner's is left (planner/builder.rs and handler/executor.rs together).
AnswerRight ==
    stage = "executing" /\ (\A n \in DOMAIN state : state[n] = "done") /\ (Subscribes => pushes > 0) =>
        \A expected \in {Expected} :
            /\ data = D!Null \/ Within(data, expected)
            /\ plan.faulty = {} => failed = <<>> /\ data = expected

=============================================================================
