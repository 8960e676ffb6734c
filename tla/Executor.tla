------------------------------ MODULE Executor ------------------------------
(***************************************************************************)
(* The execution of a plan (handler/executor.rs): the nodes of a group run  *)
(* one after another or all at once, and all of them work on one response  *)
(* that a mutex guards.  A fetch node merges its answer into the response.  *)
(* A flatten node takes keys out of the response under the lock, fetches    *)
(* without it, and puts the entities back under the lock again.            *)
(*                                                                         *)
(* Plans have the shape that build_root_selection_set and build_subscribe   *)
(* give them: a sequence of groups.  That of a subscription is executed for *)
(* each response of its upstream.  The subgraphs are the environment: a     *)
(* fetch may fail, in transport or with errors in the answer.              *)
(*                                                                         *)
(* What a step does to the data is a parameter, to which ResponseData gives *)
(* its value: this module says when it is done, and to which data.         *)
(***************************************************************************)
EXTENDS ResponseValues, FiniteSets

CONSTANTS Merging(_, _),           \* Merge of ResponseData, of data and an answer
          Representing(_, _, _),   \* Represent, of data, a path and a prefix
          PuttingBack(_, _, _, _), \* PutBack, of data, a path, representations and entities
          Resolving(_, _, _, _),   \* Resolve, the reference for the last two
          KeyFree(_)               \* Clean: data without keys of the planner's

CONSTANTS Plans,         \* the plans, one of which is executed
          Answers(_),    \* the data that a node may be answered with
          Entity(_, _),  \* the entity that a node is given for a representation
          Pushes(_),     \* responses of the upstream of a subscription's plan
          MaxPushes      \* bound: pushes of a subscription

ASSUME PlansAssumption ==
    \A p \in Plans :
        /\ p.kind \in {"query", "subscription"}
        /\ p.groups \in Seq([mode : {"sequence", "parallel"}, nodes : Seq(DOMAIN p.node)])
        /\ \A g, h \in DOMAIN p.groups :
              \A k \in DOMAIN p.groups[g].nodes, l \in DOMAIN p.groups[h].nodes :
                 p.groups[g].nodes[k] = p.groups[h].nodes[l] => g = h /\ k = l
ASSUME BoundAssumption == MaxPushes \in Nat

\* What became of a node that has no answer, or has not been started: no data.
NoAnswer == [kind |-> "none"]
Waiting == [kind |-> "waiting"]

ASSUME AnswersAssumption ==
    \A p \in Plans : \A n \in DOMAIN p.node :
        p.node[n].kind # "flatten" =>
            NoAnswer \notin Answers(p.node[n]) /\ Waiting \notin Answers(p.node[n])

VARIABLES
    plan,    \* the plan that is executed
    data,    \* resp.data, Null for None
    errors,  \* resp.errors: the nodes that made them
    state,   \* of each node
    asked,   \* the representations of each flatten node that fetches
    base,    \* the data that the plan began with
    result,  \* what became of each node (a ghost)
    pushes   \* pushes so far

vars == <<plan, data, errors, state, asked, base, result, pushes>>

Groups == plan.groups
Node == plan.node
Nodes == UNION {ToSet(Groups[g].nodes) : g \in DOMAIN Groups}

TypeOK ==
    /\ plan \in Plans
    /\ errors \in Seq(Nodes)
    /\ state \in [Nodes -> {"waiting", "asked", "done"}]
    /\ \A n \in Nodes :
          asked[n] # <<>> <=> Node[n].kind = "flatten" /\ state[n] = "asked"
    /\ pushes \in 0..MaxPushes

AllDone == \A n \in Nodes : state[n] = "done"

\* A query starts at once, a subscription's plan with the first push.
Init ==
    /\ plan \in Plans
    /\ data = Null
    /\ errors = <<>>
    /\ state = [n \in Nodes |-> IF plan.kind = "query" THEN "waiting" ELSE "done"]
    /\ asked = [n \in Nodes |-> <<>>]
    /\ base = Null
    /\ result = [n \in Nodes |-> NoAnswer]
    /\ pushes = 0

-----------------------------------------------------------------------------
GroupOf(n) == CHOOSE g \in DOMAIN Groups : n \in ToSet(Groups[g].nodes)

\* Position of n in its group.
Index(n) == CHOOSE k \in DOMAIN Groups[GroupOf(n)].nodes : Groups[GroupOf(n)].nodes[k] = n

\* Mutant: the groups do not wait for each other.
BeforeInGroup(n) ==
    {m \in Nodes : /\ GroupOf(m) = GroupOf(n)
                   /\ Groups[GroupOf(n)].mode = "sequence"
                   /\ Index(m) < Index(n)}

\* Mutant: a node waits for its own group.
BeforeOffByOne(n) == {m \in Nodes : GroupOf(m) <= GroupOf(n)}

\* The nodes that are awaited before n starts.
Before(n) ==
    {m \in Nodes : \/ GroupOf(m) < GroupOf(n)
                   \/ /\ GroupOf(m) = GroupOf(n)
                      /\ Groups[GroupOf(n)].mode = "sequence"
                      /\ Index(m) < Index(n)}

Turn(n, kind) ==
    /\ n \in Nodes
    /\ Node[n].kind = kind
    /\ state[n] = "waiting"
    /\ \A m \in Before(n) : state[m] = "done"

Done(n, what) ==
    /\ state' = [state EXCEPT ![n] = "done"]
    /\ result' = [result EXCEPT ![n] = what]
    /\ asked' = [asked EXCEPT ![n] = <<>>]

Introspect(n) ==
    /\ Turn(n, "introspection")
    /\ \E v \in Answers(Node[n]) :
          /\ data' = Merging(data, v)
          /\ Done(n, v)
    /\ UNCHANGED <<plan, errors, base, pushes>>

StartFetch(n) ==
    /\ Turn(n, "fetch")
    /\ state' = [state EXCEPT ![n] = "asked"]
    /\ UNCHANGED <<plan, data, errors, asked, base, result, pushes>>

FetchAnswered(n) ==
    /\ n \in Nodes
    /\ Node[n].kind = "fetch"
    /\ state[n] = "asked"
    /\ \E v \in Answers(Node[n]) :
          /\ data' = Merging(data, v)
          /\ Done(n, v)
    /\ UNCHANGED <<plan, errors, base, pushes>>

\* The answer is an error or has errors: its data is not used.
FetchFailed(n) ==
    /\ n \in Nodes
    /\ state[n] = "asked"
    /\ errors' = Append(errors, n)
    /\ Done(n, NoAnswer)
    /\ UNCHANGED <<plan, data, base, pushes>>

\* Mutant: a fetch without any representations.
StartFlattenAlways(n) ==
    /\ Turn(n, "flatten")
    /\ LET r == Representing(data, Node[n].path, Node[n].prefix)
       IN  /\ data' = r.value
           /\ asked' = [asked EXCEPT ![n] = r.reps]
           /\ state' = [state EXCEPT ![n] = "asked"]
    /\ UNCHANGED <<plan, errors, base, result, pushes>>

\* The keys are taken out under the lock; without any there is no fetch.
StartFlatten(n) ==
    /\ Turn(n, "flatten")
    /\ LET r == Representing(data, Node[n].path, Node[n].prefix)
       IN  /\ data' = r.value
           /\ IF r.reps = <<>>
              THEN Done(n, NoAnswer)
              ELSE /\ asked' = [asked EXCEPT ![n] = r.reps]
                   /\ state' = [state EXCEPT ![n] = "asked"]
                   /\ UNCHANGED result
    /\ UNCHANGED <<plan, errors, base, pushes>>

\* The representations that are sent, and the entities of a good answer.
Sent(reps) == SelectSeq(reps, LAMBDA r : r # Skip)
Entities(node, reps) == [k \in DOMAIN Sent(reps) |-> Entity(node, Sent(reps)[k])]

\* All representations name a type.
Typed(reps) == \A k \in DOMAIN Sent(reps) : Has(Sent(reps)[k], Field("type"))

\* Mutant: the entities are put back in the opposite order.
FlattenAnsweredBackwards(n) ==
    /\ n \in Nodes
    /\ Node[n].kind = "flatten"
    /\ state[n] = "asked"
    /\ data' = PuttingBack(data, Node[n].path, asked[n], Reverse(Entities(Node[n], asked[n])))
    /\ Done(n, Null)
    /\ UNCHANGED <<plan, errors, base, pushes>>

\* The subgraph has an entity, or null, for each representation.
FlattenAnswered(n) ==
    /\ n \in Nodes
    /\ Node[n].kind = "flatten"
    /\ state[n] = "asked"
    /\ Typed(asked[n])
    /\ data' = PuttingBack(data, Node[n].path, asked[n], Entities(Node[n], asked[n]))
    /\ Done(n, Null)
    /\ UNCHANGED <<plan, errors, base, pushes>>

\* An answer without a list of _entities is not used.
FlattenIgnored(n) ==
    /\ n \in Nodes
    /\ Node[n].kind = "flatten"
    /\ state[n] = "asked"
    /\ Done(n, NoAnswer)
    /\ UNCHANGED <<plan, data, errors, base, pushes>>

\* Mutant: the next response is merged into what the last one has left.
PushMerges ==
    /\ plan.kind = "subscription"
    /\ AllDone
    /\ pushes < MaxPushes
    /\ \E v \in Pushes(plan) : data' = Merging(data, v) /\ base' = v
    /\ errors' = <<>>
    /\ state' = [n \in Nodes |-> "waiting"]
    /\ asked' = [n \in Nodes |-> <<>>]
    /\ result' = [n \in Nodes |-> NoAnswer]
    /\ pushes' = pushes + 1
    /\ UNCHANGED plan

\* The last response has been passed on; the next one takes its place.
Push ==
    /\ plan.kind = "subscription"
    /\ AllDone
    /\ pushes < MaxPushes
    /\ \E v \in Pushes(plan) : data' = v /\ base' = v
    /\ errors' = <<>>
    /\ state' = [n \in Nodes |-> "waiting"]
    /\ asked' = [n \in Nodes |-> <<>>]
    /\ result' = [n \in Nodes |-> NoAnswer]
    /\ pushes' = pushes + 1
    /\ UNCHANGED plan

Run(n) ==
    \/ Introspect(n)
    \/ StartFetch(n)
    \/ StartFlatten(n)

Answer(n) ==
    \/ FetchAnswered(n)
    \/ FetchFailed(n)
    \/ FlattenAnswered(n)
    \/ FlattenIgnored(n)

Next == (\E n \in Nodes : Run(n) \/ Answer(n)) \/ Push

Spec == Init /\ [][Next]_vars

\* join_all polls every node that can go on; every fetch comes to an end.
FairSpec ==
    Spec /\ \A n \in UNION {DOMAIN p.node : p \in Plans} : WF_vars(Run(n)) /\ WF_vars(Answer(n))

-----------------------------------------------------------------------------
(* What the result ought to be: that of the nodes one after another, each   *)
(* of them fetching and merging in one step.                               *)

\* The nodes of a plan in the order in which it lists them.
Order(p) == FlattenSeq([g \in DOMAIN p.groups |-> p.groups[g].nodes])

\* The entities of a flatten node, given its answer; without one they are null.
EntitiesFor(v, node, answer) ==
    [r \in ToSet(Sent(Representing(v, node.path, node.prefix).reps)) |->
        IF answer = NoAnswer THEN Null ELSE Entity(node, r)]

\* The data v after a node of which the answer has become.
After(v, node, answer) ==
    IF answer = Waiting THEN v
    ELSE IF node.kind = "flatten"
         THEN Resolving(v, node.path, node.prefix, EntitiesFor(v, node, answer))
         ELSE IF answer = NoAnswer THEN v ELSE Merging(v, answer)

\* The data b after the first i nodes of the plan p.
OneByOne(p, b, answers) ==
    LET after[i \in 0..Len(Order(p))] ==
            IF i = 0 THEN b ELSE After(after[i - 1], p.node[Order(p)[i]], answers[Order(p)[i]])
    IN after

Expected == OneByOne(plan, base, result)[Len(Order(plan))]

\* However the answers of parallel nodes interleave and whichever of them
\* fail, the data is that of the nodes run one after another, with every
\* entity at the place its keys came from and nothing of an earlier response.
SerialResult == AllDone => data = Expected

\* The client never sees a key that the planner added, not even when the
\* fetches that the keys were for have failed.
NoKeysLeft == AllDone => KeyFree(data)

\* The plan, or the plan of each push, is executed to its end.
Finishes == []<>AllDone

=============================================================================
