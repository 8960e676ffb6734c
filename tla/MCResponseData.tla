--------------------------- MODULE MCResponseData ---------------------------
(* Executor over the data of module ResponseData, for TLC: what its         *)
(* operators are, what the services know, and how plans are written.       *)
EXTENDS ExecutorLaws

D == INSTANCE ResponseData
MCMerge(target, value) == D!Merge(target, value)
MCRepresent(v, path, p) == D!Represent(v, path, p)
MCPutBack(v, path, reps, entities) == D!PutBack(v, path, reps, entities)
MCResolve(v, path, p, entity) == D!Resolve(v, path, p, entity)
MCClean(v) == D!Clean(v)

Keys(p, id) == Key(p, "type") :> Leaf("T") @@ Key(p, "id") :> Leaf(id)
Id(r) == r.at[Field("id")].value

\* What the services know: users have a name and a team, which has a title;
\* items have a price; nobody knows the entity 0.
MCEntity(node, r) ==
    IF Id(r) = 0 THEN Null
    ELSE Object(
        CASE node.service = "users" -> Field("name") :> Leaf(<<"name", Id(r)>>)
                                  @@ Field("team") :> Object(Keys(3, Id(r)))
          [] node.service = "prices" -> Field("price") :> Leaf(<<"price", Id(r)>>)
          [] node.service = "teams" -> Field("title") :> Leaf(<<"title", Id(r)>>))

Fetches(s) == [kind |-> "fetch", service |-> s]
Flattens(s, p, path) == [kind |-> "flatten", service |-> s, prefix |-> p, path |-> path]

Parallel(s) == [mode |-> "parallel", nodes |-> s]
Sequence(s) == [mode |-> "sequence", nodes |-> s]

Plan(kind, groups, node) == [kind |-> kind, groups |-> groups, node |-> node]
=============================================================================
