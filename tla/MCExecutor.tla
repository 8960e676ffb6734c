----------------------------- MODULE MCExecutor -----------------------------
(* Plans of each kind, with entities of entities and parallel groups.      *)
EXTENDS MCResponseData

\* { items { owner { name team { title } } ... on T { id price } } me __schema }
Owner == {Null, Object(Keys(1, 7))}
Item == {Null, Object(Field("owner") :> Object(Keys(1, 7)))}
            \cup {Object(Field("owner") :> o @@ Keys(2, i)) : o \in Owner, i \in 0..1}
Items == {Object(Field("items") :> v) : v \in {Null} \cup {List(s) : s \in SeqOf(Item, 2)}}

ItemsPath == <<Segment("items", TRUE, AnyType)>>
OwnerPath == Append(ItemsPath, Segment("owner", FALSE, AnyType))
TeamPath == Append(OwnerPath, Segment("team", FALSE, AnyType))

MCNode ==
    "schema" :> [kind |-> "introspection"]
    @@ "items" :> Fetches("items")
    @@ "me" :> Fetches("users")
    @@ "owners" :> Flattens("users", 1, OwnerPath)
    @@ "prices" :> Flattens("prices", 2, <<Segment("items", TRUE, "T")>>)
    @@ "teams" :> Flattens("teams", 3, TeamPath)

EntityGroups == <<Parallel(<<"owners", "prices">>), Parallel(<<"teams">>)>>

\* The same selection as a query, as two root fields of a mutation, and as a
\* subscription to lists of items.
MCPlans ==
    { Plan("query", <<Parallel(<<"schema">>), Parallel(<<"items", "me">>)>> \o EntityGroups, MCNode),
      Plan("query", <<Sequence(<<"items", "me">>)>> \o EntityGroups, MCNode),
      Plan("subscription", EntityGroups, MCNode) }

MCAnswers(node) ==
    CASE node.kind = "introspection" -> {Object(Field("__schema") :> Leaf("schema"))}
      [] node.kind = "fetch" /\ node.service = "items" -> Items
      [] node.kind = "fetch" /\ node.service = "users" -> {Object(Field("me") :> Leaf("me"))}

Item7 == Object(Field("owner") :> Object(Keys(1, 7)) @@ Keys(2, 1))
ItemPushes(p) == {Object(Field("items") :> List(s)) : s \in {<<>>, <<Item7>>, <<Null, Item7>>}}

ASSUME PlansLawful == \A p \in Plans : Independent(p) /\ RightAlone(p) /\ CleanAlone(p)
=============================================================================
