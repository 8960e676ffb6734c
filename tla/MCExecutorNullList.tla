-------------------------- MODULE MCExecutorNullList --------------------------
(* A plan with lists inside lists.                                         *)
EXTENDS MCResponseData

\* { teams { members { user { name } } } }: the members of a team may be null.
User == Object(Field("user") :> Object(Keys(1, 7)))
User2 == Object(Field("user") :> Object(Keys(1, 8)))
Team == {Object(Field("members") :> v) : v \in {Null, List(<<User, User2>>)}}
MembersNode ==
    "teams" :> Fetches("teams")
    @@ "users" :> Flattens("users", 1, <<Segment("teams", TRUE, AnyType),
                                         Segment("members", TRUE, AnyType),
                                         Segment("user", FALSE, AnyType)>>)
MembersPlans == { Plan("query", <<Parallel(<<"teams">>), Parallel(<<"users">>)>>, MembersNode) }
NoPushes(p) == {}
MembersAnswers(node) == {Object(Field("teams") :> List(s)) : s \in SeqOf(Team, 2)}
=============================================================================
