---------------------------- MODULE MCQueryService ----------------------------
(***************************************************************************)
(* Requests that are right or wrong in one way, each family all the cases   *)
(* of it: fragments that spread each other, variables used through them,    *)
(* arguments, keys, type conditions, directives, limits on depth, and       *)
(* introspection.                                                          *)
(***************************************************************************)
EXTENDS MCPlanner, QueryExecution

MCQuery(defs, sel) == [type |-> "query", defs |-> defs, dirs |-> <<>>, sel |-> sel]
MCDocument(op, fragments, given) ==
    [MCRequest(MCQuery(<<>>, <<>>)) EXCEPT
        !.operations.anonymous = op, !.fragments = fragments, !.given = given]
MCPlain(sel) == MCDocument(MCQuery(<<>>, sel), <<>>, <<>>)
MCId == MCF("id", <<>>)
MCMe(sel) == <<MCF("me", sel)>>

-----------------------------------------------------------------------------
(* Fragments on User, each of which may spread one or two others, or        *)
(* itself, directly or below a field.                                      *)

MCThroughField(s) == MCF("reviews", <<MCF("author", <<s>>)>>)
MCBodies ==
    {<<MCF("name", <<>>)>>} \cup {<<MCId, MCSpread(x)>> : x \in {"p", "q", "r"}}
        \cup {<<MCThroughField(MCSpread(x))>> : x \in {"p", "q", "r"}}
MCFirstBodies == MCBodies \cup {<<MCSpread("q"), MCSpread("r")>>, <<MCThroughField(MCSpread("q")), MCSpread("r")>>}
MCGraphs ==
    {MCDocument(MCQuery(<<>>, MCMe(<<MCSpread("p")>>)),
                [p |-> MCFragment("User", a), q |-> MCFragment("User", b), r |-> MCFragment("User", c)], <<>>) :
        a \in MCFirstBodies, b \in MCBodies, c \in MCBodies}

-----------------------------------------------------------------------------
(* A variable used in a fragment that the operation spreads through         *)
(* another, with every type and value it may have.                         *)

MCItem(name, value) == [name |-> name, value |-> value]
MCListValue(values) == [kind |-> "list", text |-> "", items |-> [i \in DOMAIN values |-> MCItem("", values[i])]]
MCObjectValue(items) == [kind |-> "object", text |-> "", items |-> items]
MCInt == MCValue("int", "1")
MCNull == MCValue("null", "")
MCEnum(text) == MCValue("enum", text)

MCTop(name, value) == MCWith(name, value, MCF("top", <<MCF("upc", <<>>)>>))
MCProducts(value) == MCWith("ids", value, MCF("products", <<MCF("upc", <<>>)>>))
MCBelow(value) == MCItem("below", value)
MCUses ==
    {MCF("me", <<MCWith("upper", MCVar("v"), MCF("name", <<>>))>>),
     MCF("me", <<MCIf("include", MCVar("v"), MCId)>>),
     MCF("me", <<MCIf("skip", MCVar("v"), MCOn("User", <<MCId>>))>>),
     MCProducts(MCVar("v")), MCProducts(MCListValue(<<MCVar("v"), MCString("x")>>)),
     MCTop("filter", MCObjectValue(<<MCBelow(MCVar("v")), MCItem("units", MCInt)>>)),
     MCTop("filter", MCObjectValue(<<MCBelow(MCVar("v"))>>)),
     MCTop("filter", MCObjectValue(<<MCBelow(MCInt), MCItem("units", MCVar("v"))>>))}

MCNamed(t) == {MCNullable(t), MCNonNull(MCNullable(t))}
MCLists(t) == {MCListOf(ref) : ref \in MCNamed(t)}
MCRefs == UNION {MCNamed(t) : t \in {"Boolean", "ID", "Int"}}
              \cup MCLists("ID") \cup {MCNonNull(ref) : ref \in MCLists("ID")} \cup MCLists("Unit")
              \cup {MCNullable("User"), MCNullable("Nope")}
MCDefinitions ==
    {<<>>, <<MCDef("v", MCNullable("Boolean")), MCDef("z", MCNullable("Int"))>>,
     <<MCDef("v", MCNullable("Int")), MCDef("v", MCNullable("Boolean"))>>}
        \cup {<<MCDef("v", ref)>> : ref \in MCRefs}
        \cup {<<[MCDef("v", ref) EXCEPT !.default = {value}]>> :
              ref \in MCNamed("Boolean") \cup MCNamed("Int"), value \in {MCTrue, MCInt}}
MCGiven == {<<>>} \cup {[v |-> value] : value \in {MCTrue, MCInt, MCNull, MCListValue(<<MCString("x")>>)}}

MCShared(use) == [p |-> MCFragment("Query", <<MCSpread("q")>>), q |-> MCFragment("Query", <<use>>)]
MCSpreadP == <<MCSpread("p")>>
MCVariableUses ==
    {MCDocument(MCQuery(defs, MCSpreadP), MCShared(use), given) :
        use \in MCUses, defs \in MCDefinitions, given \in MCGiven}

\* Two operations that share the fragments, or one that does not spread them.
MCTwoOperations ==
    {[MCRequest(MCTwo.a) EXCEPT
          !.operations = [a |-> MCQuery(defs, MCSpreadP), b |-> MCQuery(others, sel)],
          !.fragments = MCShared(MCF("me", <<MCWith("upper", MCVar("v"), MCF("name", <<>>))>>)),
          !.single = FALSE, !.name = "a"] :
        defs \in MCDefinitions, others \in {<<>>, <<MCDef("v", MCNullable("Boolean"))>>},
        sel \in {MCSpreadP, MCMe(<<MCId>>)}}

-----------------------------------------------------------------------------
(* Arguments, keys and type conditions.                                    *)

MCLiterals ==
    {MCInt, MCString("x"), MCTrue, MCNull, MCEnum("EUR"), MCEnum("GBP")}
    \cup {MCListValue(<<value>>) : value \in {MCInt, MCTrue, MCNull, MCEnum("EUR"), MCListValue(<<MCInt>>)}}
    \cup {MCObjectValue(<<>>), MCObjectValue(<<MCItem("above", MCInt)>>)}
    \cup {MCObjectValue(<<MCBelow(value)>>) : value \in {MCInt, MCString("x"), MCNull}}
    \cup {MCObjectValue(<<MCBelow(MCInt), MCItem("units", value)>>) :
          value \in {MCEnum("EUR"), MCListValue(<<MCEnum("DEM"), MCEnum("GBP")>>), MCListValue(<<MCNull>>)}}
    \cup {MCObjectValue(<<MCBelow(MCInt), MCItem("other", MCObjectValue(items))>>) :
          items \in {<<>>, <<MCBelow(MCInt)>>, <<MCBelow(MCTrue)>>}}
MCArguments ==
    {MCPlain(<<f>>) :
        f \in UNION {{MCTop("first", value), MCTop("filter", value), MCProducts(value),
                      MCF("top", <<MCWith("unit", value, MCF("price", <<>>))>>),
                      MCWith("nope", value, MCF("me", <<MCId>>)),
                      MCWith("first", MCInt, MCTop("first", value))} : value \in MCLiterals}}
    \cup {MCPlain(<<MCF("products", <<MCF("upc", <<>>)>>)>>), MCPlain(<<MCF("nope", <<>>)>>), MCPlain(MCMe(<<>>))}

MCSameKey ==
    {MCAs("a", f) : f \in {MCId, MCF("name", <<>>), MCWith("upper", MCTrue, MCF("name", <<>>)),
                           MCWith("upper", MCFalse, MCF("name", <<>>))}}
MCKeys ==
    {MCDocument(MCQuery(<<>>, MCMe(<<f, MCOn("User", <<g>>), MCSpread("p")>>)),
                [p |-> MCFragment("User", <<h>>)], <<>>) : f \in MCSameKey, g \in MCSameKey, h \in MCSameKey}

\* Fragments on an abstract type below another one are left to MCFragmentRequests.
MCConditions ==
    {MCDocument(MCQuery(<<>>, <<MCF(field, <<s>>)>>), <<>>, <<>>) :
        field \in {"me", "latest"},
        s \in {MCOn(t, <<f>>) : t \in {"User", "Product", "Review", "Node", "Any", "Unit", "Nope"},
                                f \in {MCId, MCF("__typename", <<>>)}}}
    \cup {MCDocument(MCQuery(<<>>, <<MCF(field, <<s>>)>>), [p |-> MCFragment(t, <<f>>)], <<>>) :
        field \in {"me", "latest", "node", "any"}, s \in {MCSpread("p"), MCSpread("q"), MCOn(NoType, MCSpreadP)},
        t \in {"User", "Product", "Review", "Filter", "Nope"}, f \in {MCId, MCF("body", <<>>)}}

-----------------------------------------------------------------------------
(* Directives, and limits on depth.                                        *)

MCDirectiveUses ==
    {[name |-> "skip", args |-> args] :
        args \in {<<>>, <<MCArg("if", MCTrue)>>, <<MCArg("if", MCInt)>>, <<MCArg("unless", MCTrue)>>,
                  <<MCArg("if", MCTrue), MCArg("if", MCFalse)>>}} \cup {[name |-> "nope", args |-> <<>>]}
MCDirected ==
    UNION {LET on(s) == [s EXCEPT !.dirs = <<d>>]
               doc(sel) == MCDocument(MCQuery(<<>>, MCMe(sel)), [p |-> MCFragment("User", <<MCId>>)], <<>>)
           IN {doc(<<on(MCSpread("p"))>>), doc(<<on(MCId), MCSpread("p")>>),
               doc(<<MCSpread("p"), on(MCOn(NoType, <<MCF("name", <<>>)>>))>>),
               [doc(MCSpreadP) EXCEPT !.fragments.p.dirs = <<d>>],
               [doc(MCSpreadP) EXCEPT !.operations.anonymous.dirs = <<d>>]} : d \in MCDirectiveUses}

MCLimited ==
    {[MCRequest(MCOperation("query", sel)) EXCEPT !.limit = {n}] :
        n \in 0 .. 4,
        sel \in {<<MCF("latest", s)>> : s \in MCReview1} \cup {<<MCSpread("rootParts"), MCF("latest", <<MCBody>>)>>}}
    \cup {[doc EXCEPT !.limit = {3}] : doc \in MCGraphs}
    \cup {[operations |-> [IntrospectionQuery |-> MCQuery(<<>>, MCMe(<<MCF("reviews", <<MCBody>>)>>)),
                           other |-> MCQuery(<<>>, MCMe(<<MCId>>))],
           single |-> FALSE, name |-> name, fragments |-> <<>>, given |-> <<>>, limit |-> {n}] :
          name \in {"IntrospectionQuery", "other"}, n \in 0 .. 2}

-----------------------------------------------------------------------------
(* Introspection: the standard query, as graphql-js writes it, and others.  *)

MCTypeRef(n) ==
    LET set[i \in 0 .. n] ==
            <<MCF("kind", <<>>), MCF("name", <<>>)>> \o (IF i = 0 THEN <<>> ELSE <<MCF("ofType", set[i - 1])>>)
    IN set[n]
MCAlso(f) == MCWith("includeDeprecated", MCTrue, f)
MCStandard ==
    LET name == <<MCF("name", <<>>)>>
    IN <<MCF("__schema", <<MCF("queryType", name), MCF("mutationType", name), MCF("subscriptionType", name),
                           MCF("types", <<MCSpread("FullType")>>),
                           MCF("directives", name \o <<MCF("locations", <<>>),
                                                       MCF("args", <<MCSpread("InputValue")>>)>>)>>)>>
MCStandardFragments ==
    LET name == MCF("name", <<>>)
        type == MCF("type", <<MCSpread("TypeRef")>>)
        deprecated == MCF("isDeprecated", <<>>)
        inputs == <<MCSpread("InputValue")>>
    IN [FullType |-> MCFragment("__Type",
            <<MCF("kind", <<>>), name,
              MCAlso(MCF("fields", <<name, MCF("args", inputs), type, deprecated>>)),
              MCF("inputFields", inputs), MCF("interfaces", <<MCSpread("TypeRef")>>),
              MCAlso(MCF("enumValues", <<name, deprecated>>)), MCF("possibleTypes", <<MCSpread("TypeRef")>>)>>),
        InputValue |-> MCFragment("__InputValue", <<name, type, MCF("defaultValue", <<>>)>>),
        TypeRef |-> MCFragment("__Type", MCTypeRef(3))]

MCTypeNamed(value) == MCWith("name", value, MCF("__type", MCTypeRef(1)))
MCAsked ==
    {MCTypeNamed(MCString("Review")), MCAs("unit", MCTypeNamed(MCVar("t"))),
     MCF("__typename", <<>>), MCF("__schema", <<MCF("subscriptionType", MCTypeRef(0))>>)}
MCIntrospection ==
    {MCDocument(MCQuery(<<>>, MCStandard), MCStandardFragments, <<>>)}
    \cup {MCDocument(MCQuery(MCDefs(sel), sel), <<>>, given) :
        sel \in UNION {{<<f, MCF("me", <<MCId>>), g>>, <<MCIf("skip", MCTrue, f), g>>,
                        <<MCIf("skip", MCFalse, f), MCOn("Query", <<MCIf("include", MCFalse, g)>>)>>,
                        <<MCIf("include", MCVar("v"), f), g>>,
                        <<MCIf("skip", MCTrue, MCIf("include", MCTrue, f)), g>>,
                        <<MCIf("include", MCVar("v"), MCIf("skip", MCFalse, f)), g>>} :
                       <<f, g>> \in {h \in MCAsked \X MCAsked : h[1] # h[2]}},
        given \in {[t |-> MCString(name), v |-> value] :
                   name \in {"Unit", "Nope"}, value \in {MCTrue, MCFalse}} \cup {[v |-> MCTrue]}}

\* Directives on __typename, which the validator passes over: of the gateway's own
\* fields, of a service's, or in a fragment, with their variable used elsewhere or not.
MCUnseenDirectives ==
    LET if(d, value) == [name |-> d, args |-> <<MCArg("if", value)>>]
    IN {<<if("include", MCVar("v"))>>, <<if("include", MCTrue)>>, <<if("skip", MCTrue)>>,
        <<if("skip", MCFalse), if("include", MCVar("v"))>>,
        <<[name |-> "skip", args |-> <<>>]>>, <<[name |-> "nope", args |-> <<>>]>>,
        <<[name |-> "skip", args |-> <<MCArg("if", MCTrue), MCArg("if", MCFalse)>>]>>}
MCUnseen ==
    {MCDocument(MCQuery(defs, sel \o rest), [p |-> MCFragment("Query", <<MCF("__typename", <<>>)>>)], given) :
        sel \in UNION {LET f == [MCF("__typename", <<>>) EXCEPT !.dirs = dirs]
                       IN {<<f>>, <<MCF("__schema", <<f, MCF("queryType", <<MCF("name", <<>>)>>)>>)>>,
                           MCMe(<<f, MCId>>), <<MCOn("Query", <<f>>)>>} : dirs \in MCUnseenDirectives},
        rest \in {MCSpreadP, MCSpreadP \o <<MCAs("other", MCF("me", <<MCWith("upper", MCVar("v"), MCF("name", <<>>))>>))>>},
        defs \in {<<>>, <<MCDef("v", MCNonNull(MCNullable("Boolean")))>>,
                  <<[MCDef("v", MCNullable("Boolean")) EXCEPT !.default = {MCTrue}]>>},
        given \in {<<>>, [v |-> MCTrue], [v |-> MCFalse]}}

-----------------------------------------------------------------------------
(* Worlds, in which the documents of MCPlanner are executed.               *)

MCExecuted == MCPlanned \ MCNamedRequests

\* A field that requires others where the service that resolves it is at hand: the
\* planner asks it without them.
RECURSIVE MCAskedBare(_, _, _)
MCAskedBare(service, t, sel) ==
    \E c \in Concrete(t) : \E f \in Range(Collect(c, sel)) :
        /\ HasField(c, f.name)
        /\ LET resolver == ServiceOf(c, f.name, service)
           IN \/ resolver = service /\ FieldOf(c, f.name).requires # NoKeys
              \/ MCAskedBare(resolver, FieldOf(c, f.name).type.name, f.sel)

MCThing(t, at) == [type |-> t, at |-> at]
MCIt(name) == [kind |-> "object", name |-> name]
MCAllOf(names) == D!List([i \in DOMAIN names |-> MCIt(names[i])])
MCWorld(names, node, products) ==
    [Query |-> MCThing("Query", [me |-> MCIt("u1"), latest |-> MCIt("r1"), top |-> MCAllOf(products), node |-> node]),
     Mutation |-> MCThing("Mutation", [rename |-> MCIt("u1"), restock |-> MCIt("p1"), review |-> MCIt("r2")]),
     Subscription |-> MCThing("Subscription", [renamed |-> MCIt("u2"), reviewed |-> MCIt("r1")]),
     u1 |-> MCThing("User", [reviews |-> MCAllOf(names)]),
     u2 |-> MCThing("User", [reviews |-> MCAllOf(<<>>)]),
     p1 |-> MCThing("Product", [maker |-> MCIt("u1"), reviews |-> MCAllOf(names)]),
     p2 |-> MCThing("Product", [maker |-> MCIt("u2"), reviews |-> MCAllOf(<<"r3">>)]),
     r1 |-> MCThing("Review", [author |-> MCIt("u2"), product |-> MCIt("p1")]),
     r2 |-> MCThing("Review", [author |-> MCIt("u1"), product |-> D!Null]),
     r3 |-> MCThing("Review", [author |-> D!Null, product |-> MCIt("p2")])]
MCKnown ==
    LET full == MCWorld(<<"r2", "r1">>, MCAllOf(<<"u1", "p1">>), <<"p1", "p2">>)
        sparse == MCWorld(<<"r3", "r1">>, MCAllOf(<<"p2", "u2">>), <<>>)
    IN [full |-> full, sparse |-> sparse]
MCFaulty == {"full"}
MCWorlds(r) ==
    IF r \in MCExecuted /\ ~MCAskedBare(NoService, RootType(GetOperation), GetOperation.sel)
    THEN DOMAIN MCKnown ELSE {}

-----------------------------------------------------------------------------

MCRequests ==
    MCPlanned \cup MCGraphs \cup MCVariableUses \cup MCTwoOperations \cup MCArguments \cup MCKeys
    \cup MCConditions \cup MCDirected \cup MCLimited \cup MCIntrospection \cup MCUnseen

=============================================================================
