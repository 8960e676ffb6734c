------------------------------ MODULE MCPlanner ------------------------------
(***************************************************************************)
(* A composed schema of three services: accounts owns User, products owns  *)
(* Product, reviews owns Review and extends both, and products has makers,  *)
(* who are users; Node is an interface that both implement, Named one that  *)
(* only User does, Any a union.  With them come the types by which a schema *)
(* describes itself.  The documents of this module ask for all there is,    *)
(* three fields deep and in pairs.                                          *)
(***************************************************************************)
EXTENDS QueryService

MCValue(kind, text) == [kind |-> kind, text |-> text, items |-> <<>>]
MCVar(v) == MCValue("variable", v)
MCTrue == MCValue("boolean", "true")
MCFalse == MCValue("boolean", "false")
MCString(text) == MCValue("string", text)

MCNullable(t) == [name |-> t, nulls |-> <<TRUE>>]
MCNonNull(ref) == [ref EXCEPT !.nulls[1] = FALSE]
MCListOf(ref) == [ref EXCEPT !.nulls = <<TRUE>> \o @]
MCInput(ref) == [type |-> ref, default |-> {}]
MCDefault(ref, value) == [type |-> ref, default |-> {value}]
MCOptional(t) == MCInput(MCNullable(t))

MCKey(f) == <<[name |-> f, keys |-> <<>>]>>
MCField(service, ref) ==
    [service |-> service, type |-> ref, args |-> <<>>, requires |-> NoKeys, deprecated |-> FALSE]
MCOne(service, t) == MCField(service, MCNullable(t))
MCMany(service, t) == MCField(service, MCListOf(MCNullable(t)))
MCLeaf(t) == MCOne(NoService, t)
MCStrict(t) == MCField(NoService, MCNonNull(MCNullable(t)))
MCTaking(args, f) == [f EXCEPT !.args = args]

MCType(kind) ==
    [kind |-> kind, owner |-> NoService, keys |-> <<>>, fields |-> <<>>, implements |-> <<>>,
     possible |-> <<>>, values |-> <<>>, inputs |-> <<>>]
MCObject(owner, keys, fields) == [MCType("object") EXCEPT !.owner = owner, !.keys = keys, !.fields = fields]
MCAbstract(kind, fields, possible) == [MCType(kind) EXCEPT !.fields = fields, !.possible = possible]

\* What a schema says of itself (builtin.graphql, and finish_schema).
MCStrictList(t) == MCField(NoService, MCListOf(MCNonNull(MCNullable(t))))
MCAll(f) == [f EXCEPT !.type.nulls[1] = FALSE]
MCDeprecated == [includeDeprecated |-> MCDefault(MCNonNull(MCNullable("Boolean")), MCFalse)]
MCBuiltin ==
    "__Schema" :> MCObject(NoService, <<>>,
        [types |-> MCStrictList("__Type"), queryType |-> MCStrict("__Type"),
         mutationType |-> MCLeaf("__Type"), subscriptionType |-> MCLeaf("__Type"),
         directives |-> MCAll(MCStrictList("__Directive"))])
    @@ "__Type" :> MCObject(NoService, <<>>,
        [kind |-> MCLeaf("__TypeKind"), name |-> MCLeaf("String"), ofType |-> MCLeaf("__Type"),
         fields |-> MCTaking(MCDeprecated, MCStrictList("__Field")),
         enumValues |-> MCTaking(MCDeprecated, MCStrictList("__EnumValue")),
         interfaces |-> MCStrictList("__Type"), possibleTypes |-> MCStrictList("__Type"),
         inputFields |-> MCStrictList("__InputValue")])
    @@ "__Field" :> MCObject(NoService, <<>>,
        [name |-> MCStrict("String"), args |-> MCAll(MCStrictList("__InputValue")),
         type |-> MCStrict("__Type"), isDeprecated |-> MCStrict("Boolean")])
    @@ "__InputValue" :> MCObject(NoService, <<>>,
        [name |-> MCStrict("String"), type |-> MCStrict("__Type"), defaultValue |-> MCLeaf("String")])
    @@ "__EnumValue" :> MCObject(NoService, <<>>,
        [name |-> MCStrict("String"), isDeprecated |-> MCStrict("Boolean")])
    @@ "__Directive" :> MCObject(NoService, <<>>,
        [name |-> MCStrict("String"), locations |-> MCAll(MCStrictList("__DirectiveLocation")),
         args |-> MCAll(MCStrictList("__InputValue"))])
    @@ "__DirectiveLocation" :> [MCType("enum") EXCEPT !.values = [FIELD |-> [deprecated |-> FALSE]]]
    @@ "__TypeKind" :> [MCType("enum") EXCEPT !.values = [Scalar |-> [deprecated |-> FALSE]]]
MCBuiltinFields ==
    "__schema" :> MCStrict("__Schema")
    @@ "__type" :> MCTaking([name |-> MCInput(MCNonNull(MCNullable("String")))], MCLeaf("__Type"))
MCHidden == DOMAIN MCBuiltin \cup DOMAIN MCBuiltinFields

MCUpper == [upper |-> MCOptional("Boolean")]
MCUnit == [unit |-> MCDefault(MCNullable("Unit"), MCValue("enum", "EUR"))]
MCIds == [ids |-> MCInput(MCNonNull(MCListOf(MCNonNull(MCNullable("ID")))))]
MCTypes ==
    LET types ==
        [Query |-> MCObject(NoService, <<>>,
             [me |-> MCOne("accounts", "User"), latest |-> MCOne("reviews", "Review"),
              top |-> MCTaking([first |-> MCOptional("Int"), filter |-> MCOptional("Filter")],
                               MCMany("products", "Product")),
              products |-> MCTaking(MCIds, MCMany("products", "Product")),
              node |-> MCMany("reviews", "Node"), any |-> MCOne("reviews", "Any")] @@ MCBuiltinFields),
         Mutation |-> MCObject(NoService, <<>>,
             [rename |-> MCOne("accounts", "User"), restock |-> MCOne("products", "Product"),
              review |-> MCOne("reviews", "Review")]),
         Subscription |-> MCObject(NoService, <<>>,
             [renamed |-> MCOne("accounts", "User"), reviewed |-> MCOne("reviews", "Review")]),
         User |-> [MCObject("accounts", [s \in {"accounts", "products", "reviews"} |-> <<MCKey("id")>>],
                       [id |-> MCStrict("ID"), name |-> MCTaking(MCUpper, MCLeaf("String")),
                        reviews |-> MCMany("reviews", "Review")])
                   EXCEPT !.implements = <<"Node", "Named">>],
         Product |-> [MCObject("products", [s \in {"products", "reviews"} |-> <<MCKey("upc")>>],
                          [upc |-> MCStrict("ID"), price |-> MCTaking(MCUnit, MCLeaf("Int")), maker |-> MCLeaf("User"),
                           id |-> MCField("reviews", MCNonNull(MCNullable("ID"))),
                           reviews |-> [MCMany("reviews", "Review") EXCEPT !.requires = MCKey("price")]])
                      EXCEPT !.implements = <<"Node">>],
         Review |-> MCObject("reviews", <<>>,
             [body |-> [MCLeaf("String") EXCEPT !.deprecated = TRUE], author |-> MCLeaf("User"),
              product |-> MCLeaf("Product")]),
         Node |-> MCAbstract("interface", [id |-> MCStrict("ID")], <<"User", "Product">>),
         Named |-> MCAbstract("interface", [name |-> MCTaking(MCUpper, MCLeaf("String"))], <<"User">>),
         Any |-> MCAbstract("union", <<>>, <<"User", "Review">>),
         Unit |-> [MCType("enum") EXCEPT !.values =
                       [EUR |-> [deprecated |-> FALSE], DEM |-> [deprecated |-> TRUE]]],
         Filter |-> [MCType("input") EXCEPT !.inputs =
                       [below |-> MCInput(MCNonNull(MCNullable("Int"))),
                        units |-> MCInput(MCListOf(MCNonNull(MCNullable("Unit")))),
                        other |-> MCOptional("Filter")]],
         String |-> MCType("scalar"), Boolean |-> MCType("scalar"),
         Int |-> MCType("scalar"), ID |-> MCType("scalar")] @@ MCBuiltin
    IN types

MCDirectives ==
    LET directive == [args |-> [if |-> MCInput(MCNonNull(MCNullable("Boolean")))],
                      locations |-> {"FIELD", "FRAGMENT_SPREAD", "INLINE_FRAGMENT"}]
    IN [skip |-> directive, include |-> directive]

MCArg(name, value) == [name |-> name, value |-> value]
MCF(name, sel) ==
    [kind |-> "field", name |-> name, key |-> name, args |-> <<>>, dirs |-> <<>>, sel |-> sel]
MCAs(key, f) == [f EXCEPT !.key = key]
MCWith(name, value, f) == [f EXCEPT !.args = Append(@, MCArg(name, value))]
MCIf(directive, value, s) ==
    [s EXCEPT !.dirs = Append(@, [name |-> directive, args |-> <<MCArg("if", value)>>])]
MCOn(t, sel) == [kind |-> "inline", on |-> t, dirs |-> <<>>, sel |-> sel]
MCSpread(name) == [kind |-> "spread", fragment |-> name, dirs |-> <<>>]
MCFragment(t, sel) == [on |-> t, dirs |-> <<>>, sel |-> sel]

MCFragments ==
    [userParts |-> MCFragment("User", <<MCF("name", <<>>), MCF("reviews", <<MCF("body", <<>>)>>)>>),
     nodeParts |-> MCFragment("Node", <<MCF("id", <<>>), MCOn("Product", <<MCAs("cost", MCF("price", <<>>))>>)>>),
     rootParts |-> MCFragment("Query",
                       <<MCF("me", <<MCSpread("userParts")>>), MCF("top", <<MCF("price", <<>>)>>)>>)]

\* Selections, one level at a time: single ones and pairs.
MCPairs(A, B) == {<<a>> : a \in A} \cup {<<a, b>> : a \in A, b \in B} \cup {<<b, a>> : a \in A, b \in B}
MCWrap(name, sels) == {MCF(name, sel) : sel \in sels}

MCUserLeaves == {MCF("id", <<>>), MCWith("upper", MCVar("v"), MCF("name", <<>>)), MCF("__typename", <<>>)}
MCProductLeaves == {MCF("upc", <<>>), MCF("price", <<>>)}
MCBody == MCF("body", <<>>)

MCReview0 == {<<MCBody>>}
MCUser1 == MCPairs(MCUserLeaves \cup MCWrap("reviews", MCReview0), MCUserLeaves)
MCProduct1 == MCPairs(MCProductLeaves \cup MCWrap("reviews", MCReview0), MCProductLeaves)
MCReview1 == MCPairs(MCWrap("author", MCUser1) \cup MCWrap("product", MCProduct1),
                     {MCBody, MCAs("by", MCF("author", <<MCF("name", <<>>)>>)),
                      MCF("product", <<MCF("upc", <<>>)>>)})
MCUser2 == MCPairs(MCWrap("reviews", MCReview1), {MCF("name", <<>>)})
           \cup {<<MCSpread("userParts"), MCAs("r", MCF("reviews", sel))>> : sel \in MCReview1}
MCNode1 ==
    LET parts == {MCF("id", <<>>), MCF("__typename", <<>>), MCSpread("nodeParts"), MCSpread("userParts"),
                  MCOn("User", <<MCF("name", <<>>), MCF("reviews", <<MCBody>>)>>),
                  MCOn("Product", <<MCF("reviews", <<MCF("author", <<MCF("name", <<>>)>>)>>)>>),
                  MCOn(NoType, <<MCF("id", <<>>), MCOn("Product", <<MCWith("unit", MCVar("w"), MCF("price", <<>>))>>)>>)}
    IN MCPairs(parts, parts)

MCQueries ==
    {<<f>> : f \in MCWrap("me", MCUser2) \cup MCWrap("latest", MCReview1) \cup MCWrap("node", MCNode1)}
    \cup {<<MCF("top", <<MCF("maker", sel)>>)>> : sel \in MCUser1}
    \cup {<<MCF("top", <<MCF("reviews", sel)>>), MCAs("again", MCF("top", <<MCF("price", <<>>)>>)),
            MCF("__schema", <<MCOn(NoType, <<MCF("types", <<MCF("name", <<>>)>>)>>)>>)>> : sel \in MCReview1}
    \cup {<<MCF("latest", sel), MCSpread("rootParts"), MCOn("Query", <<MCAs("other", MCF("latest", <<MCBody>>))>>)>>
          : sel \in MCReview1}

MCMutationFields ==
    {MCF("rename", <<MCF("name", <<>>)>>), MCAs("second", MCF("rename", <<MCF("reviews", <<MCBody>>)>>)),
     MCF("restock", <<MCF("reviews", <<MCF("author", <<MCF("name", <<>>)>>)>>)>>), MCF("review", <<MCBody>>)}
MCMutations == {sel \in [1 .. 3 -> MCMutationFields] : Cardinality(Range(sel)) = 3}

MCSubscriptions ==
    {<<MCF("reviewed", sel)>> : sel \in MCReview1}
    \cup {<<MCF("renamed", sel), MCF("reviewed", <<MCF("author", <<MCF("name", <<>>)>>)>>)>> : sel \in MCUser1}

\* A request for one operation, with the fragments it spreads and the variables it uses.
RECURSIVE MCSpreads(_), MCVariables(_)
MCSpreads(sel) ==
    UNION {IF s.kind = "spread" THEN {s.fragment} \cup MCSpreads(MCFragments[s.fragment].sel)
           ELSE MCSpreads(s.sel) : s \in Range(sel)}
MCVariables(sel) ==
    UNION {CASE s.kind = "field" -> FieldVariables(s) \cup MCVariables(s.sel)
             [] s.kind = "inline" -> MCVariables(s.sel)
             [] s.kind = "spread" -> MCVariables(MCFragments[s.fragment].sel) : s \in Range(sel)}

MCVariableTypes ==
    [v |-> MCNullable("Boolean"), w |-> MCNullable("Unit"), t |-> MCNonNull(MCNullable("String"))]
MCDef(name, ref) == [name |-> name, type |-> ref, default |-> {}]
MCDefs(sel) ==
    LET names == SetToSeq(MCVariables(sel)) IN [i \in DOMAIN names |-> MCDef(names[i], MCVariableTypes[names[i]])]
MCOperation(type, sel) == [type |-> type, defs |-> MCDefs(sel), dirs |-> <<>>, sel |-> sel]
MCRequest(op) ==
    [operations |-> [anonymous |-> op], single |-> TRUE, name |-> NoOperation,
     fragments |-> [f \in MCSpreads(op.sel) |-> MCFragments[f]],
     given |-> [v \in {"v"} |-> MCTrue], limit |-> {}]

\* Documents of two operations, and names that they have or not.
MCTwo == [a |-> MCOperation("query", <<MCF("me", <<MCF("name", <<>>)>>)>>),
          b |-> MCOperation("mutation", <<MCF("rename", <<MCF("name", <<>>)>>)>>)]
MCNamedRequests ==
    {[MCRequest(MCTwo.a) EXCEPT !.operations = MCTwo, !.single = FALSE, !.name = n] : n \in {"a", "b", NoOperation}}
    \cup {[MCRequest(MCTwo.a) EXCEPT !.name = "a"]}

MCPlanned ==
    {MCRequest(op) : op \in {MCOperation("query", sel) : sel \in MCQueries}
                            \cup {MCOperation("mutation", sel) : sel \in MCMutations}
                            \cup {MCOperation("subscription", sel) : sel \in MCSubscriptions}}
    \cup MCNamedRequests

\* Fragments on an interface below another interface.
MCFragmentRequests ==
    {MCRequest(MCOperation("query", <<MCF("node", sel)>>)) :
        sel \in {<<MCF("id", <<>>), MCOn("Named", <<MCF("name", <<>>)>>)>>} \cup MCNode1}

=============================================================================
