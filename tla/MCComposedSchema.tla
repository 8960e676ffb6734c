-------------------------- MODULE MCComposedSchema --------------------------
(***************************************************************************)
(* Three services that publish documents about users, reviews and a node   *)
(* interface: an owner, extensions that agree with it, and ones that do    *)
(* not (a second owner, a field that is not external, another interface,   *)
(* an object with the name of the interface).                              *)
(***************************************************************************)
EXTENDS ComposedSchema

MCTypeNames == {"Query", "Mutation", "Subscription", "User", "Node", "Named", "String"}
MCFieldNames == {"id", "name", "reviews", "me", "__type", "__schema", "__typename"}

MCDef(kind, name, extend, keys, implements, own, external) ==
    [kind |-> kind, name |-> name, extend |-> extend, keys |-> keys, implements |-> implements,
     fields |-> [f \in own \cup external |-> f \in external], members |-> {}]

MCRoot(name, field) == MCDef("object", name, FALSE, <<>>, {}, {field}, {})
MCNode(fields) == MCDef("interface", "Node", FALSE, <<>>, {}, fields, {})
MCUser(keys, fields) == MCDef("object", "User", FALSE, keys, {"Node", "Named"}, fields, {})
MCExtension(keys, implements, own, external) ==
    MCDef("object", "User", TRUE, keys, implements, own, external)

MCDocuments ==
    {<<MCUser(<<"id">>, {"id", "name"}), MCRoot("Query", "me")>>,
     <<MCNode({"id"}), MCUser(<<"name", "id">>, {"name"})>>,
     <<MCDef("object", "User", FALSE, <<"id">>, {}, {"name"}, {"id"})>>,
     <<MCExtension(<<"id">>, {}, {"reviews"}, {"id"}), MCNode({"id"})>>,
     <<MCExtension(<<"id">>, {"Named"}, {}, {"id"}), MCExtension(<<"name">>, {}, {"reviews"}, {"name"})>>,
     <<MCExtension(<<>>, {}, {"id"}, {})>>,
     <<MCRoot("Mutation", "reviews"), MCNode({"id", "name"})>>,
     <<MCDef("object", "Query", TRUE, <<>>, {}, {"reviews"}, {}), MCNode({"id"})>>,
     <<MCDef("object", "Node", FALSE, <<"id">>, {}, {"id"}, {})>>,
     <<MCDef("object", "Mutation", TRUE, <<>>, {"Node"}, {}, {"me"})>>,
     <<MCDef("union", "Named", FALSE, <<>>, {}, {}, {})>>,
     <<MCDef("scalar", "String", FALSE, <<>>, {}, {}, {}), MCDef("scalar", "Subscription", FALSE, <<>>, {}, {}, {})>>}
=============================================================================
