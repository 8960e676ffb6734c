# TLA+ models and proofs for apollo-gateway-rs

`apollo-gateway-rs` is a GraphQL federation gateway. It composes one schema
from the SDLs of many subgraphs, plans a client's operation as fetches from
them, and executes the plan over HTTP or over WebSockets. This directory holds
TLA+ modules of the parts of it that keep state or that many actors share, TLC
configurations that check them, and TLAPS proofs.

Paths below are relative to `src/apollo-gateway-rs/src/` of the repository.

## 1. Inventory

| part | code | state | operations | what makes it correct |
|---|---|---|---|---|
| WebSocket controller | `handler/websocket/controller.rs`, `grouped_stream.rs` | the upstream connections of one client session, a count of subscriptions per connection, what is subscribed under each id, the client's init payload | commands Subscribe and Stop; a handshake that blocks the task; Data, Complete and failures from upstream; the end of the session | counts exact; a connection open exactly while used; every caller answered; one subscription never ends or feeds another |
| WebSocket session | `handler/websocket/subscription.rs`, `protocol.rs`; `execute_stream` in `handler/executor.rs` | an actor per client connection, its controller, a response stream per operation | ConnectionInit, Start, Stop, Terminate and close; the stream's polls | every operation that is started is completed, when its upstream dies too; a Stop ends it; nothing stays subscribed after it |
| WebSocket fetcher | `handler/fetcher.rs` | a counter of ids per operation | one query, as a subscription that is read once | its ids do not collide with others of the session |
| Shared route table | `handler/shared_route_table.rs`, `service_route.rs` | the table of sources, the composed schema, a queue of Changes | set_route_table, the periodic update, get, query | the schema is of the table it is used with; failures keep the last good schema; it converges |
| Executor | `handler/executor.rs` | one response under a mutex | run sequence, parallel, fetch, flatten and introspection nodes; push of a subscription | the result is that of running the nodes one by one; each entity gets back to its place; no planner-made key remains |
| Planner | `planner/` | none (a pure function) | the choice of the operation, grouping by service, keys and entity fetches, variables | fields fetched where they are, each once, mutations in order, keys present where needed |
| Composed schema | `schema/` | none | combine the SDLs of the services | independent of the order of the services; conflicts found |
| Query validation | `validation/` | none; each rule keeps what it has seen | a visitor that walks a document with a stack of types, and 20 rules; those about fragments and variables are graph searches, the others look at one node with its types | the searches end and say what writing the fragments out would; together the rules let nothing through that the planner or a service cannot take |
| Introspection | `handler/introspection/` | none | a projection of the schema onto a selection | a client rebuilds from it the types it is validated against |
| Sources, middleware | `datasource/mod.rs` | none | one HTTP request; user hooks | - |
| Builder, HTTP handlers | `lib.rs`, `handler/mod.rs` | none | configuration | - |

How they interact. `update_loop` is the only writer of the shared table; HTTP
requests and WebSocket sessions read a (schema, table) pair under one lock and
keep it. A request is planned from that schema and executed by an `Executor`
whose fetcher is the table (HTTP) or the session's controller (WebSocket). A
session's operations share one controller task, which they reach through an
unbounded channel of commands with a oneshot for each reply, and which sends
responses through an mpsc channel per call. The task multiplexes the
operations onto one connection per service.

What is hard in it: the controller's task reads neither commands nor upstream
messages while it opens a connection; Stops are sent by tasks of their own and
race the Subscribes; an upstream that shares its connection is never told that a
subscription is over, so its late messages meet whatever the id means then; one
upstream's end is the end of the whole session's task; parallel nodes change one
response around fetches; entities are matched to places by position alone; an
update works with a table that was read before a long wait. `PROJECT.json` lists
each hazard at its line, with the properties that are about it.

## 2. The modules

| module | of | kind |
|---|---|---|
| `Multiplexer` | what a controller promises | abstract specification |
| `WsController` | the controller task, its callers and upstreams as environment | detailed; implements `Multiplexer` |
| `WsSession` | actor, streams and fetchers, with `WsController` as instance `Ctl` | composition |
| `SharedRouteTable` | update loop, requests, sources | detailed |
| `ResponseValues` | what the data of a response is made of | data |
| `ResponseData` | merging, taking keys out, putting entities back | operators (recursive); extends `ResponseValues` |
| `Executor` | the execution of a plan over one response | detailed; the operators of `ResponseData` are its constants |
| `ExecutorLaws` | what the executor relies on of plans and data | operators; extends `Executor` |
| `ComposedSchema` | `combine`, with the services in any order | detailed |
| `QueryDocument` | queries, the schema as planning reads it, and what a query asks for | data and reference definition (recursive) |
| `Visitor` | the walk of the validator over a document | operators (recursive); extends `QueryDocument` |
| `FragmentSearch` | the searches of the rules from fragment to fragment, in any graph | operators |
| `Validation` | the rules of the validator | operators; extends `Visitor` and `FragmentSearch` |
| `Planner` | the validation and planning of one request | detailed; extends `Validation` |
| `Introspection` | the answers to introspection | operators; extends `QueryDocument` |
| `QueryService` | a request up to its plan: limit on depth, validation, planning, introspection | composition; extends `Planner` and `Introspection` |
| `QueryExecution` | a request up to its response: `QueryService`, `Executor` as instance `Exec`, and services that answer | composition |
| `WsControllerProofs` | the controller, and that it implements `Multiplexer` | proofs |
| `WsControllerOwnIds` | the controller when calls do not share ids | proofs |
| `WsSessionProofs` | the session | proofs, with those of the controller as instance `CtlP` |
| `SharedRouteTableProofs`, `ComposedSchemaProofs` | the route table; the composition | proofs |
| `ExecutorProofs` | the executor, under the laws of `ExecutorLaws` | proofs |
| `FragmentSearchProofs` | the searches, in any finite graph | proofs |
| `SequenceLemmas` | induction over the natural numbers, and what follows of sequences | lemmas |
| `MC*` | | instances for TLC |

Definitions named "Mutant" are changed forms of the definition after them, with
a bug that could be in the code. No specification uses them; each shows that a
property notices that bug.

### WsController

One action per command, handshake step and event, each the whole handler.
`upstream` is the key set of the `GroupedStream` and `info` that of
`upstream_info`: the code keeps the two apart, so the model does. `busy` is the
command inside `ensure_upstream`; while it is not `Idle` only handshake steps
move the task. `ConnectFailed` covers every `?` and `bail` of
`ensure_upstream`. `Terminate` is the end of the task by a `break` of the loop
or by a panic: what it owns is dropped, and oneshots and senders with it, which
callers see as `dropped` and as the end of their channel. A failed `assert!` in
`handle_command_subscribe` is `Terminate("panicked")`.

The environment: callers (`Subscribe`, `Stop`, `Receive`, `DropReceiver`,
`DropHandle`) and servers (`UpstreamData`, `UpstreamComplete`, `UpstreamFault`). A
`Subscribe` sends a burst of commands because `try_join_all` polls every call
in one go. `src` in messages, inboxes and `remote` is a ghost: the wire carries
the id alone, and `NoCrossTalk` asks whether that is enough as long as no call takes an id
that something still remembers; fetches do take such ids, and what holds then is
asked in `WsSession`.

Abstracted: payloads; the two sub-protocols (their texts map to the same
messages); keep-alive and acknowledgement messages that the task ignores after
the handshake. Headers and middleware matter by failing only.

### WsSession

`pc[o]` is the place in the response stream of operation `o`; `fetches[o]` the
queries its executor awaits; `stops` the spawned tasks that have yet to send
their Stop. The channel `<<o, 0>>` is the subscription's, `<<o, n>>` that of its
n-th fetch, whose id is `n` as the code's is `__req{n}`: the same for every
operation, since each has a fetcher with a counter of its own. Actor, streams
and spawned tasks share one thread; handling a Start and the first poll of the
new stream are in one turn, so they are one action. `OwnResponse` asks of a fetch
what `OwnChannel` asks of a subscription: that what it reads was sent for it, although
the id it goes by has been used before, and late messages for it may be on their way. The client gives each Start
an id of its own, as the protocol asks; operations are never restarted.

### SharedRouteTable

`updating` is the table that the update in progress has read and `got` what it
has got; the queue is not read meanwhile. `schema.from` and `fetch` are ghosts
that say where a schema came from and where a fetch went. `TakeCommand` is the
`rx.recv()` branch, `Tick` the timer's with the read of the table, `Answer`,
`AnswerFails`, `Combine` the rest of `update`. Sources publish anything, go
down and come up at any time. `set_route_table` is a public method and so may
be called at any time, though the shipped builder calls it once.

Whether a family of SDLs combines is the constant `Composable`. What
`check_recursive_depth` refuses is the same as a request that ends.

### ResponseData and Executor

A value is null, a leaf, an object or a list. A field is a pair of a prefix and
a name; prefix 0 is the query's own, `<<p, n>>` is what the code writes
`__key{p}_{n}`, so that "starts with the prefix" is a comparison. `Represent` is
`get_representations`, `FlattenValues` is `flatten_values` with its two
iterators as `left`. `None` and `Null` data are one value: the first merge
turns the one into the other.

What a step does to the data is a parameter of `Executor`: `Merging`, `Representing`,
`PuttingBack`, `KeyFree` and the reference `Resolving` are constant operators, to which the runs and
`QueryExecution` give `Merge`, `Represent`, `PutBack`, `Clean` and `Resolve` of `ResponseData`. `Executor` keeps when they are
applied, to which data, and what is remembered in between, and can be proved about; `ResponseData`
walks trees with recursive operators. `Plans` are the plans that a run executes by itself; what a
fetch is answered with, `Answers`, `Entity` and `Pushes`, are constant operators of the node, so
that `QueryExecution` can put its services in their place.

The code does nothing to make the nodes of a parallel group independent of each
other; that is up to the planner. `ExecutorLaws` says of nodes which run one after another
what has to hold: two nodes of a parallel group may change places and do not
change which entities the other finds (`Independent`), a flatten node that nothing runs
between puts its entities where its keys were (`RightAlone`), and nodes one after another
leave no keys (`CleanAlone`). `MCExecutor` states them of its plans as the assumption `PlansLawful`,
so that TLC evaluates them over all data that the plans can have.

A plan is a sequence of groups, each run in sequence or in parallel: the shape
that `build_root_selection_set` and `build_subscribe` give every plan. A fetch
and a flatten have two steps each, since the lock is free while they await;
`FetchFailed` is an error in transport or in the answer. Entities come from the
operator `Entity`, so that an answer depends on the representation that was sent,
and a wrong match shows in the data. Not modelled: response headers, the texts
and paths of errors, tracing.

### ComposedSchema

`combine` goes through the documents of the services, in the order in which a
`HashMap` lists them; one definition is one step (`Define`), a document is begun
by `TakeDocument(s)` for any service that is left, and `Finish` is all that
follows the loops: dropping empty root types, the builtin types, the
introspection fields and the possible types. `types` is `composed_schema.types`
without its order. A field maps to the service that it was extended by, or
to `NoService`, as `MetaField.service` does. What a definition that is not an
object converts to holds everything of it, so that `!=` in the code is `#` here;
`members` stands for possible types of a union and values of an enum.
Documents are what the parser accepts: it is the SDLs that do not parse that
`SharedRouteTable` models.

### QueryDocument and Planner

A selection set is a sequence of fields, inline fragments and spreads; a type
has its owner, the keys of each service, and its fields. `Wanted` is what a
query asks for by the GraphQL specification: for each place of the response and
each object type that may be there, the fields under their response keys, with their
arguments and with the directives that hold for them: their own and, as
`builtin.graphql:27-34` has it ("this field or fragment"), those of the fragments they
are in (`Collect`, `Under`). It knows nothing of services. What the plan has no
room for, directives of fragments and of a `__typename` that a service answers,
`DirectivesLost` names: for a query that has some there `PlanFaithful` compares everything but
the directives, and for every other query the directives too.

The builder's functions recurse over a selection with `&mut` references to
the selection being built, the group of entities, the path and the context's
`key_id`. In the model these functions are operators from an accumulator
`[refs, group, keyId]` to the next; the path is an argument, since the code
pops whatever it pushes. `BuildField`, `BuildSelectionSet`, `BuildAbstract`,
`AddFetchEntity`, `FieldInKeys` are the functions of these names. Each round
of a plan is one action: `PlanRoot` or `PlanSubscribe` for the root fields, then
`PlanEntities` for each turn of the `while` loop. The rounds of a query are the
nodes of its sequence, with a parallel node for each round after the first; a
subscription has its first round in `subscribe_nodes` and the others in
`flatten_node`. `PlanNode::flatten`, which unwraps nodes with one child, is left
out.

`SentKeys` is what the text of a query has of the keys of an entity, because it
is not what the plan has: below a key the first field is missing
(`stringify_key_fields_no_prefix`).

Planning starts with `check_rules`: `Validate`. What the validator does not
refuse but the planner cannot take ends it: `NoSuchOperation` is the `expect` of
`get_operation`, the stage `crashed` the `unwrap` of a definition or of a value of a
variable, or (in `QueryService`) of the condition of a directive that introspection
looks at, `overflowed` the comparison of fields that does not end.

### Visitor and Validation

`Visits` is the sequence of calls that the rules get from `visit`, each with the
stack of types of the context and the scope it is in. A rule is an operator from
the visits to what it reports; `CheckRules` is the set of rules that report
something. The rules of one node are predicates on visits. Those that follow
fragments are written as they search, in `FragmentSearch`: `Detect` is `CycleDetector::detect_from`
with its `visited` and `path`, `Reach` the walk of `find_undef_vars`,
`find_used_vars`, `collect_incorrect_usages` and `find_reachable_fragments` over
scopes. What is asked by the name `__typename` is passed over with its directives, as in
`visit_selection`: no rule is shown it. `Outputs` are the fields that `OverlappingFieldsCanBeMerged` collects from one selection
set and `RunsAway` says when collecting them never ends. Not modelled: the wording
of errors, their positions, and `suggestion.rs`.

### Introspection

Each operator `Resolve...` is a resolver; a type is met as a reference
`[name, nulls]`, of which `OfType` takes off one layer as `IntrospectionType::new`
does. `Published` and `Read`, with which the property is stated, are what a
client reads and what there is to read. `IsSkip` goes by the first `@skip` or `@include`, as
`is_skip` does, and one without its `if` panics: the answer is then `Panic`, and the
request ends in the stage `crashed`. Left out: descriptions, reasons of
deprecation.

### QueryService and QueryExecution

`SharedRouteTable::query` in its order: `CheckDepth`, `PlanStep` (all of `Planner`),
`Introspect`, then `Begin` and `Execute`. `Exempt` and `Introspect` choose the
document's first operation, which is any, since operations are in a `HashMap`. A
subscription comes over a WebSocket, where there is no limit on depth.

`PathOf`, `NodeOf`, `Groups` and `PlanIn` say what the plan of `Planner` is to
`Executor`, and `FetchWritten` what the text of a fetch asks for: fields with their response
keys, fragments, and keys under their prefixes. The services are external. They are
one evaluator of the GraphQL specification, `Serve`, over a world of objects,
seen by one service: `View`. A service refuses the whole of a fetch with a field it cannot
resolve, or with a representation without a type (`Refused`), and it has no value
for a field with `@requires` but for an object whose representation brings what is
required (`Lacks`). The value of a leaf tells its object, its field and its arguments,
so that no two places of a response can be mistaken for each other. Each fetch of a
plan may also fail.

`Expected` is the same evaluator over the client's document and all services at
once: it knows of no plan. `AnswerRight` holds the response to it.

## 3. What is checked

Bounds: `MaxCommands` and `MaxInFlight` limit the unbounded channels, `most`
(at most `MaxReq`) the fetches of an operation, `MaxPushes` the responses of a subscription. They
guard only the environment's steps (a caller or a server waits), never a
step of the code.

| run | instance | shows |
|---|---|---|
| `controller_shared_ids` | 2 services, 2 ids, 2 channels, ids may be shared, 3 commands | `TypeOK`; `CountsMatch`, `OpenIffUsed`: no leak, underflow or early close; `NoLostReply`; `NoCollateral`; `ImplementsMultiplexer` |
| `controller_own_ids` | 1 service, 2 ids, 2 channels, ids not shared, 3 commands | `NoCrossTalk`, `OkIsRegistered`; `CallsAnswered`, `SessionEnds` when dials end |
| `session` | 2 services, 2 operations: two subscriptions that share a connection, or one that fetches on its responses beside another, or a query over both services and a request that is refused | `NoPanic`, `NoOrphan`; `OwnChannel`: a subscription feeds its own operation, which receives nothing else; `OwnResponse`: a fetch reads the answer to its own query |
| `session_liveness` | a subscription and a query on services of their own, or one subscription over both | `DeathCompletes`; `StopEnds` when dials end |
| `session_two_queries` | 2 queries on one service | *violates* `NoPanic`, see section 5 |
| `session_cross_talk` | 2 queries, each on a service of its own | *violates* `OwnResponse`, see section 5 |
| `route_table` | 2 services, 2 sources, 3 tables, 3 SDLs of which one does not parse, a pair that does not combine, 1 request | `SchemaMatchesTable`, `RoutedAsPlanned`, `KeepLastGood`; `Converges` when updates end |
| `executor` | a query, a mutation and a subscription (2 responses out of 3) over 4 services; lists of up to 2 items that may be null or of another type, owners that may be null, an entity nobody knows, entities of entities; any fetch may fail | `SerialResult`, `NoKeysLeft`, `Finishes` |
| `composed_schema` | 3 services that publish any of 12 documents each, in every order | `FieldsOnce`; `NoFalseConflict`; `OrderFree`: the schema is the one that the documents describe without an order |
| `planner` | 3 services, 2 types with keys in several of them, 2 interfaces, a union, an enum, an input type; 6074 requests, see below | validation: `CyclesFound`, `ScopesFollowed`, `KeysUnambiguous`; what it lets through: `AcceptedPlanned`, `FetchesTyped`; the plan: `PlanFaithful`, `RootOrder`, `DepthLimitsPlan`; introspection: `SchemaRebuilt`; the response: `AnswerRight` |
| `planner_fragments` | the same with an inline fragment on an interface below another | *violates* `PlanFaithful`, see section 5 |
| `executor_null_list` | lists inside lists, one of them null | *violates* `SerialResult`, see section 5 |

In `WsSession` and `Executor` the plan is chosen by `Init` from the set `Plans`, so
that one run covers several plans.

Why they are enough. The controller treats services, ids and channels alike,
and a conflict is between two of them: two services tell the shared connection
from the others, two ids its users; three queued commands hold a subscription
over both services and a Stop behind it. One message in flight per
connection and channel interleaves with every step of the task, and two would
only repeat it. The invariants of this module are proved for any number of
them (section 4). A session's conflict is between two operations, or one and
its own fetches. The route table needs two tables that give one name to
different sources (`a` moves from `x` to `y`), one that is empty, an SDL that does not
parse and two that do but not together. Position mistakes in lists show with two
elements.

Two services can disagree about an order; three can do so pairwise and be
composed in between. The documents have each kind of disagreement: a second
owner, a field that is not external, another interface, an object and an
interface of one name, and each part of a type that an order could disturb: keys of one
service in two definitions, interfaces and fields that several add.

The requests of `planner` come in families, each all the cases of one question:

| family | requests |
|---|---|
| `MCPlanned` | right ones: queries up to four fields deep, alone and in pairs, with aliases, variables, fragments, below objects, lists and an interface; mutations of three fields; subscriptions over two services; documents of two operations. Each way of going from one service to another is met twice in a row, and each pair of fields tells an entity that joins a group from one that needs its own |
| `MCGraphs` | every graph of three fragments with at most two spreads each, direct or below a field, itself included: all cycles of up to three, and paths into them |
| `MCVariableUses`, `MCTwoOperations` | a variable used in an argument, a directive, a list or an input object of a fragment that is spread through another, with every definition of it and every value; the same in a document of two operations |
| `MCArguments` | every argument with every literal, right or wrong |
| `MCKeys` | three fields of one response key, two of them in fragments |
| `MCConditions` | every type condition, for inline fragments and spreads |
| `MCDirected` | directives, right and wrong, at every place |
| `MCLimited` | limits on depth of 0 to 4, cyclic documents under a limit, and the name that is let off |
| `MCIntrospection` | the standard query as clients send it, descriptions aside, and pairs of introspection fields with directives and variables, `__typename` among them, and with a skip and an include on one field |
| `MCUnseen` | directives on a `__typename`, of the gateway's own answers or a service's or in a fragment: with a variable that is used elsewhere too or not, that is defined or not and given or not; with no condition, or with two; unknown ones |

A rule is checked by itself through what it reports (`errors` holds the rules by
name); `CyclesFound` begins the search at each fragment in turn, since the code
takes them from a `HashMap`.

The documents of `MCPlanned` are also executed (`MCExecuted`), in two worlds: one in which
everything is there, with a list of a user and a product, and one with nulls,
empty lists and the other order of types; in the first with any one fetch failing or
none (`Faulty`); and with every order of the answers. Products have makers, who are users, so that one
place needs entities of two services at once.

What the documents of `MCPlanned` leave out is what the planner gets wrong, each a hazard
with a note in `PROJECT.json`: inline fragments on another interface
(`planner_fragments`), an alias of `__typename`, root fields of a subscription inside
a fragment, the spread of a fragment on an interface at a place with other possible types,
keys of more than one level. Those that are not executed (`MCAskedBare`) meet a field with
`@requires` where its own service is current, which is then asked for it without
what it requires. Nor do the worlds have a null where a path goes through a list
(`executor_null_list`), and a list of two types begins with the one that a path
goes through: the list that is missing below the other is the same fault.

Deadlock is not checked where the system may stop: a session that is over and a
plan that is executed take no more steps.

Fairness. `select!` picks at random between the controller's two branches, the commands
and the stream of all connections, so each of the two gets its turn (weak
fairness of `TakeCommand` and of `Event`). That is not so of each connection: `GroupedStream`
polls its streams in one order, that of a `HashMap`, and returns the first that
is ready, so one that always is would starve those behind it. No fairness of a
single connection is assumed, and no property says that every connection's messages
are read.
The handshake after the dial is bounded by `CONNECT_TIMEOUT_SECONDS`; the dial
and the middleware before it are bounded by nothing, so liveness has the premise
`DialsEnd`, stated in the properties. Streams and spawned tasks are
polled by the runtime. Weak fairness would not do for the update loop: its
branches are disabled during each update, so `TakeCommand` and `Tick` are
strongly fair, which the random choice of `select!` and the 30-second timer
give. No source is bound to answer (`get_schema` has no timeout): `UpdatesEnd` is a
premise. In `Executor` a fetch is assumed to end, in an answer or an error.

## 4. What is proved

### The controller

`WsControllerProofs`, for all finite sets of services and ids, any channels and
any bounds:

- `Invariance`: `IInv == TypeOK /\ CountsMatch /\ OpenIffUsed` is inductive.
  `TypeOK` alone is not: that `count` stays in `Nat` when `finish_subscribe`
  decrements it needs that counts are exact, and that the connection closed at
  0 is nobody else's needs `OpenIffUsed`. `TypeCorrect`, `CountsCorrect`,
  `ConnectionsCorrect` follow.
- `RepliesKept`: `NoLostReply`, from `IInv` and an induction of its own: each
  action moves a pending command from the queue to the handshake, answers it,
  or drops it with its oneshot.
- `OthersKept`: the action property `NoCollateral`. `FinishEndsOne` and
  `RegisterEndsNone` say which ids an operation on the tables takes out.

The heart are the lemmas `FinishTables` and `EnterTables` about the two
operations that change the tables; every action is one of them, `Terminate`, or
leaves the tables alone.

The last part of the module is `Implementation`: every step of the controller is a
step of `Multiplexer` or a stutter under the mapping `alive`, `subs`, `conns`
given at `Mux`. It rests on `Invariance`: `Leave` keeps exactly the connections
that are still used, which `LastUse` computes from the counts.

`WsControllerOwnIds`: `OkMeansRegistered` (`OkIsRegistered`), under `~SharedIds`: no
caller takes an id that something still remembers, as in the run `controller_own_ids`. What
callers whose ids are used again can rely on is proved of the session, below. The
invariant is about every place at once where a channel can be found beside an
id: `UsedBy(i, c)` holds if a command in the queue or in the handshake, the
table, an upstream's memory or a message on its way has them together, and
`OneUser` says that it holds for one channel of an id at a time: so a caller that is told
Ok finds no other's channel under its id in the table. No step of the task or of the upstreams adds a use (`KeepsUses`), so only
`Subscribe` needs the discipline. The last part of the module, `LineSteps`, says how the task
works off its commands: the command in the handshake and those in
the queue are one `Line`, of which each step takes the head or nothing.

### The session

`WsSessionProofs`: `SessionInvariance`, that the controller's `IInv` and the
types of the session hold in the composition. The lemmas of the controller's
modules are used as they are, through the instance `CtlP`; each action of the
session is a step of the controller's task, or of its environment under a
guard.

The second half of the module is about who owns what where ids are shared, as they are in the
code (each operation numbers its fetches from 0):

- `OwnershipInvariance`: every use of an id is by a channel of a call that made it
  (`UsesMade`); a command of the dead task is gone (`Dead`); and `Quiet`: an
  operation that has not begun has nothing under its id, and one that has ended
  is `Settled`, which is that nothing asks for its id, in the table or in the
  `Line`, after the last Stop for it. `NoOrphan` alone is not inductive, because
  a Subscribe that is behind the Stop in the queue, or in the handshake, would undo it.
- `SubscriptionsOwnChannel` (`OwnChannel`) and `NoneOrphaned` (`NoOrphan`) follow, for any number of
  operations that fetch as they like: what the findings `session_two_queries` and
  `session_cross_talk` break is the fetches, never the routing of a subscription.
- `FetchesRoutedByNumber`, without a hypothesis: what a fetch reads was sent for a fetch of the
  same number of some operation, even if it came late and met the id in a new use. It follows
  from `ResponsesById` (a response and the channel that brings it are of calls that
  made one id), which needs `UsesMade` of the table, where the id of a late message is
  looked up. So a fetch is never handed a response of a subscription, nor that of another
  fetch of its operation; the run `session_cross_talk` shows that more is not to be had.
- `OneFetcherOwnResponses`: `OwnResponse` under `OneFetcher`, below: a fetch number then has
  one maker, and what is sent for it is for it.
- `OneFetcherNeverPanics`: `NoPanic` under `OneFetcher`, that in each plan one
  operation at most fetches over the controller. Without this hypothesis it is
  false, which is the finding; with it, any number of subscriptions, fetches and services
  are safe. The invariant is `Once` (no id is asked for twice in the `Line`, nor in the `Line` and the
  table) and `Fresh` (the counter is ahead of every id in use).

### The route table

`SharedRouteTableProofs`, for all tables, SDLs and any number of requests:
`Invariance` of `IInv`, which adds to the checked invariants that the update in
progress is for the table in use (`UpdateOfTable`) and that what requests hold
matches (`PairsMatch`). `TypeCorrect`, `SchemaCorrect`, `RoutingCorrect` follow, and
`SchemaKept` is the action property `KeepLastGood`.

### The composition

`ComposedSchemaProofs`, for all services, names, documents and orders:
`Invariance` of `IInv`, which says of every composed type which definitions it
was made from. `Placed`: `current` and `at` are a place in a document, and what
is being read has not been left to do. `Credited`: a field of a combined object definition is in
the type's entry. `Sourced`: each field of an entry comes from a combined definition.
`Plain`: an entry that is not an object is what a combined definition converts
to. `FieldsOnce` and `NoFalseConflict` need all of these: that a conflict has two
definitions to blame takes where the first of them came from (`Sourced`,
`Plain`), and that no conflict is missed that nothing was forgotten
(`Credited`). `TypeCorrect`, `FieldsDefinedOnce`, `RefusedForAReason` follow.

`OrderDoesNotMatter` is `OrderFree`. Its invariant, `Gathering`, describes what an entry
holds after any part of the documents in any order: for documents that agree
the owner, the keys of each service, the interfaces and the fields with their services are those
of the definitions combined so far (`Gathered`). A type that no definition has
touched yet is described too, as the empty object that it will begin as. Keys are a sequence,
which is `FlattenSeq` over the part of the document that was read (`KeyParts`);
`FinishReference` then compares what `Finish` makes of the entries with
`Reference`, name by name. The proof found a mistake in an earlier form of
`Reference`: it counted a root type without fields, which `combine` drops, as a
possible type of the interfaces it implements. The documents of the run
have that case now.

`SequenceLemmas` has what this rests on: `Induction` over the natural numbers,
stated for a set, which makes induction usable where the library's theorems with
a predicate as a parameter are not, and `FlattenAppend`, that `FlattenSeq` goes through
its argument from the left.

### The executor

`ExecutorProofs`, for any plans of any number of groups and nodes, any answers, any failures and
any data. `TypeCorrect` needs nothing else: keys are remembered for the flatten nodes that
fetch, and for no other. `Serial` (`SerialResult`) and `NoKeys` (`NoKeysLeft`) are theorems about plans that
keep the laws of `ExecutorLaws`: `Serial` assumes `Independent` and `RightAlone` of each
plan, and `NoKeys` also `CleanAlone`. TLC finds that the plans of `executor` keep them
(`PlansLawful`). The plan of `executor_null_list` breaks `RightAlone`, by itself and with nothing
that interleaves. So the theorems say what the interleaving adds, which is nothing; what a single
flatten node does to the data is a matter of the laws.

The laws speak of pairs of nodes at rest, one after the other; the theorem of any number of
nodes of which any may be under way. The invariant, `IInv`, has the data at every
moment: it is that of the nodes of the plan, in its order, with nothing for those that have
not been started, and for a node that is under way or has failed what its keys leave behind
(`SoFar`). `SerialResult` itself says nothing before the end. When the node `n` is answered, nodes behind it in the order may already
have been. The heart of the argument is that it might as well have come last
(`MovedBehind`, and `MightComeLast` for the plan that is executed): `Commute` moves it behind each of the others in turn.
The nodes behind it that have been started are of its own group, because a group begins when the one before is done
(`InOrder`). `FindsTheSame` and `LeavesTheirs` say the same about entities: what a flatten node
has found, and keeps in `asked` while it fetches, is what it would find alone (`AskedSoFar`).

The functions by which the nodes' data are defined (`OneByOne`, `ReachWith`) are recursive;
that there are such functions, and what they give at each step, is proved by `Induction` (`FollowsExists`, `OneByOneAt`, `SpreadsExists`, `ReachAt`).

### The searches of the validator

`FragmentSearchProofs`, for every finite graph of spreads, whatever its shape:

- `CyclesFoundExactly`: the search of `NoFragmentCycles` reports an error if and
  only if there is a cycle, whatever order it takes the fragments in, as long as
  it takes every one that spreads something. It enters no node twice, and still misses no
  cycle because it came to a node from elsewhere before. The invariant of the search
  has two parts. `OnPath`: from each node on the path, spreads lead within the path
  to its last, whose spreads are being looked at, so that one that is on the path closes a
  cycle. `Knows`: while there is no error, the nodes that the search is done with spread only
  one another, and none of their subsets is a cycle.
- `ReachedExactly`: the rules about variables and unused fragments look at exactly the
  least set with the operation and all that is spread in it.

A call of these searches makes further calls, within one another. That they end, which is that there
is a function as `Detect` and `Reach` define it, is proved from `Recursion`, a lemma for definitions
by recursion in which every call is for something smaller. What is smaller here is `Weight`: a call visits a node more or
has fewer to look at. That the graph in `Validation` is the document's is checked
by TLC (`CyclesFound`, `ScopesFollowed`).

### Assumptions and limits

Assumptions: those on the constants in the modules (finite sets; that the
values for "none" are not values of the other kind; `OpsAssumption`, that the client's
ids for operations are none of the gateway's `__req{n}`, which the code takes for granted).
TLC evaluates them in every run. Six theorems have a hypothesis of their own:
`~SharedIds` (`OwnIdsInvariance`, `OkMeansRegistered`), `OneFetcher` (`OneFetcherNeverPanics`,
`OneFetcherOwnResponses`), and the laws of plans, of which `Serial` has two and `NoKeys` three; runs have
instances of each. Fetches of several operations do share ids, so `~SharedIds` does not hold of every session; no theorem of
`WsSessionProofs` has it. Those about searches assume that a document is finite.

Model-checked only: liveness and everything that rests on fairness, and
everything about documents, values and what plans contain (`ResponseData`, `Visitor`,
`Validation` but for its searches, `Planner`, `Introspection`, `QueryService`, `QueryExecution`):
they reach `RECURSIVE` operators, which are beyond the provers. For the same
reason the laws of the executor are checked for plans and not proved of the planner's.

## 5. What the checks found

- `session_two_queries`: two operations of a session that fetch over its
  controller from one service at a time both use the id `__req0`, and
  `assert!(!subscribe_info.services.contains(..))` in
  `handle_command_subscribe` fails: the task panics and every subscription of
  the session ends. The run `session` shows that one
  operation that fetches is safe, beside others that do not.
- `session_cross_talk`: when the services differ the assertion holds, but the entry of
  `__req0` keeps the channel of the first query, and the `tx` of the second is dropped:
  the answer to the second goes to the first, which takes whichever comes first for its
  own, and the second ends with an error. With one operation that fetches this cannot be
  (`OneFetcherOwnResponses`).
- `executor_null_list`: `get_representations` notes a Skip where a list inside
  the path is null or missing, and where a field is missing, but
  `flatten_values` uses up no flag there. Every entity after that is merged into
  the wrong object, or into none.
- `planner_fragments`: below a field of an interface type, `... on Other { .. }`
  with another interface is dropped without an error, and its fields are never fetched,
  though the validator accepts it and the same fragment by name is planned.

Seen while modelling, and modelled as the code has it, without a run of their own
(the hazards quote the lines):

- The comparison of fields of one key does not end for a selection set that spreads
  a fragment which spreads itself directly: the rule runs in the same walk as the
  search for cycles, so the cycle is reported too late (`Overflows`).
- The executor looks at the type of a path's last step alone. With
  `... on User { reviews { author { name } } }` beside the same for `Product`, the
  representations of the ones are sent for the others too, without keys, and the service refuses
  the fetch.
- Only the first field of a group of entities has its `@requires` asked for, and only
  when the planner changes the service to get to it.
- A nested key is fetched without the first of its fields.
- `@skip` and `@include` of a fragment are not passed on, so its fields are fetched
  and answered whatever they say; those of a `__typename` below a root field are dropped, and its
  alias with them.
- `get_operation` expects that the validator has found a document with several operations
  and no name to choose by, or one anonymous operation and a name, but no rule looks for it: the
  planner panics (stage `panicked`).
- The validator passes over `__typename` with its directives (`visitor.rs:535`). A variable
  that is used there alone is refused as unused: `ScopesFollowed` leaves those uses out, and says
  so. `{ __typename @include(if: $nope) }` is accepted, and planning panics at the value of `$nope`;
  `{ __typename @skip }` is accepted and planned, and answering it panics at its condition:
  `AcceptedPlanned` says that nothing but these, and a variable that is defined and not
  given, ends a request that was accepted.
- `__schema { directives }`, which `builtin.graphql` declares non-null and which clients ask for in the
  query for the whole schema, is answered null, as is `__typename` below `__schema` or
  `__type`: `SchemaRebuilt` is about the types and the root types, and says that there are no directives.
- Of an `@skip` and an `@include` on one field of introspection the first alone decides.
- A conflict below two fields of one key, `{ me { a: id } me { a: name } }`, is not found.
- A connection that always has a message starves those after it in the order of the
  `GroupedStream`.

## 6. Plan

Done: `Multiplexer`, `WsController` with its refinement and proofs, `WsSession` with proofs,
`SharedRouteTable` with proofs, `ResponseData`, `Executor` with proofs, `ComposedSchema`
with proofs, `FragmentSearch` with proofs, `QueryDocument`, `Visitor`, `Validation`, `Planner`, `Introspection`,
`QueryService`, and with `QueryExecution` the way of a request from the document to the response.

Next, in this order:

1. The laws of `ExecutorLaws` for the plans of `Planner`: in `QueryExecution`, where now the response
   itself is compared.
2. `Composable` of `SharedRouteTable` from `ComposedSchema`, and the schema of
   `QueryService` from it as well, with the types and arguments of fields.
3. A request's way through `WsSession` in place of the abstract plan there.
4. `rewrite_errors` of the executor: the paths of errors.

Not modelled, and why: sources, middleware and HTTP handlers are I/O, and appear as the
environment; the builder is configuration; the examples are uses of the library;
`suggestion.rs` and the texts of errors are wording; parsing is another crate's.
