-------------------------- MODULE SharedRouteTable --------------------------
(***************************************************************************)
(* The gateway's table of sources and the schema composed from what they   *)
(* publish (handler/shared_route_table.rs).  One task, update_loop, makes   *)
(* every change: it takes the Change commands and, on each tick, asks all   *)
(* the sources of the table for their SDL and composes the schema anew.    *)
(* Requests take the schema and the table under one read lock and use that *)
(* pair until they end: a query for one plan, a WebSocket session for its   *)
(* whole life.                                                             *)
(*                                                                         *)
(* A table maps the names of services to the sources behind them.  The     *)
(* sources, what they publish and whether they can be reached are the      *)
(* environment.                                                            *)
(***************************************************************************)
EXTENDS Integers, FiniteSets, SequencesExt

CONSTANTS Services,    \* names of services
          Sources,     \* endpoints
          Tables,      \* the route tables that may be set
          Sdls,        \* what a source may publish
          Parsable,    \* the SDLs that parse
          Composable,  \* the families of SDLs, by service, that combine
          Requests,    \* requests and sessions in progress at once
          NoTable, NoSchema, NoSdl, NoPair, NoFetch, NoSource,
          MaxCommands  \* bound: commands waiting in the unbounded channel

ASSUME TablesAssumption ==
    /\ \A t \in Tables : DOMAIN t \in SUBSET Services /\ t \in [DOMAIN t -> Sources]
    /\ NoTable \notin Tables
    /\ NoSource \notin Sources
ASSUME SdlsAssumption == Parsable \subseteq Sdls /\ NoSdl \notin Sdls
ASSUME RequestsAssumption ==
    /\ NoSchema \notin [from : Tables, sdls : Composable]
    /\ NoPair \notin [schema : [from : Tables, sdls : Composable], table : Tables]
    /\ NoFetch \notin [service : Services, source : Sources \cup {NoSource}]
ASSUME BoundAssumption == MaxCommands \in Nat

VARIABLES
    routeTable,  \* inner.route_table
    schema,      \* inner.schema; from is the table it was composed for (a ghost)
    commands,    \* rx: the tables of the Change commands
    updating,    \* the table of the update in progress, NoTable without one
    got,         \* the SDLs that update has got
    sdl,         \* what each source publishes
    down,        \* the sources that cannot be reached
    pair,        \* what each request or session got
    fetch        \* the last fetch of each: the service and where it went

innerVars == <<routeTable, schema>>
updateVars == <<updating, got>>
sourceVars == <<sdl, down>>
requestVars == <<pair, fetch>>
vars == <<innerVars, commands, updateVars, sourceVars, requestVars>>

Schema == [from : Tables, sdls : Composable]
Pair == [schema : Schema, table : Tables]
Fetch == [service : Services, source : Sources \cup {NoSource}]

TypeOK ==
    /\ routeTable \in Tables \cup {NoTable}
    /\ schema \in Schema \cup {NoSchema}
    /\ commands \in Seq(Tables)
    /\ updating \in Tables \cup {NoTable}
    /\ got \in [Services -> Parsable \cup {NoSdl}]
    /\ sdl \in [Sources -> Sdls]
    /\ down \in SUBSET Sources
    /\ pair \in [Requests -> Pair \cup {NoPair}]
    /\ fetch \in [Requests -> Fetch \cup {NoFetch}]

NothingGot == [s \in Services |-> NoSdl]

Init ==
    /\ routeTable = NoTable
    /\ schema = NoSchema
    /\ commands = <<>>
    /\ updating = NoTable
    /\ got = NothingGot
    /\ sdl \in [Sources -> Sdls]
    /\ down \in SUBSET Sources
    /\ pair = [r \in Requests |-> NoPair]
    /\ fetch = [r \in Requests |-> NoFetch]

-----------------------------------------------------------------------------
(* The owner of the table.                                                 *)

SetRouteTable(t) ==
    /\ Len(commands) < MaxCommands
    /\ commands' = Append(commands, t)
    /\ UNCHANGED <<innerVars, updateVars, sourceVars, requestVars>>

-----------------------------------------------------------------------------
(* update_loop.  Between ticks it reads commands; during an update it does  *)
(* not, however long a source takes to answer.                             *)

\* The next Change takes effect: the schema waits for the next tick.
Change ==
    /\ commands # <<>>
    /\ routeTable' = Head(commands)
    /\ schema' = NoSchema
    /\ commands' = Tail(commands)
    /\ UNCHANGED <<updateVars, sourceVars, requestVars>>

\* Mutant: a Change is applied while an update is in progress.
ChangeAnyTime == Change

TakeCommand == updating = NoTable /\ Change

\* A tick asks every source of the table; without a table it does nothing.
Tick ==
    /\ updating = NoTable
    /\ routeTable # NoTable
    /\ updating' = routeTable
    /\ got' = NothingGot
    /\ UNCHANGED <<innerVars, commands, sourceVars, requestVars>>

Unanswered(s) == updating # NoTable /\ s \in DOMAIN updating /\ got[s] = NoSdl

\* Mutant: what the source answers is not parsed.
AnswerUnparsed(s) ==
    /\ Unanswered(s)
    /\ updating[s] \notin down
    /\ got' = [got EXCEPT ![s] = sdl[updating[s]]]
    /\ UNCHANGED <<innerVars, commands, updating, sourceVars, requestVars>>

\* The source answers with an SDL that parses.
Answer(s) ==
    /\ Unanswered(s)
    /\ updating[s] \notin down
    /\ sdl[updating[s]] \in Parsable
    /\ got' = [got EXCEPT ![s] = sdl[updating[s]]]
    /\ UNCHANGED <<innerVars, commands, updating, sourceVars, requestVars>>

\* Mutant: an update that fails clears the schema.
UpdateFailsClears ==
    /\ updating' = NoTable
    /\ schema' = NoSchema
    /\ UNCHANGED <<routeTable, commands, got, sourceVars, requestVars>>

\* update returns an error: the schema is as it was.
UpdateFails ==
    /\ updating' = NoTable
    /\ UNCHANGED <<innerVars, commands, got, sourceVars, requestVars>>

\* A source cannot be reached or its SDL does not parse: the other answers
\* are not waited for.
AnswerFails(s) ==
    /\ Unanswered(s)
    /\ updating[s] \in down \/ sdl[updating[s]] \notin Parsable
    /\ UpdateFails

Family == [s \in DOMAIN updating |-> got[s]]

\* The schema is written with what it was composed from.
Write ==
    /\ Family \in Composable
    /\ schema' = [from |-> updating, sdls |-> Family]
    /\ updating' = NoTable
    /\ UNCHANGED <<routeTable, commands, got, sourceVars, requestVars>>

\* Mutant: only a first schema is written.
CombineOnce ==
    /\ updating # NoTable
    /\ \A s \in DOMAIN updating : got[s] # NoSdl
    /\ IF schema = NoSchema /\ Family \in Composable THEN Write ELSE UpdateFails

\* All have answered: the SDLs are combined and the schema replaced.
Combine ==
    /\ updating # NoTable
    /\ \A s \in DOMAIN updating : got[s] # NoSdl
    /\ IF Family \in Composable THEN Write ELSE UpdateFails

-----------------------------------------------------------------------------
(* Requests and sessions.                                                  *)

\* get() finds a schema and a table; without them the answer is "Not ready.".
Get(r) ==
    /\ pair[r] = NoPair
    /\ schema # NoSchema
    /\ routeTable # NoTable
    /\ pair' = [pair EXCEPT ![r] = [schema |-> schema, table |-> routeTable]]
    /\ UNCHANGED <<innerVars, commands, updateVars, sourceVars, fetch>>

Lookup(t, s) == IF s \in DOMAIN t THEN t[s] ELSE NoSource

FetchVia(t, r, s) ==
    /\ pair[r] # NoPair
    /\ s \in DOMAIN pair[r].schema.sdls
    /\ fetch' = [fetch EXCEPT ![r] = [service |-> s, source |-> Lookup(t, s)]]
    /\ UNCHANGED <<innerVars, commands, updateVars, sourceVars, pair>>

\* Mutant: a fetch looks its service up in the table of the moment.
FetchFromCurrentTable(r, s) == FetchVia(routeTable, r, s)

\* A plan made from the schema fetches from one of the services it names.
FetchFrom(r, s) == pair[r] # NoPair /\ FetchVia(pair[r].table, r, s)

End(r) ==
    /\ pair[r] # NoPair
    /\ pair' = [pair EXCEPT ![r] = NoPair]
    /\ fetch' = [fetch EXCEPT ![r] = NoFetch]
    /\ UNCHANGED <<innerVars, commands, updateVars, sourceVars>>

-----------------------------------------------------------------------------
(* The sources.                                                            *)

Publish(x, v) ==
    /\ sdl' = [sdl EXCEPT ![x] = v]
    /\ UNCHANGED <<innerVars, commands, updateVars, down, requestVars>>

GoDown(x) ==
    /\ x \notin down
    /\ down' = down \cup {x}
    /\ UNCHANGED <<innerVars, commands, updateVars, sdl, requestVars>>

ComeUp(x) ==
    /\ x \in down
    /\ down' = down \ {x}
    /\ UNCHANGED <<innerVars, commands, updateVars, sdl, requestVars>>

-----------------------------------------------------------------------------
Loop ==
    \/ TakeCommand
    \/ Tick
    \/ \E s \in Services : Answer(s) \/ AnswerFails(s)
    \/ Combine

Users ==
    \/ \E t \in Tables : SetRouteTable(t)
    \/ \E r \in Requests :
          \/ Get(r)
          \/ \E s \in Services : FetchFrom(r, s)
          \/ End(r)

Environment ==
    \E x \in Sources :
        \/ \E v \in Sdls : Publish(x, v)
        \/ GoDown(x)
        \/ ComeUp(x)

Next == Loop \/ Users \/ Environment

Spec == Init /\ [][Next]_vars

\* The timer fires every 30 seconds and select! takes its ready branches in
\* random order, so neither branch starves.  No source is bound to answer.
Fairness == SF_vars(TakeCommand) /\ SF_vars(Tick)

FairSpec == Spec /\ Fairness

-----------------------------------------------------------------------------
\* The schema that requests are planned with was composed from the sources of
\* the table they are executed with, all of them and no others, although an
\* update takes as long as its slowest source and the table may be set anew
\* at any time.
SchemaMatchesTable ==
    schema # NoSchema =>
        schema.from = routeTable /\ DOMAIN schema.sdls = DOMAIN routeTable

\* A fetch goes to the source that published the SDL its plan was made from,
\* however long the request or session has been going on.
RoutedAsPlanned ==
    \A r \in Requests :
        fetch[r] # NoFetch =>
            /\ pair[r] # NoPair
            /\ fetch[r].service \in DOMAIN pair[r].schema.from
            /\ fetch[r].source = pair[r].schema.from[fetch[r].service]

\* Sources that fail or publish what does not combine never cost the gateway
\* its schema: only a Change does, and the schema is then that of no table.
KeepLastGood ==
    [][schema # NoSchema /\ schema' = NoSchema
           => commands # <<>> /\ commands' = Tail(commands)]_vars

\* Every update ends; nothing bounds the time a source may take to answer.
UpdatesEnd == []<>(updating = NoTable)

\* No Change is waiting, t is the table and its sources answer with f.
Settled(t, f) ==
    /\ commands = <<>>
    /\ routeTable = t
    /\ DOMAIN t = DOMAIN f
    /\ \A s \in DOMAIN t : t[s] \notin down /\ sdl[t[s]] = f[s]

\* When updates end and the sources have settled on SDLs that combine, the
\* schema is composed of these and stays so, whatever failed before.
Converges ==
    UpdatesEnd =>
        \A t \in Tables : \A f \in {g \in Composable : DOMAIN g = DOMAIN t} :
            <>[]Settled(t, f) => <>[](schema = [from |-> t, sdls |-> f])

=============================================================================
