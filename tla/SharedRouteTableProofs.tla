----------------------- MODULE SharedRouteTableProofs -----------------------
(* For all tables, sources, SDLs and numbers of requests: the types, the    *)
(* agreement of schema and table, and the routing of SharedRouteTable.     *)
EXTENDS SharedRouteTable, TLAPS

\* The update in progress is for the table in use: a Change waits for it.
UpdateOfTable == updating # NoTable => updating = routeTable

\* What a request got stays a schema and its table.
PairsMatch ==
    \A r \in Requests :
        pair[r] # NoPair =>
            /\ pair[r].schema.from = pair[r].table
            /\ DOMAIN pair[r].schema.sdls = DOMAIN pair[r].table

\* The inductive invariant.
IInv ==
    /\ TypeOK
    /\ UpdateOfTable
    /\ SchemaMatchesTable
    /\ PairsMatch
    /\ RoutedAsPlanned

-----------------------------------------------------------------------------
\* A schema, a pair and a fetch differ from the values that stand for none.
LEMMA NoneIsNone == NoSchema \notin Schema /\ NoPair \notin Pair /\ NoFetch \notin Fetch
  BY RequestsAssumption DEF Schema, Pair, Fetch

LEMMA InitIInv == Init => IInv
  <1> SUFFICES ASSUME Init PROVE IInv
    OBVIOUS
  <1>1. TypeOK
    BY DEF Init, TypeOK, NothingGot
  <1>2. QED
    BY <1>1 DEF Init, IInv, UpdateOfTable, SchemaMatchesTable, PairsMatch, RoutedAsPlanned

\* A Change keeps the invariant: no update is in progress and no schema is left.
LEMMA TakeCommandIInv == IInv /\ TakeCommand => IInv'
  <1> SUFFICES ASSUME IInv, TakeCommand PROVE IInv'
    OBVIOUS
  <1> USE DEF TakeCommand, Change, updateVars, sourceVars, requestVars
  <1>1. commands \in Seq(Tables) /\ commands # <<>>
    BY DEF IInv, TypeOK
  <1>2. Head(commands) \in Tables /\ Tail(commands) \in Seq(Tables)
    BY <1>1
  <1>3. TypeOK'
    BY <1>2 DEF IInv, TypeOK
  <1>4. UpdateOfTable' /\ SchemaMatchesTable'
    BY DEF UpdateOfTable, SchemaMatchesTable
  <1>5. PairsMatch' /\ RoutedAsPlanned'
    BY DEF IInv, PairsMatch, RoutedAsPlanned
  <1>6. QED
    BY <1>3, <1>4, <1>5 DEF IInv

LEMMA TickIInv == IInv /\ Tick => IInv'
  <1> SUFFICES ASSUME IInv, Tick PROVE IInv'
    OBVIOUS
  <1> USE DEF Tick, innerVars, sourceVars, requestVars
  <1>1. TypeOK'
    BY DEF IInv, TypeOK, NothingGot
  <1>2. QED
    BY <1>1 DEF IInv, UpdateOfTable, SchemaMatchesTable, PairsMatch, RoutedAsPlanned

LEMMA AnswerIInv == ASSUME NEW s \in Services, IInv, Answer(s) PROVE IInv'
  <1> USE DEF Answer, innerVars, sourceVars, requestVars
  <1>1. got' \in [Services -> Parsable \cup {NoSdl}]
    BY DEF IInv, TypeOK
  <1>2. TypeOK'
    BY <1>1 DEF IInv, TypeOK
  <1>3. QED
    BY <1>2 DEF IInv, UpdateOfTable, SchemaMatchesTable, PairsMatch, RoutedAsPlanned

LEMMA UpdateFailsIInv == IInv /\ UpdateFails => IInv'
  <1> SUFFICES ASSUME IInv, UpdateFails PROVE IInv'
    OBVIOUS
  <1> USE DEF UpdateFails, innerVars, sourceVars, requestVars
  <1>1. TypeOK'
    BY DEF IInv, TypeOK
  <1>2. QED
    BY <1>1 DEF IInv, UpdateOfTable, SchemaMatchesTable, PairsMatch, RoutedAsPlanned

\* The schema written is of the table that the update began with, and that is
\* still the table in use.
LEMMA WriteIInv == IInv /\ updating # NoTable /\ Write => IInv'
  <1> SUFFICES ASSUME IInv, updating # NoTable, Write PROVE IInv'
    OBVIOUS
  <1> USE DEF Write, sourceVars, requestVars
  <1>1. updating = routeTable /\ updating \in Tables
    BY DEF IInv, TypeOK, UpdateOfTable
  <1>2. schema' \in Schema
    BY <1>1 DEF Schema
  <1>3. schema'.from = routeTable' /\ DOMAIN schema'.sdls = DOMAIN routeTable'
    BY <1>1 DEF Family
  <1>4. TypeOK'
    BY <1>2 DEF IInv, TypeOK
  <1>5. UpdateOfTable' /\ SchemaMatchesTable'
    BY <1>3 DEF UpdateOfTable, SchemaMatchesTable
  <1>6. PairsMatch' /\ RoutedAsPlanned'
    BY DEF IInv, PairsMatch, RoutedAsPlanned
  <1>7. QED
    BY <1>4, <1>5, <1>6 DEF IInv

LEMMA CombineIInv == IInv /\ Combine => IInv'
  BY WriteIInv, UpdateFailsIInv DEF Combine

LEMMA SetRouteTableIInv == ASSUME NEW t \in Tables, IInv, SetRouteTable(t) PROVE IInv'
  <1> USE DEF SetRouteTable, innerVars, updateVars, sourceVars, requestVars
  <1>1. commands' \in Seq(Tables)
    BY DEF IInv, TypeOK
  <1>2. TypeOK'
    BY <1>1 DEF IInv, TypeOK
  <1>3. QED
    BY <1>2 DEF IInv, UpdateOfTable, SchemaMatchesTable, PairsMatch, RoutedAsPlanned

\* The pair got is of one moment, at which the schema is of the table.
LEMMA GetIInv == ASSUME NEW r \in Requests, IInv, Get(r) PROVE IInv'
  <1> USE DEF Get, innerVars, updateVars, sourceVars
  <1> DEFINE p == [schema |-> schema, table |-> routeTable]
  <1>1. p \in Pair
    BY DEF IInv, TypeOK, Pair
  <1>2. p.schema.from = p.table /\ DOMAIN p.schema.sdls = DOMAIN p.table
    BY DEF IInv, SchemaMatchesTable
  <1>3. pair' \in [Requests -> Pair \cup {NoPair}]
    BY <1>1 DEF IInv, TypeOK
  <1>4. pair'[r] = p /\ \A q \in Requests \ {r} : pair'[q] = pair[q]
    BY DEF IInv, TypeOK
  <1>5. TypeOK'
    BY <1>3 DEF IInv, TypeOK
  <1>6. UpdateOfTable' /\ SchemaMatchesTable'
    BY DEF IInv, UpdateOfTable, SchemaMatchesTable
  <1>7. PairsMatch'
    BY <1>2, <1>4 DEF IInv, PairsMatch
  <1>8. fetch[r] = NoFetch
    BY DEF IInv, RoutedAsPlanned
  <1>9. RoutedAsPlanned'
    BY <1>4, <1>8 DEF IInv, RoutedAsPlanned
  <1>10. QED
    BY <1>5, <1>6, <1>7, <1>9 DEF IInv

\* A fetch finds the service of the plan in the table of the pair.
LEMMA FetchFromIInv ==
  ASSUME NEW r \in Requests, NEW s \in Services, IInv, FetchFrom(r, s) PROVE IInv'
  <1> USE DEF FetchFrom, FetchVia, innerVars, updateVars, sourceVars
  <1>1. /\ pair[r] \in Pair
        /\ pair[r].schema.from = pair[r].table
        /\ s \in DOMAIN pair[r].table
    BY DEF IInv, TypeOK, PairsMatch
  <1>2. pair[r].table \in Tables
    BY <1>1 DEF Pair
  <1>3. Lookup(pair[r].table, s) = pair[r].table[s] /\ pair[r].table[s] \in Sources
    BY <1>1, <1>2, TablesAssumption DEF Lookup
  <1>4. fetch' \in [Requests -> Fetch \cup {NoFetch}]
    BY <1>3 DEF IInv, TypeOK, Fetch
  <1>5. fetch'[r] = [service |-> s, source |-> pair[r].table[s]]
    BY <1>3 DEF IInv, TypeOK
  <1>6. \A q \in Requests \ {r} : fetch'[q] = fetch[q]
    BY DEF IInv, TypeOK
  <1>7. TypeOK'
    BY <1>4 DEF IInv, TypeOK
  <1>8. UpdateOfTable' /\ SchemaMatchesTable' /\ PairsMatch'
    BY DEF IInv, UpdateOfTable, SchemaMatchesTable, PairsMatch
  <1>9. RoutedAsPlanned'
    BY <1>1, <1>5, <1>6 DEF IInv, RoutedAsPlanned
  <1>10. QED
    BY <1>7, <1>8, <1>9 DEF IInv

LEMMA EndIInv == ASSUME NEW r \in Requests, IInv, End(r) PROVE IInv'
  <1> USE DEF End, innerVars, updateVars, sourceVars
  <1>1. pair' \in [Requests -> Pair \cup {NoPair}] /\ fetch' \in [Requests -> Fetch \cup {NoFetch}]
    BY DEF IInv, TypeOK
  <1>2. \A q \in Requests : pair'[q] = IF q = r THEN NoPair ELSE pair[q]
    BY DEF IInv, TypeOK
  <1>3. \A q \in Requests : fetch'[q] = IF q = r THEN NoFetch ELSE fetch[q]
    BY DEF IInv, TypeOK
  <1>4. TypeOK'
    BY <1>1 DEF IInv, TypeOK
  <1>5. UpdateOfTable' /\ SchemaMatchesTable'
    BY DEF IInv, UpdateOfTable, SchemaMatchesTable
  <1>6. PairsMatch'
    BY <1>2 DEF IInv, PairsMatch
  <1>7. RoutedAsPlanned'
    BY <1>2, <1>3 DEF IInv, RoutedAsPlanned
  <1>8. QED
    BY <1>4, <1>5, <1>6, <1>7 DEF IInv

LEMMA EnvironmentIInv == IInv /\ Environment => IInv'
  <1> SUFFICES ASSUME IInv, Environment PROVE IInv'
    OBVIOUS
  <1> USE DEF innerVars, updateVars, requestVars
  <1>1. PICK x \in Sources : (\E v \in Sdls : Publish(x, v)) \/ GoDown(x) \/ ComeUp(x)
    BY DEF Environment
  <1>2. sdl' \in [Sources -> Sdls] /\ down' \in SUBSET Sources
    BY <1>1 DEF IInv, TypeOK, Publish, GoDown, ComeUp
  <1>3. UNCHANGED <<innerVars, commands, updateVars, requestVars>>
    BY <1>1 DEF Publish, GoDown, ComeUp
  <1>4. TypeOK'
    BY <1>2, <1>3 DEF IInv, TypeOK
  <1>5. QED
    BY <1>3, <1>4 DEF IInv, UpdateOfTable, SchemaMatchesTable, PairsMatch, RoutedAsPlanned

LEMMA StutterIInv == IInv /\ UNCHANGED vars => IInv'
  BY DEF IInv, TypeOK, UpdateOfTable, SchemaMatchesTable, PairsMatch, RoutedAsPlanned,
         vars, innerVars, updateVars, sourceVars, requestVars

LEMMA NextIInv == IInv /\ [Next]_vars => IInv'
  <1> SUFFICES ASSUME IInv, [Next]_vars PROVE IInv'
    OBVIOUS
  <1>1. CASE Loop
    <2>1. ASSUME NEW s \in Services, AnswerFails(s) PROVE IInv'
      BY <2>1, UpdateFailsIInv DEF AnswerFails
    <2>2. QED
      BY <1>1, <2>1, TakeCommandIInv, TickIInv, AnswerIInv, CombineIInv DEF Loop
  <1>2. CASE Users
    BY <1>2, SetRouteTableIInv, GetIInv, FetchFromIInv, EndIInv DEF Users
  <1>3. CASE Environment
    BY <1>3, EnvironmentIInv
  <1>4. CASE UNCHANGED vars
    BY <1>4, StutterIInv
  <1>5. QED
    BY <1>1, <1>2, <1>3, <1>4 DEF Next

-----------------------------------------------------------------------------
\* The invariant holds in every reachable state of update_loop and its users.
THEOREM Invariance == Spec => []IInv
  <1>1. QED
    BY InitIInv, NextIInv, PTL DEF Spec

\* update_loop and its users keep every variable in its type.
THEOREM TypeCorrect == Spec => []TypeOK
  <1>1. IInv => TypeOK
    BY DEF IInv
  <1>2. QED
    BY <1>1, Invariance, PTL

\* inner.schema is always composed from the sources of inner.route_table.
THEOREM SchemaCorrect == Spec => []SchemaMatchesTable
  <1>1. IInv => SchemaMatchesTable
    BY DEF IInv
  <1>2. QED
    BY <1>1, Invariance, PTL

\* Every fetch of every request goes to the source its plan was made for.
THEOREM RoutingCorrect == Spec => []RoutedAsPlanned
  <1>1. IInv => RoutedAsPlanned
    BY DEF IInv
  <1>2. QED
    BY <1>1, Invariance, PTL

\* Only a Change costs the gateway its schema.
THEOREM SchemaKept == Spec => KeepLastGood
  <1> DEFINE Kept == schema # NoSchema /\ schema' = NoSchema
                         => commands # <<>> /\ commands' = Tail(commands)
  <1>1. ASSUME IInv, [Next]_vars PROVE [Kept]_vars
    <2> SUFFICES ASSUME Next, schema # NoSchema, schema' = NoSchema
                 PROVE  commands # <<>> /\ commands' = Tail(commands)
      BY <1>1
    <2>1. CASE TakeCommand
      BY <2>1 DEF TakeCommand, Change
    <2>2. CASE Combine
      <3>1. CASE Write
        <4>1. schema' \in Schema
          BY <1>1, <2>2, <3>1 DEF Combine, Write, IInv, TypeOK, Schema
        <4>2. QED
          BY <4>1, NoneIsNone
      <3>2. CASE UpdateFails
        BY <3>2 DEF UpdateFails, innerVars
      <3>3. QED
        BY <2>2, <3>1, <3>2 DEF Combine
    <2>3. CASE Tick \/ \E s \in Services : Answer(s) \/ AnswerFails(s)
      BY <2>3 DEF Tick, Answer, AnswerFails, UpdateFails, innerVars
    <2>4. CASE Users
      BY <2>4 DEF Users, SetRouteTable, Get, FetchFrom, FetchVia, End, innerVars
    <2>5. CASE Environment
      BY <2>5 DEF Environment, Publish, GoDown, ComeUp, innerVars
    <2>6. QED
      BY <2>1, <2>2, <2>3, <2>4, <2>5 DEF Next, Loop
  <1>2. QED
    BY <1>1, Invariance, PTL DEF Spec, KeepLastGood

=============================================================================
