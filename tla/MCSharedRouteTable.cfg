SPECIFICATION FairSpec
CONSTANTS
    a = a
    b = b
    x = x
    y = y
    v1 = v1
    v2 = v2
    junk = junk
    Services = {a, b}
    Sources = {x, y}
    Tables <- MCTables
    Sdls = {v1, v2, junk}
    Parsable = {v1, v2}
    Composable <- MCComposable
    Requests = {r1}
    NoTable = NoTable
    NoSchema = NoSchema
    NoSdl = NoSdl
    NoPair = NoPair
    NoFetch = NoFetch
    NoSource = NoSource
    MaxCommands = 1
INVARIANTS TypeOK SchemaMatchesTable RoutedAsPlanned
PROPERTIES KeepLastGood Converges
