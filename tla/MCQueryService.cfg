SPECIFICATION SpecExecution
CONSTANTS
    Types <- MCTypes
    Directives <- MCDirectives
    Hidden <- MCHidden
    Requests <- MCRequests
    StandardIntrospection <- MCStandard
    Known <- MCKnown
    Worlds <- MCWorlds
    Faulty <- MCFaulty
    MaxPushes = 2
    NoService = NoService
    NoType = NoType
    NoKeys = NoKeys
    NoOperation = NoOperation
CHECK_DEADLOCK FALSE
INVARIANT TypeOK
INVARIANT PlanFaithful
INVARIANT RootOrder
INVARIANT CyclesFound
INVARIANT ScopesFollowed
INVARIANT AcceptedPlanned
INVARIANT FetchesTyped
INVARIANT KeysUnambiguous
INVARIANT DepthLimitsPlan
INVARIANT SchemaRebuilt
INVARIANT AnswerRight
