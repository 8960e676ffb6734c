SPECIFICATION FairSpec
CONSTANTS
    Merging <- MCMerge
    Representing <- MCRepresent
    PuttingBack <- MCPutBack
    Resolving <- MCResolve
    KeyFree <- MCClean
    Plans <- MCPlans
    Answers <- MCAnswers
    Entity <- MCEntity
    Pushes <- ItemPushes
    MaxPushes = 2
INVARIANTS TypeOK SerialResult NoKeysLeft
PROPERTIES Finishes
\* A plan that is executed takes no more steps.
CHECK_DEADLOCK FALSE
