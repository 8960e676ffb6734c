SPECIFICATION Spec
CONSTANTS
    Merging <- MCMerge
    Representing <- MCRepresent
    PuttingBack <- MCPutBack
    Resolving <- MCResolve
    KeyFree <- MCClean
    Plans <- MembersPlans
    Answers <- MembersAnswers
    Entity <- MCEntity
    Pushes <- NoPushes
    MaxPushes = 0
INVARIANTS SerialResult
\* A plan that is executed takes no more steps.
CHECK_DEADLOCK FALSE
