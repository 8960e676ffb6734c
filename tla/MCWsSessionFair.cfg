SPECIFICATION FairSpec
CONSTANTS
    s1 = s1
    s2 = s2
    o1 = o1
    o2 = o2
    Services = {s1, s2}
    Ops = {o1, o2}
    Plans <- LivePlans
    MaxReq = 1
    NoChan = NoChan
    MaxCommands = 2
    MaxInFlight = 1
PROPERTIES DeathCompletes StopEnds
\* A session that is over takes no more steps.
CHECK_DEADLOCK FALSE
