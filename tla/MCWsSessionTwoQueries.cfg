SPECIFICATION Spec
CONSTANTS
    s1 = s1
    s2 = s2
    o1 = o1
    o2 = o2
    Services = {s1, s2}
    Ops = {o1, o2}
    Plans <- TwoQueries
    MaxReq = 1
    NoChan = NoChan
    MaxCommands = 2
    MaxInFlight = 1
INVARIANTS NoPanic
\* A session that is over takes no more steps.
CHECK_DEADLOCK FALSE
