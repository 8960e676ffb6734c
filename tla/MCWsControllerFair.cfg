SPECIFICATION FairSpec
CONSTANTS
    Services = {s1}
    Ids = {i1, i2}
    Chans = {c1, c2}
    NoChan = NoChan
    SharedIds = FALSE
    MaxCommands = 3
    MaxInFlight = 1
INVARIANTS NoCrossTalk
PROPERTIES OkIsRegistered CallsAnswered SessionEnds
\* A session that is over takes no more steps.
CHECK_DEADLOCK FALSE
