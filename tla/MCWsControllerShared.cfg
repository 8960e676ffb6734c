SPECIFICATION Spec
CONSTANTS
    Services = {s1, s2}
    Ids = {i1, i2}
    Chans = {c1, c2}
    NoChan = NoChan
    SharedIds = TRUE
    MaxCommands = 3
    MaxInFlight = 1
SYMMETRY ServiceAndCallerSymmetry
INVARIANTS TypeOK CountsMatch OpenIffUsed NoLostReply
PROPERTIES NoCollateral ImplementsMultiplexer
\* A session that is over takes no more steps.
CHECK_DEADLOCK FALSE
