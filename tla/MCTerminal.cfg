SPECIFICATION FairSpec
CONSTANTS
    Conns = {c1}
    MaxChannels = 2
    MaxRequests = 3
INVARIANTS TypeOK HeardFirst
PROPERTIES DeadlineSpares Settled Released
CHECK_DEADLOCK FALSE
