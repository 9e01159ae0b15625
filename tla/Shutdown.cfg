CONSTANTS
    Conns = {c1, c2, c3}
    MAX_CONNECTIONS = 2
    MaxRequests = 1
    MaxAcceptErrors = 1
SPECIFICATION FairSpec
PROPERTY ShutdownCompletes
CHECK_DEADLOCK FALSE
