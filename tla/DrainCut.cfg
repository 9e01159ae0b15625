CONSTANTS
    Conns = {c1, c2}
    MAX_CONNECTIONS = 1
    MaxRequests = 1
    MaxAcceptErrors = 0
SPECIFICATION Spec
INVARIANT RequestRunsToCompletion
CHECK_DEADLOCK FALSE
