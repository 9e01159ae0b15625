CONSTANTS
    Clients = {c1, c2}
    MaxConnections = 2
    Backlog = 1
SPECIFICATION FairClientSpec
PROPERTY ToolNeverHangs
CHECK_DEADLOCK FALSE
