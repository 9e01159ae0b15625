CONSTANTS
    LF = LF
    CR = CR
    Bytes = {x, LF, CR}
    MAX_BYTES = 3
    MaxInput = 7
    Clients = {c1, c2}
    MaxConnections = 2
    Backlog = 1
SPECIFICATION ConnectionSpec
INVARIANT FramingIsExact
INVARIANT EndIsJustified
INVARIANT ReportIsTrue
PROPERTY CloseIsNoticed
PROPERTY ConnectedQueryEnds
PROPERTY SlotIsReleased
CHECK_DEADLOCK FALSE
