CONSTANTS
    Conns = {c1, c2, c3}
    MAX_CONNECTIONS = 2
    MaxRequests = 2
    MaxAcceptErrors = 0
    Tasks = {t1, t2}
    Events = {"accepted", "unauthenticated", "misconfigured"}
    LOG_SUPPRESSION_LIMIT = 2
    Levels = {"info", "warn"}
    MaxEvents = 5
    MaxReports = 2
    MaxReloads = 1
VIEW PartView
SPECIFICATION ServerSpec
INVARIANT TypeOK
INVARIANT SlotsAreExact
INVARIANT EveryRequestIsAnswered
INVARIANT FailsClosed
INVARIANT CountersAddUp
INVARIANT EveryEventIsReportedOnce
INVARIANT ThrottleHolds
CHECK_DEADLOCK FALSE
