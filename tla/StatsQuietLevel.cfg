CONSTANTS
    Tasks = {t1, t2}
    Events = {"failed_deferred"}
    LOG_SUPPRESSION_LIMIT = 2
    Levels = {"warn"}
    MaxEvents = 5
    MaxReports = 2
    MaxReloads = 0
SPECIFICATION StatsSpec
SYMMETRY TaskSymmetry
INVARIANT ThrottleIsExact
CHECK_DEADLOCK FALSE
