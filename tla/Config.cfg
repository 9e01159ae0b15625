CONSTANTS
    Users = {alice, bob}
    Absent = Absent
    Files <- MCFiles
    Sockets = {s1, s2}
    Controls = {t1, t2}
    Connections = {r1, r2}
    Prefixes = {p1, p2}
    Workers = {w1, w2}
    MaxEdits = 2
    MaxSignals = 3
SPECIFICATION ConfigSpec
INVARIANT FirstMatchWins
INVARIANT NothingIsPassedOver
INVARIANT TypeOK
INVARIANT FlagIsWorker
INVARIANT StateIsCoherent
PROPERTY NeverGoesBack
PROPERTY RequestIsServed
PROPERTY ReloadEnds
CHECK_DEADLOCK FALSE
