CONSTANTS
    Sockets = {s1}
    Controls = {t1}
    Connections = {r1, r2}
    Prefixes = {p1}
    Workers = {w1, w2}
    MaxEdits = 1
    MaxSignals = 3
SPECIFICATION FairSpec
PROPERTY NoSighupIsDropped
CHECK_DEADLOCK FALSE
