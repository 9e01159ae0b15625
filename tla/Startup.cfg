CONSTANTS
    x = x
    y = y
    Absent = Absent
    Nobody = Nobody
    Foreign = Foreign
    Instances = {i1, i2}
    Paths = {x, y}
    Configs <- MCConfigs
    MaxStarts = 2
SPECIFICATION FairSpec
INVARIANT ServingIsReachable
INVARIANT ControlSocketIsPrivate
PROPERTY NoEviction
PROPERTY StartEnds
PROPERTY StaleFilesDoNotBlock
CHECK_DEADLOCK FALSE
