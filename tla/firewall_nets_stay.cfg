SPECIFICATION LiveSpec
CONSTANTS
    i1 = i1
    d1 = d1
    w1 = w1
    NoId = NoId
    Ids = {i1}
    Destroyers = {d1}
    Sweepers = {w1}
    Grace = 3
    CreateBound = 1
    SweepBound = 1
    MaxClock = 5
    Faults = {"crash"}
    Ageless = {"network"}
PROPERTY EveryOrphanSwept
CHECK_DEADLOCK FALSE
