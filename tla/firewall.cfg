SPECIFICATION LiveSpec
CONSTANTS
    i1 = i1
    d1 = d1
    d2 = d2
    w1 = w1
    NoId = NoId
    Ids = {i1}
    Destroyers = {d1, d2}
    Sweepers = {w1}
    Grace = 3
    CreateBound = 1
    SweepBound = 1
    MaxClock = 4
    Faults = {"setup", "teardown", "cancel", "crash", "inspect", "sweep"}
    Ageless = {}
INVARIANT TypeOK
INVARIANT LiveFirewall
INVARIANT SetupIntact
INVARIANT SweepIsThorough
INVARIANT TornDownTogether
PROPERTY OrphansSwept
CHECK_DEADLOCK FALSE
