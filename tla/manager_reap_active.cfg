SPECIFICATION Spec
CONSTANTS
    i1 = i1
    c1 = c1
    a1 = a1
    r1 = r1
    NoId = NoId
    NoCmd = NoCmd
    Ids = {i1}
    Cmds = {c1}
    Clients = {a1}
    Timed = {}
    Reapers = {r1}
    Pausers = {}
    MaxAge = 1
    MaxIdle = 1
    MaxClock = 2
    Faults = {}
PROPERTY ReapKeepsActive
CHECK_DEADLOCK FALSE
