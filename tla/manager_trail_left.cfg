SPECIFICATION Spec
CONSTANTS
    i1 = i1
    c1 = c1
    a1 = a1
    a2 = a2
    NoId = NoId
    NoCmd = NoCmd
    Ids = {i1}
    Cmds = {c1}
    Clients = {a1, a2}
    Timed = {}
    Reapers = {}
    Pausers = {}
    MaxAge = 1
    MaxIdle = 1
    MaxClock = 2
    Faults = {}
INVARIANT TrailDiesWithSandbox
CHECK_DEADLOCK FALSE
