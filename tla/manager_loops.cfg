SPECIFICATION Spec
CONSTANTS
    i1 = i1
    c1 = c1
    c2 = c2
    a1 = a1
    r1 = r1
    a2 = a2
    NoId = NoId
    NoCmd = NoCmd
    Ids = {i1}
    Cmds = {c1, c2}
    Clients = {a1, a2}
    Timed = {a1}
    Reapers = {r1}
    Pausers = {}
    MaxAge = 0
    MaxIdle = 1
    MaxClock = 1
    Faults = {"crash", "disk", "engine", "stop", "deadline"}
INVARIANT TypeOK
INVARIANT ReapIsThorough
INVARIANT AuditComplete
PROPERTY LifecycleSpec
SYMMETRY NameSymmetry
CHECK_DEADLOCK FALSE
