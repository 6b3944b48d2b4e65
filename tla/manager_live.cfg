SPECIFICATION LiveSpec
CONSTANTS
    i1 = i1
    c1 = c1
    a1 = a1
    r1 = r1
    z1 = z1
    NoId = NoId
    NoCmd = NoCmd
    Ids = {i1}
    Cmds = {c1}
    Clients = {a1}
    Timed = {a1}
    Reapers = {r1}
    Pausers = {z1}
    MaxAge = 1
    MaxIdle = 1
    MaxClock = 3
    Faults = {"stop"}
PROPERTY AutoResumes
PROPERTY EveryCallReturns
PROPERTY IdleIsReaped
PROPERTY LoopsRespectAge
CHECK_DEADLOCK FALSE
