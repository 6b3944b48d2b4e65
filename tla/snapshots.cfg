SPECIFICATION Spec
CONSTANTS
    n1 = n1
    n2 = n2
    m1 = m1
    m2 = m2
    p1 = p1
    p2 = p2
    NoImage = NoImage
    Names = {n1, n2}
    Images = {m1, m2}
    Pruners = {p1, p2}
    MaxAge = 1
    Second = 2
    MaxSkew = 1
    MaxClock = 4
INVARIANT TypeOK
INVARIANT ReportIsTrue
PROPERTY PruneSparesYoung
PROPERTY PruneIsThorough
SYMMETRY AnySymmetry
CHECK_DEADLOCK FALSE
