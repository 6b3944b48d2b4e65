SPECIFICATION LiveSpec
CONSTANTS
    Room = 2
    MaxOut = 5
    MaxErr = 3
INVARIANT TypeOK
INVARIANT NothingLost
INVARIANT WedgedByStderr
PROPERTY FittingRunEnds
CHECK_DEADLOCK FALSE
