SPECIFICATION LiveSpec
CONSTANTS
    Second = 3
    Half = 22
    Default = 6
    Grace = 15
    Asks <- AskedSeconds
    Lag = 4
    MaxClock = 32
    Faults = {"freeze", "client"}
INVARIANT TypeOK
INVARIANT KilledInTime
INVARIANT WatchdogWins
PROPERTY LimitHolds
CHECK_DEADLOCK FALSE
