SPECIFICATION LiveSpec
CONSTANTS
    f1 = f1
    f2 = f2
    Flights <- TwoFlights
    MaxWorld = 3
    Faults = {"down", "list", "act"}
INVARIANT TypeOK
PROPERTY NeverGoesBack
PROPERTY ShowsWhatWasDone
CHECK_DEADLOCK FALSE
