SPECIFICATION LiveSpec
CONSTANTS
    Allow <- OneDomain
    Hosts <- ThreeHosts
    Ips <- TwoIps
    AllowPrivate = FALSE
    MaxAddrs = 2
    MaxChunks = 3
    Room = 1
    Faults = {"lookup", "dial", "hijack", "abort"}
INVARIANT TypeOK
INVARIANT Verdict
INVARIANT WholeStream
INVARIANT NotWedged
PROPERTY TunnelCloses
CHECK_DEADLOCK FALSE
