CONSTANTS
    TASKS <- TwoTasks
    VPN_TASKS <- ThreeTasks
    MaxFaults = 2
    MaxStarts = 2
    Conns = {1, 2}
    Ips = {1}
    MaxMoves = 3
    HOPS = 2
    Requests <- AllRequests
    Remote <- BothFamilies
    BIND = "v4"
    MaxBreaks = 1
    NoTask = NoTask
SPECIFICATION Spec
INVARIANTS
    ServicesKeepTrack
    ToldIsTrue
PROPERTIES
    NetworkIsRestored
    ServicesEnd
CHECK_DEADLOCK FALSE
