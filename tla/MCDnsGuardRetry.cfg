CONSTANTS
    Ifs = {wifi, lan}
    Pids = {1, 2}
    Original <- TheSettings
    MaxFaults = 1
    MaxCrashes = 2
    NoPid = NoPid
    NoIf = NoIf
    wifi = wifi
    lan = lan
SPECIFICATION Spec
INVARIANTS
    KeptForNextStart
CHECK_DEADLOCK FALSE
