CONSTANTS
    Conns = {1, 2}
    Resolved <- SharedAddress
    Ifaces = {"e0", "e1"}
    Named = "e0"
    Unindexed = {"e1"}
    Modes = {"named"}
    MaxMoves = 2
    MaxFaults = 1
    NoIface = NoIface
    NoRef = NoRef
SPECIFICATION Spec
PROPERTY LastConnectionRemovesRoute
CHECK_DEADLOCK FALSE
