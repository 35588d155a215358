CONSTANTS
    MAX_FLOWS = 1
    CHANNEL_SIZE = 1
    COMMAND_CAPACITY = 1
    MaxFlows = 2
    MaxPackets = 2
    FlowIds = {1, 2}
    MaxTasks = 4
    Agents = {a1, a2}
    Addresses = {p1, p2, p3}
    SESSION_LIMIT = 1
    HEALTH_TICKS = 1
    MaxSessions = 3
    Conns = {1, 2}
    Resolved <- SharedAddress
    Ifaces = {"e0", "e1"}
    Named = "e0"
    Unindexed = {"e1"}
    Modes = {"default", "named", "auto"}
    MaxMoves = 2
    MaxFaults = 1
    NoIface = NoIface
    NoRef = NoRef
SPECIFICATION SuiteSpec
INVARIANTS
    ChannelsMatchWorkers
    RunningTaskIsRouted
    SessionLimitHolds
    DeadRouteHasCleanup
    SessionBoundToPeer
    RelayTableIsTrue
    RefsMatchGuards
PROPERTIES
    NoFlowIsReopened
    AutoFindsTheWayOut
SYMMETRY Symmetry
CHECK_DEADLOCK FALSE
