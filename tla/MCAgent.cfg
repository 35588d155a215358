CONSTANTS
    Requests = {1, 2}
    MAX_SESSIONS = 2
    MAX_STREAMS = 1
    MAX_OPENS = 1
    MaxFaults = 2
    Slots = {1, 2}
    Mode = "auto"
    ShardFlows = {1, 2}
    CHANNEL_SIZE = 2
    BATCH_LIMIT = 2
    MaxRequests = 4
    Flows = {1, 2, 3}
    QuicFlows = {2}
    RuleFlows = {3}
    PROXY_UDP = TRUE
    BLOCK_QUIC = TRUE
    QUEUE_SIZE = 1
    MaxTasks = 2
    Queries = {1, 2}
    IDS = 8
    CACHE_SIZE = 1
    MaxQueries = 3
    DirectQueries = {1}
    ProxyIps = {"p1", "p2"}
    DnsServers = {"p2", "d1", "g1"}
    Gateways = {"g1"}
    LocalNets = {"l1"}
    Halves = {"h1", "h2"}
    UserRoutes <- OneUserRoute
    MACOS = FALSE
    WINDOWS = TRUE
    DELETES_FAIL = FALSE
    MaxCrashes = 2
    Conns = {1, 2, 3, 4, 5, 6}
    MaxRestarts = 1
    Ifs = {"wifi", "lan"}
    Pids = {1, 2}
    Original <- OneStatic
    MaxDnsFaults = 1
    NoRequest = NoRequest
    NoFile = NoFile
    NoRoute = NoRoute
    NoPid = NoPid
    NoIf = NoIf
    NoConn = NoConn
SPECIFICATION SuiteSpec
INVARIANTS
    PoolIsKept
    ReplyReachesItsFlow
    TableMatchesTasks
    UnproxiedStaysDirect
    AnswersAreRight
    DirectQueriesStayLocal
    RoutesAreRight
    HostIsRestored
    HelperRoutesFollowAgent
PROPERTIES
    LiveSessionIsKept
CHECK_DEADLOCK FALSE
