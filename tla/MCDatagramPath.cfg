CONSTANTS
    WINDOW_SIZE = 3
    U64_MAX = 5
    WORD_BITS = 3
    WORD_COUNT = 3
    BITMAP_MAX = 12
    MAX_ENTRIES = 2
    MAX_TOTAL_BYTES = 3
    TIMEOUT = 1
    MAX_FRAGMENTS = 3
    FRAGMENT_PLAINTEXT = 2
    MAX_MESSAGE_SIZE = 6
    MessageLens = {0, 2, 3, 5}
    MessageIds = {m1, m2, m3}
    Data = {1}
    TABLE_TIMEOUT = 2
    TABLE_SIZE = 3
SPECIFICATION SuiteSpec
INVARIANTS
    ExactReplayAnswer
    NonceUsedOnce
    TableIsTrue
PROPERTIES
    ImplementsReplayWindow
    ImplementsChannel
    EvictionIsOrderly
SYMMETRY Symmetry
CHECK_DEADLOCK FALSE
