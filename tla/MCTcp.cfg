CONSTANTS
    MaxUnits = 2
    LINK_SIZE = 1
    IDLE = 2
    HALF_CLOSE = 1
    MaxFaults = 1
SPECIFICATION Spec
INVARIANTS
    FinIsHonest
PROPERTIES
    RelaysEnd
    ClosedIsDelivered
CHECK_DEADLOCK FALSE
