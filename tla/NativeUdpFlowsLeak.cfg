CONSTANTS
    MAX_FLOWS = 1
    CHANNEL_SIZE = 1
    COMMAND_CAPACITY = 2
    MaxFlows = 1
    MaxPackets = 3
SPECIFICATION FairSpec
PROPERTY
    EveryFlowIsReleased
