CONSTANTS
    FlowIds = {1, 2}
    MAX_FLOWS = 1
    CHANNEL_SIZE = 1
    MaxTasks = 4
SPECIFICATION Spec
INVARIANT
    OneSocketPerFlow
