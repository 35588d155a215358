CONSTANTS
    NoRequest = NoRequest
SPECIFICATION Spec
PROPERTIES
    RequestsEnd
    QueuedIsHandled
    TasksStop
CHECK_DEADLOCK FALSE
