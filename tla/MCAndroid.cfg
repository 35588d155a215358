CONSTANTS
    NoRequest = NoRequest
SPECIFICATION Spec
PROPERTIES
    AndroidStops
CHECK_DEADLOCK FALSE
