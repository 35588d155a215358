SPECIFICATION Spec
PROPERTIES
    ConnectedFlowIsReleased
    NativeSessionsEnd
    FlowTasksEnd
