SPECIFICATION Spec
CONSTANTS
    None = None
    Logs <- MCLogs
INVARIANTS
    EachStatementItsEvent
    ClassIsShape
    GateIsRight
    VolatileIsKnown
CHECK_DEADLOCK FALSE
