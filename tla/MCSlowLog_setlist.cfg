SPECIFICATION Spec
CONSTANTS
    None = None
    Logs <- SetList
INVARIANT GateIsRight
CHECK_DEADLOCK FALSE
