SPECIFICATION Spec
CONSTANTS
    SeqWrap = 4
    FullLen = 2
    MaxLogical = 5
    Bits = 2
    ThreadId = 7
    Scenarios <- Connections
INVARIANTS RequestTime OwnResponse AsExecuted ExpandsWhatItCan SessionDb Accounted
CHECK_DEADLOCK FALSE
