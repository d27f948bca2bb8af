SPECIFICATION Spec
CONSTANTS
    None = None
    Width = 16
    SizeBounds <- MCSizeBounds
    MinCount = 1
    Volatile = {"V"}
    Plans <- MCPlans
    Thresholds = {20, 29, 50}
    MaxFaults = 2
INVARIANTS
    WrongAnswersFail
    SlowdownFails
    NoFalseAlarm
CHECK_DEADLOCK FALSE
