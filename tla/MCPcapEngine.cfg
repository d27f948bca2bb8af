SPECIFICATION Spec
CONSTANTS
    M = 64
    MaxPending = 5
    SeqWrap = 4
    FullLen = 2
    MaxLogical = 8
    Bits = 2
    SynthBase = 100
    MaxVersions = 1
    MaxFaults = 2
    Traffic <- Captures
INVARIANTS SessionsApart EventsOnce ConnectionsReal NoSilentLoss
PROPERTY LedgerKept
CHECK_DEADLOCK FALSE
