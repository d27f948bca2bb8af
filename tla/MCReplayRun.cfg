SPECIFICATION FairSpec
CONSTANTS
    Events = 2
    MaxRepeat = 3
INVARIANTS
    RunLeavesItsReport WarmupIsNotMeasured CutIsMarked OnlyLastIsPartial
PROPERTIES RunEnds
