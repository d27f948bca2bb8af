SPECIFICATION Spec
CONSTANTS
    M = 8
    Isn = 5
    MaxPending = 4
    Scenarios <- Captures
INVARIANTS DeliveredInOrder GapFilledDelivers BufferExact
