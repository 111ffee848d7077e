SPECIFICATION Spec
CONSTANTS
    Event = {a, b}
    MaxRecords = 3
    Keep = {0, 1}
    Policies = {"Acknowledge", "Discard", "Refuse"}
    Faults = {"kill", "log_io", "anchor_io"}
    MaxFaults = 2
    Host = {h1}
    Me = h1
    Free = free
INVARIANT AlwaysRecoverable
INVARIANT PromisedStaysAcknowledged
INVARIANT OriginIsBound
PROPERTY AnchorMovesForward
SYMMETRY Symmetry
CHECK_DEADLOCK FALSE
