SPECIFICATION Spec
CONSTANTS
    Event = {a, b}
    MaxRecords = 2
    Keep = {}
    Policies = {"Acknowledge", "Refuse"}
    Faults = {"kill", "log_io", "anchor_io", "dir_sync"}
    MaxFaults = 1
    HostA = hostA
    HostB = hostB
    Free = free
INVARIANT WriterIsExclusive
INVARIANT NothingPromisedIsLost
CHECK_DEADLOCK FALSE
