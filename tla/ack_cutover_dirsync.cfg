SPECIFICATION Spec
CONSTANTS
    Event = {a}
    MaxRecords = 2
    Keep = {0, 1}
    Policies = {"Acknowledge"}
    Faults = {"dir_sync"}
    MaxFaults = 1
    Host = {h1}
    Me = h1
    Free = free
INVARIANT AlwaysRecoverable
CHECK_DEADLOCK FALSE
