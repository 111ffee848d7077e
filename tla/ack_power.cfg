SPECIFICATION FairSpec
CONSTANTS
    Event = {a, b}
    MaxRecords = 3
    Keep = {0, 1}
    Policies = {"Acknowledge"}
    Faults = {"power"}
    MaxFaults = 2
    Host = {h1}
    Me = h1
    Free = free
INVARIANT PromisedStaysAcknowledged
PROPERTY ReopenSucceeds
CHECK_DEADLOCK FALSE
