SPECIFICATION Spec
CONSTANTS
    read = read
    job = job
    alice = alice
    bob = bob
    Action = {read, job}
    DetachedAction = {job}
    Key = {}
    NoKey = none
    Principal = {alice, bob}
    Peer = {peer}
    NoPeer = nopeer
    Policies <- HostPolicies
    SectionItems = 1
    MaxRecords = 4
    MaxGeneration = 2
    MaxSessions = 1
    MaxPermits = 1
    MaxHostSteps = 2
    MaxFailures = 1
INVARIANT AttemptsAreCurrent
INVARIANT DispatchIsWithinPolicy
CHECK_DEADLOCK FALSE
