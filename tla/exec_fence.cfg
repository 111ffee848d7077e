SPECIFICATION FairSpec
CONSTANTS
    read = read
    job = job
    alice = alice
    bob = bob
    Action = {read, job}
    DetachedAction = {job}
    Key = {k, k2}
    NoKey = none
    Principal = {alice}
    Peer = {}
    NoPeer = nopeer
    Policies <- HostPolicies
    SectionItems = 1
    MaxRecords = 4
    MaxGeneration = 1
    MaxSessions = 1
    MaxPermits = 1
    MaxHostSteps = 0
    MaxFailures = 2
INVARIANT SectionFits
PROPERTY FenceIsLifted
PROPERTY AuditImplementsOnce
CHECK_DEADLOCK FALSE
