SPECIFICATION Spec
CONSTANTS
    read = read
    job = job
    alice = alice
    bob = bob
    Action = {read, job}
    DetachedAction = {job}
    Key = {k}
    NoKey = none
    Principal = {alice, bob}
    Peer = {}
    NoPeer = nopeer
    Policies <- HostPolicies
    SectionItems = 1
    MaxRecords = 5
    MaxGeneration = 1
    MaxSessions = 2
    MaxPermits = 1
    MaxHostSteps = 0
    MaxFailures = 2
INVARIANT AtMostOnce
INVARIANT EffectsAreAudited
INVARIANT MemoryIsProjection
INVARIANT RestartIsAccepted
INVARIANT AnswersAreOwn
PROPERTY FenceHolds
SYMMETRY Symmetry
CHECK_DEADLOCK FALSE
