SPECIFICATION MCSpec
CONSTANTS
    Id = {a, b, c}
    NewClass = {"episodic"}
    Supports <- OneObservation
    MaxRevision = 1
    MaxPerClass = 3
    MaxParents = 2
    MaxDepth = 1
    MaxVisited = 2
    Op = {m1, m2, m3, m4}
    Oversized = {m4}
    NoOp = NoOp
    Settings <- Stores
    MaxFaults = 3
    ObjectId = {p, q}
    MaxGen = 2
    Raw = {r}
    Absent = Absent
    MaxStage = 3
    MaxDeps = 1
    SourceSets = {{r}}
    BuiltStages = {"Hot", "Invalidated"}
    Trusted <- TrustedKeys
INVARIANT JournalKeepsAcked
INVARIANT RolledBackNeverReturns
INVARIANT MarkersFlow
INVARIANT AuthorityIsEarned
INVARIANT ValidRestsOnValid
PROPERTY TakeoverIsClean
SYMMETRY Symmetry
CHECK_DEADLOCK FALSE
