SPECIFICATION MCSpec
CONSTANTS
    Consumer = {c1, c2}
    SegmentFrames = 2
    MaxUnacked = 2
    NoLimit = NoLimit
    Settings <- LogSettings
    MaxFaults = 2
    MaxCalls = 4
    MaxTick = 1
    Sizes = {1, 2}
    BusCapacity = 2
    BusCapacityBytes = 3
    KeepRecords = 1
    KeepBytes = 2
    KeepTicks = 0
    Drops = TRUE
    MaxOffset = 4
INVARIANT AckedIsReadable
INVARIANT ReopenSucceeds
INVARIANT RefusedIsNotResurrected
INVARIANT BusReplayIsComplete
PROPERTY BusGapsAreCounted
SYMMETRY Symmetry
CHECK_DEADLOCK FALSE
