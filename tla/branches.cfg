SPECIFICATION Spec
CONSTANTS
    Key <- Keys
    Branch = {b1, b2}
    Author = author
    Reviewer = {reviewer}
    FirstState <- Start
    Task <- Tasks
    HostDelta <- HostDeltas
    Tally = {"n"}
    MinCount <- LeastCount
    MaxCount = 2
    MaxOpened = 2
    MaxApprovals = 1
    MaxHostWrites = 1
    MaxGeneration = 2
    MaxFailures = 1
INVARIANT DerivedIsFresh
INVARIANT MergedCountsOnce
PROPERTY MergeKeepsIntent
PROPERTY ApprovedIsPublished
SYMMETRY Symmetry
CHECK_DEADLOCK FALSE
