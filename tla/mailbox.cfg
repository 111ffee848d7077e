SPECIFICATION FairSpec
CONSTANTS
    Thread = {owner, s1, s2}
    Owner = owner
    Free = free
    Capacity = 2
    MaxSends = 2
INVARIANT ReadersNeverInvert
INVARIANT AcceptedAreConserved
PROPERTY DropReleases
CHECK_DEADLOCK FALSE
