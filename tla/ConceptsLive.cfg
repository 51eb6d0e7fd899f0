SPECIFICATION FairSpec
CONSTANTS
    None = None
    Points <- TwoNear
    Scale = 48
    MaxIter = 50
    MaxVecs = 2
    Sups = {s1}
    BatchSize = 1
    JoinCos <- Join
    MergeCos <- Close
    SplitVar <- Variance
    MaxMembers = 1
    MergeEvery = 1
    MaxDeletes = 1
    MaxFails = 2
PROPERTY
    EventuallyConsolidated
CHECK_DEADLOCK FALSE
