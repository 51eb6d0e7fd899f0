SPECIFICATION Spec
CONSTANTS
    None = None
    Points <- Directions
    Scale = 48
    MaxIter = 50
    MaxVecs = 3
    Sups = {s1, s2}
    BatchSize = 3
    JoinCos <- Join
    MergeCos <- Close
    SplitVar <- Variance
    MaxMembers = 1
    MergeEvery = 1
    MaxDeletes = 1
    MaxFails = 0
SYMMETRY Symmetry
INVARIANTS
    OneHome
    CentroidIsMean
    
PROPERTIES
    NeverReactivated
CHECK_DEADLOCK FALSE
