SPECIFICATION FairSpec
CONSTANTS
    None = None
    MaxStarts = 2
    MaxWrites = 1
    MaxFails = 1
    MaxKills = 1
    MaxUnmounts = 1
INVARIANTS
    OneServer
    ReadyMeansServing
    
PROPERTIES
    StartsAndStops
    
CHECK_DEADLOCK FALSE
