SPECIFICATION FairSpec
CONSTANTS
    None = None
    Inodes = {f1}
    Nodes = {n1}
    MaxVersion = 2
    BatchSize = 2
    Backlog = 1
    SteadyWrites = FALSE
    MaxErrors = 1
    MaxStops = 1
INVARIANTS
    ProcessingHeld
    CleanIsSearchable
    CurrentIsLatest
PROPERTIES
    Settles
CHECK_DEADLOCK FALSE
