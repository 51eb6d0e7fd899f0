SPECIFICATION Spec
ACTION_CONSTRAINT YoungHits
SYMMETRY Symmetry
CONSTANTS
    None = None
    f = f
    g = g
    h1 = h1
    Inodes = {f,g}
    PrivateInodes = {g}
    Hashes = {h1}
    MaxReleases = 1
    MaxInserts = 2
    MaxFails = 1
    MaxCrashes = 1
    MaxLockWaits = 0
    CleanerOn = TRUE
INVARIANTS
    NoLostBytes
    InventoryComplete
    
CHECK_DEADLOCK FALSE
