SPECIFICATION FairSpec
CONSTANTS
    None = None
    e = e
    f = f
    g = g
    h1 = h1
    Inodes = {f, g, e}
    PrivateInodes = {e}
    Hashes = {h1}
    MaxReleases = 2
    MaxInserts = 0
    MaxFails = 1
    MaxCrashes = 1
    MaxLockWaits = 1
    CleanerOn = TRUE
INVARIANTS
    NoLostBytes
PROPERTIES
    EventuallyReclaimed
CHECK_DEADLOCK FALSE
