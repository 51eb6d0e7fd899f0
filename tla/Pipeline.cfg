SPECIFICATION Spec
SYMMETRY Symmetry
CONSTANTS
    None = None
    f1 = f1
    f2 = f2
    h1 = h1
    Inodes = {f1, f2}
    Hashes = {h1}
    MaxEntries = 2
    MaxWrites = 3
    MaxCrashes = 1
    MaxFails = 1
INVARIANTS
    TypeOK
    DurableAck
    SlotAccounting
    BoundedBacklog
    ReadAfterWrite
    VersionOrder
PROPERTIES
    ImplementsWriteLog
