SPECIFICATION RecoverSpec
ACTION_CONSTRAINT WholePasses
CONSTANTS
    None = None
    Inodes = {f1, f2}
    Hashes = {h1}
    MaxEntries = 2
    MaxWrites = 2
    MaxCrashes = 1
    MaxFails = 1
    MaxRecovers = 1
SYMMETRY Symmetry
INVARIANTS
    DurableAck
    GateCoversQueue
    
