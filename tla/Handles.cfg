SPECIFICATION Spec
CONSTANTS
    None = None
    Inodes = {f1, f2}
    Names = {"n", "code"}
    CodeNames = {"code"}
    Bytes = {"a"}
    BadBytes = {"a"}
    Zero = "0"
    MaxLen = 2
    MaxOpens = 3
    MaxWrites = 1
    MaxRenames = 1
    MaxFails = 1
    MaxCrashes = 1
SYMMETRY Symmetry
INVARIANTS
    HandlesTypeOK
    FdCountsExact
    UnlinkedGone
    OpenFilesKept
CHECK_DEADLOCK FALSE
