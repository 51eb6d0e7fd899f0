SPECIFICATION Spec
CONSTANTS
    None = None
    Names = {"a", "b"}
    MaxIno = 4
    MaxFds = 1
    PageSize = 1
    ImportPath <- Path
INVARIANTS
    TreeOK
    
PROPERTIES
    LossExplained
CHECK_DEADLOCK FALSE
