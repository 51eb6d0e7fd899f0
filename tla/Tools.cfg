SPECIFICATION McpSpec
CONSTANTS
    None = None
    Names = {"a", "b"}
    MaxIno = 4
    MaxFds = 1
    PageSize = 1
    ImportPath <- Path
    Paths <- PathsUsed
    Contents = {"x"}
    MaxTokens = 1
INVARIANTS
    OneEffectEach
    HitsAnnounced
    WalkComplete
CHECK_DEADLOCK FALSE
