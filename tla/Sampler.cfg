CONSTANTS
    Requests = 2
    Passes = 2
    WithImages = {2}
    MaxRetries = 2
    RateLimitMax = 1
    DoomMax = 1
    AuthMax = 1
    MaxChunks = 1
SPECIFICATION Spec
INVARIANTS
    TypeOK
    OperationRetriesBounded
    FreshBudget
    OrphanIsCancelled
    ToolsFollowText
PROPERTY EveryRequestEnds
CHECK_DEADLOCK FALSE
