CONSTANTS
    Repeats = {"p", "q"}
    MaximumIterations <- MCLimits
    WithNextInput = {"q"}
    MaxBodyExecutions = 4
    Kinds = {"opencode", "zvec", "ripwire"}
    MaxFaults = 1
    MaxAttempts = 2
    MaxMoves = 1
    MaxReviews = 2
    MaxTries = 2
    MaxPushes = 1
    MaxCuts = 1
    MaxStarts = 2
    AcpCalls = {"x1", "x2"}
    Tools = {"t"}
    MaxRepairs = 1
    MaxRecords = 2
    ProjectedTools = {"t0", "t1"}
    MessageOf <- MCMessageOf
    Old = 3
    MaxPrompts = 2
    PageSize = 2
    MaxPages = 2
    MaxSpans = 1
    MaxRefusals = 1
    MaxEvents = 3
SPECIFICATION JobsSpec
INVARIANTS
    AttemptsBounded
    ServiceSafe
    ActionsSafe
    AgentsSafe
PROPERTIES
    PromisesKept
    JobsEnd
