CONSTANTS
    Plans <- MCPlans
    NoSource = NoSource
    NoId = NoId
    Limits = {3, 20}
    MaxPending = 1
    MaxAttempts = 2
SPECIFICATION DisplaySpec
INVARIANTS
    InvocationsOrderly
    ViewsTruthful
PROPERTIES
    AbortEnds
