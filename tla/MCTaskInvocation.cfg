SPECIFICATION ExecSpec
CONSTANTS
    procE = procE
    childE = childE
    toolA = toolA
    consR = consR
    consF = consF
    consG = consG
    armD = armD
    Effects = {procE, childE}
    Activities = {toolA}
    EagerConsumers <- MCEagerConsumers
    DeferredConsumers = {armD}
    Setups <- MCSetups
    Budget = 9
    Backoff <- MCBackoff
    RetryAfters = {0, 3}
CHECK_DEADLOCK FALSE
INVARIANTS
    LeasesCoverWork
    SessionsPublished
    CallsAccounted
PROPERTIES
    FailureIsNotLost
    InvocationEnds
