CONSTANTS
    c1 = c1
    c2 = c2
    c3 = c3
    c4 = c4
    c5 = c5
    d1 = d1
    s1 = s1
    s2 = s2
    Calls <- MCCalls
    DirectRuns <- MCDirectRuns
    Steps <- MCSteps
    StepsOf <- MCStepsOf
    Traffic <- MCTraffic
    MaxConcurrent = 1
    MaxQueued = 1
SPECIFICATION Spec
CHECK_DEADLOCK FALSE
INVARIANTS
    DispatcherSound
    ExecutionsClosed
PROPERTIES
    CallsAndRunsEnd
