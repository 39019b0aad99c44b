CONSTANTS
    Calls = {1, 2}
    Runs = {1, 2}
    Retries = 1
SPECIFICATION SessionSpec
INVARIANTS
    ClosedLeavesNothing
PROPERTIES
    WorkAccounted
    OwnEvents
    CallsEnd
CHECK_DEADLOCK FALSE
