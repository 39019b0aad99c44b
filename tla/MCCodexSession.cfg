CONSTANTS
    a1 = a1
    a2 = a2
    b1 = b1
    Calls <- MCCalls
    SessionOf <- MCSessionOf
    Traffic <- MCTraffic
    Unruly <- MCUnruly
    PipeRoom = 2
SPECIFICATION Spec
PROPERTIES
    TurnsAccounted
    CallsSettle
CHECK_DEADLOCK FALSE
