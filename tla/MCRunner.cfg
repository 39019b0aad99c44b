CONSTANTS
    MaxEvents = 4
    MaxSignals = 2
    QueueLimit = 2
    MaxWork = 1
    BridgeRoom = 2
    ConsumerRoom = 2
    MaxUnseen = 2
    CancelTries = 2
SPECIFICATION CommandSpec
INVARIANTS
    CommandTruthful
    CleanupFirst
PROPERTIES
    CommandEnds
