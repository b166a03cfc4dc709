SPECIFICATION FairSpec
CONSTANTS
    MaxWorkers = 2
    MaxSession = 2
    Iterations = 2
INVARIANTS
    TypeOK
    ServerOutlivesStreams
    SlotOwned
    StreamEndsWithSession
PROPERTY ServiceStops
CHECK_DEADLOCK FALSE
