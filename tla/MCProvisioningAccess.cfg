SPECIFICATION FairSpec
CONSTANTS
    Inactivity = 2
    Absolute = 4
    SessionLife = 2
    MaxFailures = 2
    Lockout = 2
    MaxTime = 6
INVARIANTS
    TypeOK
    GuessesBounded
PROPERTIES
    WindowKeptOpen
    WindowCloses
CHECK_DEADLOCK FALSE
