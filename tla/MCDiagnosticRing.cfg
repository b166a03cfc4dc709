SPECIFICATION Spec
CONSTANTS
    Capacity = 4
    BatchCapacity = 2
    MaxSequence = 11
INVARIANTS
    TypeOK
    HoldsLatest
    NothingSilentlyLost
PROPERTY BatchAdvances
