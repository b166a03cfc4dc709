SPECIFICATION FairSpec
CONSTANTS
    Timeout = 1
    MaxQueue = 2
    MaxOutbox = 1
INVARIANTS
    TypeOK
    OnlineIsConnected
    RegistryAgrees
PROPERTY ShownFollowsDevice
