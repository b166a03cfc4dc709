SPECIFICATION FairSpec
CONSTANTS
    MachineResult <- MCMachineResult
    Scenario <- MCScenario
INVARIANTS
    TypeOK
    NoChangeMissed
    RetriesBounded
PROPERTIES
    HealthConverges
    OnlineAnnounced
