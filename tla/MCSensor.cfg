SPECIFICATION FairSpec
CONSTANT MaxAttempts = 10
INVARIANTS
    TypeOK
    LayersAgree
    SamplesSound
PROPERTY SamplesResume
