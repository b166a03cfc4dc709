SPECIFICATION Spec
CONSTANTS
    NumRules = 2
    Client = {c1, c2}
    Metric = {"temperature"}
    Value = {0, 1, 2}
    Definition <- MCDefinitionTwo
    Patch <- MCPatchTwo
    None = None
    MaxTime = 3
    MaxSamples = 3
    MaxEdits = 2
SYMMETRY ClientSymmetry
INVARIANTS
    TypeOK
    TablesAgree
    MatchesSamples
    EventsJustified
PROPERTY ResolvedIsFinal
CHECK_DEADLOCK FALSE
