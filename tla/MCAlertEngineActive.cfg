SPECIFICATION Spec
CONSTANTS
    NumRules = 1
    Client = {c1, c2}
    Metric = {"temperature"}
    Value = {0, 1, 2, 3}
    Definition <- MCDefinition
    Patch <- MCPatch
    None = None
    MaxTime = 3
    MaxSamples = 3
    MaxEdits = 2
SYMMETRY ClientSymmetry
INVARIANT ActiveHasEvent
CHECK_DEADLOCK FALSE
