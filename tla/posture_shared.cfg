SPECIFICATION Spec
CONSTANTS
    p1 = p1
    p2 = p2
    f1 = f1
    f2 = f2
    i1 = i1
    i2 = i2
    Processes <- MCProcesses
    ArtifactPaths <- MCPaths
    Intents <- MCIntents
    Targets <- MCTargets
    MaxAuthorizations = 1
    MaxSteps = 2
    MaxValue = 2
    MaxClock = 1
    MaxActs = 3
SYMMETRY MCSymmetry
INVARIANTS VerifiedWasTrue GrantsSound
PROPERTIES AnchorOutlivesWrite
CHECK_DEADLOCK FALSE
