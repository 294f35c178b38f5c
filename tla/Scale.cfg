SPECIFICATION Spec
CONSTANTS
    a1 = a1
    b1 = b1
    b2 = b2
    c1 = c1
    d1 = d1
    g = g
    None = None
    Nodes <- MCNodes
    HostOf <- MCHostOf
    Groups <- MCGroups
    InitConfig <- MCInitConfig
    MaxRuns = 2
    MaxFaults = 2
    MaxRepeats = 1
INVARIANT DoneMeansRecorded
PROPERTY SavedMatchesServer
PROPERTY WipesNoRecordedNode
PROPERTY StopsAfterRemoval
PROPERTY StartsWithCurrentConfig
CHECK_DEADLOCK FALSE
