SPECIFICATION Spec
CONSTANTS
    a1 = a1
    b1 = b1
    b2 = b2
    c1 = c1
    d1 = d1
    g = g
    None = None
    Nodes <- MCNodes
    HostOf <- MCHostOf
    Groups <- MCGroups
    InitConfig <- MCInitConfig
    MaxRuns = 2
    MaxFaults = 0
    MaxRepeats = 1
PROPERTY WipesOnlyAfterTheLast
CHECK_DEADLOCK FALSE
