SPECIFICATION FairSpec
CONSTANTS
    a = a
    b = b
    c = c
    d = d
    g1 = g1
    g2 = g2
    None = None
    Nodes = {a, b, c, d}
    Groups = {g1, g2}
    GroupOf <- MCGroupOf
    MayMove = FALSE
    HasStandby = {TRUE, FALSE}
    SkipLog = TRUE
    MaxFaults = 1
    MayStall = TRUE
    MayRepair = TRUE
INVARIANTS GroupServed
PROPERTY RetryConverges
