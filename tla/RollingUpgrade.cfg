SPECIFICATION FairSpec
CONSTANTS
    a = a
    b = b
    c = c
    d = d
    g1 = g1
    g2 = g2
    None = None
    Nodes = {a, b, c}
    Groups = {g1}
    GroupOf <- MCGroupOf
    MayMove = TRUE
    HasStandby = {TRUE, FALSE}
    SkipLog = FALSE
    MaxFaults = 2
    MayStall = TRUE
    MayRepair = TRUE
INVARIANTS DoneMeansUpgraded LeaderKilledOnlyIfExcused GroupServed
PROPERTY RetryConverges
