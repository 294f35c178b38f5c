SPECIFICATION RestartSpec
CONSTANTS
    a = a
    b = b
    c = c
    d = d
    g1 = g1
    g2 = g2
    None = None
    Nodes = {a, b}
    Groups = {g1}
    GroupOf <- MCGroupOf
    MayMove = FALSE
    MaxFaults = 0
    MayStall = FALSE
INVARIANT StandbysRestarted
