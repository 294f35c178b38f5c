\* Three commands and three pids, kills at any point, reused pids.
CONSTANTS
    Procs = {p1, p2, p3}
    Pids = {i1, i2, i3}
    None = None
    MayCrash = TRUE
SPECIFICATION FairSpec
INVARIANTS
    ExclusiveUnlessStolen
    FileNamesHolder
PROPERTY AcquireEnds
\* The commands all end.
CHECK_DEADLOCK FALSE
