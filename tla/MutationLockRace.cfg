\* Exclusion without any crash: three commands that all run to their end.
CONSTANTS
    Procs = {p1, p2, p3}
    Pids = {i1, i2, i3}
    None = None
    MayCrash = FALSE
SPECIFICATION Spec
SYMMETRY Interchangeable
INVARIANTS
    MutualExclusion
CHECK_DEADLOCK FALSE
