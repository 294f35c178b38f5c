SPECIFICATION FairSpec
CONSTANTS
    t = t
    s = s
    v = v
    l1 = l1
    l2 = l2
    Procs = {t, v, l1, l2}
    Rows = {t, v, l1}
    Role <- MCRole
    Member <- MCMember
    StatusWait = 1
    ProbeWait = 1
    MayPanic = TRUE
INVARIANTS PassedMeansSeen NoFalseRefusal
PROPERTY EndsUnlessMute
