SPECIFICATION Spec
CONSTANTS
    Unset = Unset
    Touched = {"tls", "tx", "monitor", "storage", "other"}
    MaxFaults = 2
    MayStall = TRUE
INVARIANTS OkMeansApplied IndexFirst
