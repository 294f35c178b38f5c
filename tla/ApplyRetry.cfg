SPECIFICATION FairSpec
CONSTANTS
    Unset = Unset
    Touched = {"tx"}
    MaxFaults = 1
    MayStall = FALSE
PROPERTY ApplyRetryConverges
