CONSTANTS
    Procs = {p1}
    LenOf <- MCLenOf
    SegmentCounts = {6}
    RangeSupport = {FALSE}
    OtherLens = {}
    MaxAttempts = 2
    MaxOverlaps <- MCMaxOverlaps
    MaxFaults <- MCMaxFaults
SPECIFICATION StagingSpec
PROPERTY RetryConverges
