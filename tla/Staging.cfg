CONSTANTS
    Procs = {p1, p2}
    LenOf <- MCLenOf
    SegmentCounts = {6, 8}
    RangeSupport = {TRUE, FALSE}
    OtherLens = {1, 4}
    MaxAttempts = 2
    MaxOverlaps <- MCMaxOverlaps
    MaxFaults <- MCMaxFaults
SPECIFICATION StagingSpec
INVARIANTS DoneMeansGenuine CacheNeverTorn
PROPERTY RetriesEndWell
