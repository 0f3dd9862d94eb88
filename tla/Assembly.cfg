\* Three calls, apart or overlapping, three blocks, and two failures or kills.
CONSTANTS
    f1 = f1
    f2 = f2
    f3 = f3
    Finalizers = {f1, f2, f3}
    NumBlocks = 3
    MaxFaults = 2
SPECIFICATION FairSpec
CHECK_DEADLOCK FALSE
INVARIANTS
    SeedsTheTorrent
    NothingLost
PROPERTIES
    OverwrittenOnlyByOverlap
    EndsUpSeeding
