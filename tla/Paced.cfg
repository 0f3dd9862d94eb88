\* Peers that pace their messages: one that has a piece and may vanish, and a
\* complete one.
CONSTANTS
    c1 = c1
    c2 = c2
    Conns = {c1, c2}
    NoConn = none
    Nil = nil
    NumPieces = 2
    BlockCount <- TwoEach
    Announcements <- PartAndSeed
    MaxTries = 2
    AllowedMisfires = 1
    SlowConns = {}
    LossyConns = {c1}
    PacedConns = {c1, c2}
    DiskMayFail = FALSE
SPECIFICATION FairSpec
CHECK_DEADLOCK FALSE
INVARIANTS
    DoneImpliesStored
    StoredImpliesDone
    OnePieceAtATime
    FinalFileComplete
    LeftCountsMissing
    OneTimerPerBlock
PROPERTIES
    EventuallySeeding
