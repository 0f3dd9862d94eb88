\* A growing peer, handled concurrently, next to a slow one that may vanish;
\* writes may fail.
CONSTANTS
    c1 = c1
    c2 = c2
    Conns = {c1, c2}
    NoConn = none
    Nil = nil
    NumPieces = 2
    BlockCount <- OneEach
    Announcements <- GrowingAndSeed
    MaxTries = 1
    AllowedMisfires = 0
    SlowConns = {c2}
    LossyConns = {c2}
    PacedConns = {c2}
    DiskMayFail = TRUE
SPECIFICATION RaceSpec
CHECK_DEADLOCK FALSE
INVARIANTS
    TypeOK
    OnlyOwnerRequests
    HungOnlyAfterReplacement
    PieceLostOnlyByOverlap
    PanicsOnlyUnderRaces
PROPERTIES
    KeepsLedger
