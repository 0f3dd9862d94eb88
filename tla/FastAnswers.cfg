\* Two answers of one piece are handled concurrently.
CONSTANTS
    c1 = c1
    c2 = c2
    Conns = {c1}
    NoConn = none
    Nil = nil
    NumPieces = 1
    BlockCount <- TwoEach
    Announcements <- OnePiece
    MaxTries = 1
    AllowedMisfires = 3
    SlowConns = {}
    LossyConns = {}
    PacedConns = {}
    DiskMayFail = FALSE
SPECIFICATION Spec
CHECK_DEADLOCK FALSE
INVARIANTS
    FinalFileComplete
