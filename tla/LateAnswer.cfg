\* A late answer and the answer to the retry are both counted.
CONSTANTS
    c1 = c1
    c2 = c2
    Conns = {c1}
    NoConn = none
    Nil = nil
    NumPieces = 1
    BlockCount <- TwoEach
    Announcements <- OnePiece
    MaxTries = 2
    AllowedMisfires = 3
    SlowConns = {c1}
    LossyConns = {}
    PacedConns = {c1}
    DiskMayFail = FALSE
SPECIFICATION Spec
CHECK_DEADLOCK FALSE
INVARIANTS
    DoneImpliesStored
