\* A HAVE arrives while the BITFIELD is being handled.
CONSTANTS
    c1 = c1
    c2 = c2
    Conns = {c1}
    NoConn = none
    Nil = nil
    NumPieces = 2
    BlockCount <- OneEach
    Announcements <- Growing
    MaxTries = 1
    AllowedMisfires = 3
    SlowConns = {}
    LossyConns = {}
    PacedConns = {}
    DiskMayFail = FALSE
SPECIFICATION Spec
CHECK_DEADLOCK FALSE
INVARIANTS
    NoPieceLost
