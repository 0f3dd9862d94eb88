\* The peer that holds a reservation vanishes.
CONSTANTS
    c1 = c1
    c2 = c2
    Conns = {c1, c2}
    NoConn = none
    Nil = nil
    NumPieces = 2
    BlockCount <- OneEach
    Announcements <- TwoSmallSeeds
    MaxTries = 2
    AllowedMisfires = 0
    SlowConns = {}
    LossyConns = {c1}
    PacedConns = {c1, c2}
    DiskMayFail = FALSE
SPECIFICATION FairSpec
CHECK_DEADLOCK FALSE
PROPERTIES
    ReservationEnds
