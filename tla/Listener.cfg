\* Two peers that connect; both functions set; Close is called up to twice.
CONSTANTS
    Remotes = {r1, r2}
    Slow = {r1}
    Funcs = {"onConnect", "sendHandshake"}
    Cap = 1
    MaxCloses = 2
SPECIFICATION Spec
CHECK_DEADLOCK FALSE
INVARIANTS
    TypeOK
    LeftOpen
    GivesUpOnlyForTheChoked
PROPERTIES
    ErrorsTold
    AcceptLoopEnds
