\* Messages below, at and above the sizes that matter, read as they are written.
CONSTANTS
    Messages <- AllSizes
    Greeting <- Protocol
    BufLen = 7
    MaxLen = 16
    HandshakeLen = 7
    MaxMessages = 3
    Segmented = FALSE
SPECIFICATION FairSpec
CHECK_DEADLOCK FALSE
INVARIANTS
    InStep
    RefusalsAreRight
PROPERTIES
    KeepsWire
    EveryMessageArrives
