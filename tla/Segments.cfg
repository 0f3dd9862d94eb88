\* Two messages over a network that cuts and joins what was written.
CONSTANTS
    Messages <- Small
    Greeting <- Protocol
    BufLen = 7
    MaxLen = 16
    HandshakeLen = 7
    MaxMessages = 2
    Segmented = TRUE
SPECIFICATION Spec
CHECK_DEADLOCK FALSE
INVARIANTS
    MessagesArriveIntact
