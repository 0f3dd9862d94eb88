\* Torrents of regular and irregular shapes, from a source with any of the pieces.
CONSTANTS
    Torrents <- SomeTorrents
    BlockLength = 3
    Word = 65536
    ByteBits = 8
SPECIFICATION Spec
CHECK_DEADLOCK FALSE
INVARIANTS
    AnswersAreExact
    AnswerFindsItsSlot
    AsksForWhatIsThere
    FileIdentical
    FileUnlessShort
    Survives
