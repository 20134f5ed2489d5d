SPECIFICATION FairSpec
CONSTANTS
    c1 = c1
    c2 = c2
    a1 = a1
    None = None
    Conn = {c1, c2}
    Peer <- OneName
    Frame <- Frames
    Separator = 8
    BadByte = 9
    MaxPacket = 3
    Piece = 4
    High = 0
    Low = 0
    MaxFrames = 2
    MaxErrors = 1
    Documented <- Checked
    Crc = 5
INVARIANTS
    TypeOK
    AnswersMatch
    ReadsAreFresh
    BufferBounded
    NothingAfterChecksum
PROPERTIES
    EventuallyAnswered
CHECK_DEADLOCK FALSE
