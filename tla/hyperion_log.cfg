SPECIFICATION FairSpec
CONSTANTS
    Key = {k1, k2}
    Size = {1, 2}
    SegmentSize = 3
    MaxTime = 3
    MaxWrites = 3
    MaxErrors = 2
    Base = 2
INVARIANTS
    TypeOK
    AckedLogged
    LossBounded
    ReadsLastAcked
    SequenceIncreases
PROPERTIES
    EventuallyDurable
CHECK_DEADLOCK FALSE
