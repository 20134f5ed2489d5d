SPECIFICATION Spec
CONSTANTS
    n1 = n1
    n2 = n2
    n3 = n3
    n4 = n4
    Node = {n1, n2, n3}
    None = None
    InitFiles <- FreshOrEither
    Campaigners = {n1, n2}
    Lossy = FALSE
    MaxTerm = 2
    MaxRestart = 1
    MaxDuplicate = 1
    MaxSaveFail = 1
SYMMETRY Exchange
INVARIANTS
    TypeOK
    OneLeaderPerTerm
    LeaderHasMajority
    VoteRemembered
    LeaderIsElected
PROPERTIES
    FileForward
CHECK_DEADLOCK FALSE
