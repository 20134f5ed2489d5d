SPECIFICATION Spec
CONSTANTS
    n1 = n1
    n2 = n2
    n3 = n3
    n4 = n4
    Node = {n1, n2, n3, n4}
    None = None
    InitFiles <- NoFiles
    Campaigners = {n1}
    Lossy = FALSE
    MaxTerm = 1
    MaxRestart = 0
    MaxDuplicate = 1
    MaxSaveFail = 0
INVARIANTS
    LeaderHasMajority
CHECK_DEADLOCK FALSE
