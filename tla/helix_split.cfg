SPECIFICATION FairSpec
CONSTANTS
    n1 = n1
    n2 = n2
    n3 = n3
    n4 = n4
    Node = {n1, n2, n3}
    None = None
    InitFiles <- FreshOrShipped
    Campaigners = {n1, n2}
    Lossy = TRUE
    MaxTerm = 2
    MaxRestart = 0
    MaxDuplicate = 0
    MaxSaveFail = 0
PROPERTIES
    ElectionImplemented
    SplitBrainHeals
CHECK_DEADLOCK FALSE
