SPECIFICATION ScanSpec
CONSTANTS
    Capacity = 3
    MaxNode = 4
    MaxEdge = 3
    MaxDepth = 2
    MaxWrites = 3
    Weight <- Weights
INVARIANTS
    ListsMatchEdges
    KeysMatchLists
    DepthsAscend
    DepthsAreDistances
    MissesOnlyShifted
    PathsAreShortest
PROPERTIES
    GraphImplemented
CHECK_DEADLOCK FALSE
