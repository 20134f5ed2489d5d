SPECIFICATION Spec
CONSTANTS
    Leaves <- TwoVectors
    Rate = 1
    MaxTensor = 5
    MaxCalls = 4
    MaxBoth = 7
INVARIANTS
    NothingRaises
    GradientReady
    GradientsExact
CHECK_DEADLOCK FALSE
