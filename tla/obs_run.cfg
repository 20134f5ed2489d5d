SPECIFICATION Spec
CONSTANTS
    Programs <- AllPrograms
    Upper <- UpperCase
    None = None
    MaxLength = 5
INVARIANTS
    TypeOK
    StraightLineAsMeant
CHECK_DEADLOCK FALSE
