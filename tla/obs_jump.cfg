SPECIFICATION Spec
CONSTANTS
    Programs <- Shipped
    Upper <- UpperCase
    None = None
    MaxLength = 2
INVARIANTS
    ProgramAsMeant
CHECK_DEADLOCK FALSE
