SPECIFICATION FairSpec
CONSTANTS
    Self = n1
    Other = {n2}
    None = None
    MaxTerm = 3
    MaxMessages = 4
INVARIANTS
    LeadsOwnTerm
PROPERTIES
    LoneNodeLeads
    ElectionImplemented
CHECK_DEADLOCK FALSE
