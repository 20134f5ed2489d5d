SPECIFICATION Spec
CONSTANTS
    Reader = {r1}
    Variable = {"n", "m"}
    Label = {person, company}
    Value = {alice, bob}
    None = None
    Texts <- SomeTexts
    MaxNode = 3
SYMMETRY Symmetry
INVARIANTS
    FindsWhatIndexKnows
    AnswersFitValue
    UnderstoodAsWritten
CHECK_DEADLOCK FALSE
