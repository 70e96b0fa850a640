CONSTANTS
    a = a
    b = b
    Values = {a, b}
    MaxSeq = 4
    MaxTokens = 3
    MaxCuts = 2
SPECIFICATION Spec
INVARIANTS TypeOK SlotKept NoLostUpdate TokensBounded
PROPERTIES RegisterKept
CHECK_DEADLOCK FALSE
