SPECIFICATION Spec
CONSTANTS
    Slots = {x, y}
    Values = {u, v}
    Default = d
    Garbage = Garbage
    Indices <- MCIndices
    MaxLen = 4
    MaxLiteral = 2
    MaxBlocks = 14
    BaseCapacity = 2
    Pairs = FALSE
    InvalidIsError = FALSE
SYMMETRY MCSymmetry
CHECK_DEADLOCK FALSE
INVARIANTS MemorySafe OwnedOnce
PROPERTY ImplementsLists
