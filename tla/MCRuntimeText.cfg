SPECIFICATION Spec
CONSTANTS
    Slots = {x, y, t}
    Unset = Unset
    Chars <- MCChars
    Indices <- MCIndices
    Garbage <- MCGarbage
    MaxLen = 3
    MaxBlocks = 5
    Narrowing = FALSE
CHECK_DEADLOCK FALSE
INVARIANTS MemorySafe OwnedOnce CapIsExact
PROPERTY ImplementsTexts
