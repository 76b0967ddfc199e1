SPECIFICATION FairSpec
CONSTANTS
    Main = Main
    A = A
    B = B
    C = C
    Gone = Gone
    Nil = Nil
    Files = {Main, A, B, C, Gone}
    Missing = {Gone}
    Programs <- MCPrograms
    Names <- MCNames
    MaxTurns = 2
    EmptyDirectories = TRUE
    Nested = FALSE
CHECK_DEADLOCK FALSE
INVARIANTS AcceptsCorrect InitializedBeforeUse InitAndDisposeOnce
PROPERTY Ends
