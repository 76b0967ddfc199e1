\* Pipes of two bytes, read two at a time, and every child of up to five
\* reads and writes.
SPECIFICATION FairSpec
CONSTANTS
    PipeSize = 2
    BUFF_SIZE = 2
    MaxScript = 5
    MaxInput = 3
    ExitCodes = {0, 1}
    WindowsReuse = FALSE
    MaxBlocks = 4
    Garbage = Garbage
CHECK_DEADLOCK FALSE
INVARIANTS MemorySafe OutputComplete NothingLeft ErrorsOnly
PROPERTY ReturnsIfFits
