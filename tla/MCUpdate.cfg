SPECIFICATION FairSpec
CONSTANTS
    LibFiles = {runtime, mainO, stdlib, header}
    DudenFiles = {Listen}
    Archive = {runtime, mainO, stdlib, Listen}
    Runtime = runtime
    MainO = mainO
    Stdlib = stdlib
    Versions <- MCVersions
CHECK_DEADLOCK FALSE
INVARIANTS SuccessMeansInstalled LibraryFollowsBinary
PROPERTY CommandEnds
