CONSTANTS
    Files <- MCFiles
    PrgBank = 2
    ChrBank = 2
    HaveControllers = TRUE
    MaxLink = 2
SPECIFICATION Spec
INVARIANTS
    TypeOK
    InSync
    NoWriteWhileRendering
PROPERTIES
    EveryFileComesUp
    RunsOnlyLoaded
    NextOnlyOnPress
