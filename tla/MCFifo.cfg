CONSTANTS
    Depth <- MCDepth
    Data <- MCData
SPECIFICATION Spec
INVARIANTS
    FlagsSafe
    OneSideOpen
PROPERTIES
    FlagsRecover
    ImplementsQueue
