SPECIFICATION BoardSpec
CONSTANTS
    Buttons = 3
    BitClks = 8
    Snapshots <- MCSnapshots
    PageLen = 3
    LastPhase = 3
    Pages <- MCPages
    Bytes <- MCBytes
    Cycles <- MCCycles
INVARIANTS TypesOK TornOnce ReadsInOrder
PROPERTIES
    SteadyArrives CopiedBeforeNextCycle ExecutedOnce CopyEnds
    NmiOnlyOnce NmiServed HltBreaksOnce
