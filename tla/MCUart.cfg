CONSTANTS
    SysClkFreq <- MCSysClkFreq
    BaudRate <- MCBaudRate
    Oversample <- MCOversample
    DataBits <- MCDataBits
    Modes <- MCModes
    Payload <- MCPayload
    BitClks <- MCBitClks
    MaxQueue = 2
SPECIFICATION Spec
INVARIANT FramesExact
PROPERTY Delivered
