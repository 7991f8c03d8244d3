CONSTANTS
    ByteBase <- MCByteBase
    Depth <- MCDepth
    RxClks <- MCRxClks
    TxClks <- MCTxClks
    CpuAddrs <- MCCpuAddrs
    VramAddrs <- MCVramAddrs
    Packets <- MCPackets
    MaxPackets = 3
    Pipelined = FALSE
    BrkEnabled = TRUE
SPECIFICATION Spec
INVARIANTS
    RepliesRight
    QuietMeansDone
PROPERTIES
    NoByteDropped
    PpuDisableWorks
    PacketsComplete
