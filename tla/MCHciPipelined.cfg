CONSTANTS
    ByteBase <- MCByteBase
    Depth <- MCDepth
    RxClks <- MCPipelinedRxClks
    TxClks <- MCTxClks
    CpuAddrs <- MCCpuAddrs
    VramAddrs <- MCVramAddrs
    Packets <- MCRequests
    MaxPackets = 3
    Pipelined = TRUE
    BrkEnabled = FALSE
SPECIFICATION Spec
PROPERTY PacketsComplete
