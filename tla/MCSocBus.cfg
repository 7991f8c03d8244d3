SPECIFICATION FairSpec
CONSTANTS
    Ports <- MCPorts
    PageWords = 8
    CntBase = 4
    Bursts <- MCBursts
    MaxAccepted = 2
INVARIANTS OneAnswerOwed Beats
PROPERTIES BurstsDoNotOverlap BurstsAnswered
