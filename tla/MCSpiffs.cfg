SPECIFICATION Spec
CONSTANTS
    BlockCount = 5
    MaxEntries = 4
    HdrIxLen = 1
    IxLen = 2
    DataPageSize = 2
    IxFlag = 32
    PagesPerScan = 25
    MaxRestarts = 5
    GcMaxRuns = 5
    Fds = {1, 2}
    Names = {"a", "b"}
    Modes <- MCModes
    PageModes <- MCPageModes
    PagesTried = {1, 3, 5}
    Datas <- MCDatas
    Offsets <- MCOffsets
    Histories <- MCHistories
    Asides = {"rename", "gc", "creat", "gcquick", "fremove", "mount", "check"}
    MaxCalls = 4
    MaxCuts = 0
    NoFile = NoFile
CHECK_DEADLOCK FALSE
INVARIANTS StatsTrue NoGarbledWrite PagesAccounted HandlesTrack
PROPERTIES CheckChangesNothing ImplementsStore
