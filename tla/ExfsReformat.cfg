SPECIFICATION Spec
CONSTANTS
    Total = 15
    GB = 10
    DataStart = 6
    CacheSize = 2
    MaxFaults = 0
    ForgetFaults = FALSE
    NInodes = 2
    ITabBlocks = 2
    Inl = 1
    IndExt = 1
    MaxExt = 3
    MaxChain = 2
    DeferMax = 4
    PoolExt = 4
    PoolMinCap = 1
    Cells = 2
    Names <- MCOneFile
    FormatNames <- MCFormatNames
    WriteArgs <- MCWriteArgs
    WriteAtArgs <- MCWriteAtArgs
    MaxGen = 4
    MaxOps = 3
    MaxFormats = 2
    VolatileCache = FALSE
    SbReadFaults = FALSE
CHECK_DEADLOCK FALSE
INVARIANT SyncedIsDurable
