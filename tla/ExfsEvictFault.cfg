SPECIFICATION Spec
CONSTANTS
    Total = 15
    GB = 10
    DataStart = 6
    CacheSize = 1
    MaxFaults = 1
    ForgetFaults = TRUE
    NInodes = 2
    ITabBlocks = 2
    Inl = 1
    IndExt = 1
    MaxExt = 3
    MaxChain = 2
    DeferMax = 4
    PoolExt = 4
    PoolMinCap = 1
    Cells = 2
    Names <- MCOneFile
    FormatNames <- MCFormatNames
    WriteArgs <- MCWriteArgs
    WriteAtArgs <- MCWriteAtArgs
    MaxGen = 2
    MaxOps = 4
    MaxFormats = 1
    VolatileCache = FALSE
    SbReadFaults = FALSE
CHECK_DEADLOCK FALSE
INVARIANT DurableFsck
