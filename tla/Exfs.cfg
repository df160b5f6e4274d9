SPECIFICATION Spec
CONSTANTS
    Total = 15
    GB = 10
    DataStart = 6
    CacheSize = 1
    MaxFaults = 1
    ForgetFaults = FALSE
    NInodes = 2
    ITabBlocks = 2
    Inl = 1
    IndExt = 1
    MaxExt = 3
    MaxChain = 2
    DeferMax = 3
    PoolExt = 4
    PoolMinCap = 1
    Cells = 2
    Names <- MCDirAndFile
    FormatNames <- MCFormatNames
    WriteArgs <- MCWriteArgs
    WriteAtArgs <- MCWriteAtArgs
    MaxGen = 3
    MaxOps = 4
    MaxFormats = 1
    VolatileCache = FALSE
    SbReadFaults = FALSE
CHECK_DEADLOCK FALSE
INVARIANTS TypeOK MapExact DurableFsck SyncedIsDurable
PROPERTIES TransactionalStore CallsEnd
