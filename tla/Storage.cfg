SPECIFICATION FairSpec
CONSTANTS
    QD = 2
    SectorCount = 3
    SecPerXfer = 2
    Data <- MCData
    Serial = "xasmos"
    Requests <- MCRequests
    TimeoutOps <- MCAllWaits
    MaxRequests = 2
    MaxErrors = 1
    MaxTimeouts = 20
    RegMod = 512
    Devs = 3
    Fns = 2
    PCI_MAX_DEVICES = 5
    EndpointBars = 3
    BridgeBars = 2
    Machines <- MCMachines
    Frame = 32
    Huge = 64
    XPT_MMIO_BASE = 384
    FOUR_GIB = 512
    PML4_SPAN = 2048
    WindowPages = 8
    XPT_MMIO_MAX_PAGES = 4
    PtPages = 2
    PdPages = 4
    FrameCounts = {1, 2, 9}
    QueueFrames = 5
    MaxScans = 2
CHECK_DEADLOCK FALSE
INVARIANTS TransfersExact RingsInStep ScanInvisible ScanExact RegistersAreTheBar
PROPERTY RequestsReturn
