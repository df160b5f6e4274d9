SPECIFICATION Spec
CONSTANTS
    o1 = o1  o2 = o2
    RamFrames <- MCFrames
    KernelTable = 99
    Fan = 2
    KernelHalf = 2
    Owners = {o1, o2}
    NSlots = 5
    GenMod = 3
    MaxMap = 2
    NRecs = 5
    OwnerRecs = 3
    ListMax = 2
    Images <- MCImages
    RawImages <- MCRawImages
    EXB_HEADER_SIZE = 2
    EXB_SEG_SIZE = 1
    EXB_CAP_SIZE = 1
    EXB_PAGE = 2
    EXB_MAX_FILE = 10
    EXB_MAX_SEGS = 3
    EXB_MAX_CAPS = 2
    EXB_MAX_IMAGE_PAGES = 3
    EXB_DEFAULT_STACK_PAGES = 1
    EXB_MAX_STACK_PAGES = 2
    EXB_MAX_HEAP_REQUEST = 4
    EXB_MAX_TOKEN_REQUEST = 4
    EXB_VA_MIN = 16
    EXB_VA_LIMIT = 26
    Sizes <- MCSizes
    RightSets <- MCRightSets
    PermSets <- MCPermSets
    Vas <- MCVas
    DefaultQuota <- MCDefault
    Quotas <- MCQuotas
    MaxCalls = 3
SYMMETRY MCSymmetry
INVARIANTS ParserExact FramesAccounted TablesMatchRecords NoStaleTranslation
PROPERTIES QuotaHeld ReapLeavesNothing FailedLoadLeavesNothing
