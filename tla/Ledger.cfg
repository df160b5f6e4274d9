SPECIFICATION Spec
CONSTANTS
    o1 = o1  o2 = o2  c1 = c1  c2 = c2  m1 = m1  m2 = m2
    TotalFrames = 5
    HugeFrames = 2
    LowFrames = 1
    MemMap <- MCMemMap
    Fb <- MCFb
    NSlots = 2
    GenMod = 3
    MaxMap = 1
    Owners = {o1, o2}
    RightSets <- MCRightSets
    Sizes <- MCOneSize
    CPUs = {c1, c2}
    MapIds = {m1, m2}
SYMMETRY MCSymmetry
INVARIANTS TypeOK NoDoubleUse NoLeak CountersExact NoForeignBytes MappingsPinTheirToken StaleTokensStayDead
PROPERTY TokensAreImmutable
