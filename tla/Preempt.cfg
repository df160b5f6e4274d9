SPECIFICATION FairSpec
CONSTANTS
    p1 = p1  p2 = p2
    Programs <- MCPrograms
    LoopLen = 2
    LogMax = 1
INVARIANTS RunIsolated ContextsIntact
PROPERTIES PreemptedByOwnTick RunsEnd
