SPECIFICATION Spec
CONSTANTS
    NInodes = 3
    PoolExt = 6
    PoolMinCap = 1
    FormatNodes = 1
    Extents <- MCExtents
    Zero = "zero"
    Lists <- MCLists
    Disks <- MCDisks
INVARIANTS ListsIntact SlicesExact RefusedOnlyWhenFull
