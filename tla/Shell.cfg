SPECIFICATION Spec
CONSTANTS
    Components <- MCComponents
    Operands <- MCOperands
    FormatNames <- MCFormatNames
    Images <- MCImages
    EarlierDisks <- MCEarlierDisks
    NInodes = 3
    DevMax = 8
    MaxGen = 2
    MaxOps = 2
    MaxDepth = 2
INVARIANTS OneShotReturns ServiceExact
PROPERTIES CwdStands NothingDropped
