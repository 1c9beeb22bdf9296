CONSTANTS
    Exact = 4
    MaxInt = 7
    Floats <- SecondFloats
    EvenFloats <- EvenSecondFloats
    Inf = 20
    MaxTokens = 11
    MaxLeaf = 8
    MaxHalf = 20
    MaxBuilt = 2
    Inputs <- MCBuilder
    Ranges <- MCRanges
SPECIFICATION Spec
CHECK_DEADLOCK FALSE
INVARIANTS
    RangesAreIntervals
