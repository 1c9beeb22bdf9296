CONSTANTS
    Ids = {1}
    IntIds = {1}
    Dims = {1}
    Vals <- MCVals
    Metrics = {}
    None = None
    Modes = {"open"}
    Verbs = {"delete", "checkpoint"}
    Faults = {}
    MaxFrames = 5
    MaxSeq = 7
    MaxGen = 2
    Exact = 0
    MaxInt = 0
    Floats <- SecondFloats
    EvenFloats <- EvenSecondFloats
    Inf = 8
    Lower <- MCLower
    MaxK = 3
SPECIFICATION Spec
INVARIANTS
    SearchMatchesOracle
