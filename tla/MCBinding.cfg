CONSTANTS
    Ids = {0, 1, 2, 3}
    IntIds = {0, 1, 2}
    Dims = {1, 2}
    Vals <- MCVals
    Metrics = {"l2", "cosine"}
    None = None
    Modes = {"open", "connect"}
    Verbs = {"overwrite", "delete", "metric", "rollback", "checkpoint"}
    Faults = {"exit"}
    MaxFrames = 4
    MaxSeq = 5
    MaxGen = 1
    Exact = 2
    MaxInt = 3
    Floats <- SecondFloats
    EvenFloats <- EvenSecondFloats
    Inf = 16
    Lower <- MCLower
    MaxK = 3
    Clients <- MCClients
    Wheres <- MCWheres
    TextQueries <- MCTextQueries
SPECIFICATION BindingSpec
INVARIANTS
    SearchMatchesWhenDisjoint
    FilterBindsEveryPath
    AnswersIgnoreTiers
    FusionRespectsPaths
PROPERTIES
    BatchAppliesPrefix
    MetricFixed
