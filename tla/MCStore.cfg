CONSTANTS
    Ids = {a, b}
    IntIds = {a, b}
    Dims = {1, 2}
    Vals = {v}
    Metrics = {}
    None = None
    Modes = {"open", "connect"}
    Verbs = {"overwrite", "delete", "checkpoint"}
    Faults = {"io", "exit", "power", "loss"}
    MaxFrames = 5
    MaxSeq = 6
    MaxGen = 2
SPECIFICATION Spec
SYMMETRY IdSymmetry
INVARIANTS
    TypeOK
    ReadPathsAgree
    ViewIsReplay
    CrashRecovers
    ReopenEquivalence
    ManifestHonest
    AutocommitDurable
PROPERTIES
    ImplementsCollection
