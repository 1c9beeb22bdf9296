CONSTANTS
    Ids = {a}
    IntIds = {a}
    Dims = {1}
    Vals = {v}
    Metrics = {}
    None = None
    Modes = {"open"}
    Verbs = {"overwrite", "rollback"}
    Faults = {"exit"}
    MaxFrames = 5
    MaxSeq = 6
    MaxGen = 2
SPECIFICATION Spec
INVARIANTS
    ViewIsReplay
