CONSTANTS
    Ids = {a}
    IntIds = {a}
    Dims = {1}
    Vals = {v}
    Metrics = {}
    None = None
    Modes = {"open", "connect"}
    Verbs = {"checkpoint", "checkpoint_empty"}
    Faults = {"exit"}
    MaxFrames = 5
    MaxSeq = 6
    MaxGen = 2
SPECIFICATION Spec
INVARIANTS
    Reopenable
