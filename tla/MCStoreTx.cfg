CONSTANTS
    Ids = {a, b}
    IntIds = {a}
    Dims = {1, 2}
    Vals = {v}
    Metrics = {l2}
    None = None
    Modes = {"connect"}
    Verbs = {"tx", "rollback", "checkpoint", "metric"}
    Faults = {"io", "exit", "power", "loss"}
    MaxFrames = 5
    MaxSeq = 6
    MaxGen = 2
SPECIFICATION Spec
INVARIANTS
    SchemaUniform
    Reopenable
PROPERTIES
    AbortUndoesTx
    ImplementsCollection
