CONSTANTS
    Payload = {p1, p2}
    NoPayload = NoPayload
    MaxFrames = 5
    MaxSeq = 6
    RetryCommit = FALSE
SPECIFICATION Spec
SYMMETRY PayloadSymmetry
INVARIANTS
    TypeOK
    RecoveryAccepts
    AckedRecoverable
PROPERTIES
    AckedImmutable
    ImplementsDurableLog
