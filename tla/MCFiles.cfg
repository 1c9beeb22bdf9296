CONSTANTS
    Base = 8
    W16 = 1
    W32 = 2
    W64 = 1
    None = None
    BuiltIds <- MCBuiltIds
    Vectors <- MCVectors
    Texts <- MCTexts
    Metas <- MCMetas
    Stock <- MCStock
    MaxMeta = 2
    MaxFrames = 4
    MaxBatch = 2
    MaxSeq = 3
SPECIFICATION Spec
CHECK_DEADLOCK FALSE
INVARIANTS
    EncodedDecodes
    SealedWholeOrRefused
    DamagedLogIsPrefix
    DamageShows
