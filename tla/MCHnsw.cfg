CONSTANTS
    Directions = {0, 1, 3}
    NoDirection = 99
    Vector <- MCVector
    Dist <- MCDist
    Scorable <- MCScorable
    M = 1
    M0 = 2
    EfConstruction = 2
    EfSearch = 2
    SmallSet = 1
    MaxNodes = 4
    MaxLevel = 1
    MaxK = 1
SPECIFICATION FairSpec
INVARIANTS
    LayersReached
    EntryOnTop
    DegreesBounded
    CutListsAreFull
    NoDeadEnds
    BeamKeepsClosest
    WideBeamIsExact
PROPERTIES
    CallsReturn
