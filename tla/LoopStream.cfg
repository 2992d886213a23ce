SPECIFICATION MCSpec
CONSTANTS
    PcSize = 3
    IterSize = 3
    Depth = 2
INVARIANTS TypeOK LifoConsistent NoStaleBranch
PROPERTIES LoopStackWhileDisciplined
