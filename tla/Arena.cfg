SPECIFICATION Spec
CONSTANTS
    DefaultChunkSize = 8
    Sizes = {0, 1, 3, 4, 9}
    Aligns = {0, 1, 2, 4}
    SizeMod = 64
    MaxChunks = 3
    MaxBlocks = 4
INVARIANTS
    BlocksInUsedPart
    BlocksDisjoint
    BlocksAligned
CHECK_DEADLOCK FALSE
