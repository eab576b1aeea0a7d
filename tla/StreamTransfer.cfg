CONSTANTS
    Modes = {"read", "write"}
    Buffers = {1, 2, 3, 4}
    MaxBuffer = 3
    Chunk = 2
    Totals = {0, 1, 2, 3, 4, 7}
    MaxForeign = 2
SPECIFICATION FairSpec
INVARIANTS
    TypeOK
    NothingLostOrReordered
    WindowKept
    NoNeedlessTimeout
PROPERTIES
    EveryTransferEnds
