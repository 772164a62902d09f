SPECIFICATION FairSpec
CONSTANTS
    FRAME_SIZE = 2
    BITS_PER_BYTE = 2
    StaleBits = 1
    Sizes = {1, 3}
    MemMaps <- CoveredMaps
INVARIANTS
    TypeOK
    FrameInv
PROPERTIES
    ImplementsFrameAllocator
    FirstNullMeansNone
    ContigNullMeansNone
    SearchesEnd
