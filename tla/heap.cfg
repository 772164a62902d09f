SPECIFICATION MCSpec
CONSTANTS
    HEAP_SIZE = 64
    Span = 64
    Sizes = {7, 8, 16, 24}
    MaxLive = 3
    Stamp = 7
    KernelSizes = {7, 8, 16, 24}
    LoneSizes = {4, 7, 12, 24, 44, 52, 60}
INVARIANTS
    HeapSound
    ContentsKept
    KernelSound
    LoneSound
