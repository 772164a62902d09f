SPECIFICATION Spec
CONSTANTS
    Size = 4
    MaxChar = 2
    MaxNumber = 300
    Formats <- SomeFormats
    Span = 32
    LongSpan = 1024
    Multiples <- Powers
    Channels <- SomeChannels
    FrameBuffers <- SomeFrameBuffers
CHECK_DEADLOCK FALSE
INVARIANTS
    WritesExact
    Comparisons
    PrintedRight
    MasksRight
