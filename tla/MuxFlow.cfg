SPECIFICATION LiveSpec
CONSTANTS
    InitialWindow = 2
    UpdateThreshold = 2
    MaxFrame = 2
    MaxChunk = 2
    OutboundLen = 1
    RecvEventLen = 2
    VarIntMax = 10
    TotalBytes = 3
    MaxResets = 1
INVARIANTS
    TypeOK
    NoSpuriousError
    WindowBound
    CreditMonotonic
    NoDataAfterTerminal
PROPERTIES
    IsByteStream
    WriterResolves
    StoppedIsReleased
    EndReachesReader
CHECK_DEADLOCK FALSE
