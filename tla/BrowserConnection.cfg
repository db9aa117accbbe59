SPECIFICATION Spec
CONSTANTS
    Buffer = 2
    MaxWriteBuffer = 2
    MaxMessages = 6
INVARIANTS
    NoDanglingCallback
    NoGap
    SocketFollowsOwner
    CloseMeansClosed
PROPERTIES
    CloseResolves
CHECK_DEADLOCK FALSE
