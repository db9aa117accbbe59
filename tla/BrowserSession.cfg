SPECIFICATION Spec
CONSTANTS
    Setups <- Kinds
    OutboundLen = 1
    RecvLen = 1
    AcceptLen = 1
    MaxBatch = 2
    Window = 2
    MaxChunk = 1
    Threshold = 1
    NetLen = 1
INVARIANTS
    PeerAccepts
    HonestPeerTrusted
    PeerToldOrReported
    EndReleasesStreams
PROPERTIES
    WritesResolve
    ShutdownResolves
    FinSurvivesShutdown
CHECK_DEADLOCK FALSE
