SPECIFICATION Spec
CONSTANTS
    Frames <- EdgeFrames
    MaxFrames = 2
    Foreign = {}
    UsizeBytes = 4
INVARIANTS
    DecodedAsSent
    RejectedIffCut
CHECK_DEADLOCK FALSE
