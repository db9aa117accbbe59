SPECIFICATION Spec
CONSTANTS
    Frames = {}
    MaxFrames = 0
    Foreign <- ForeignMessages
    UsizeBytes = 4
INVARIANTS
    LengthPresent
CHECK_DEADLOCK FALSE
