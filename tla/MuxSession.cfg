SPECIFICATION StalledSpec
CONSTANTS
    Callers = {c1, c2}
    OutboundLen = 1
    MaxBatch = 2
    MaxFrames = 1
INVARIANTS
    ReturnMeansDone
    BarriersHold
    NothingStranded
PROPERTIES
    ShutdownReturns
    TasksEnd
CHECK_DEADLOCK FALSE
