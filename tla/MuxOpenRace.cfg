SPECIFICATION Spec
CONSTANTS
    Setups <- Shared
    AcceptLen = 2
INVARIANTS
    MonotonicOpens
CHECK_DEADLOCK FALSE
