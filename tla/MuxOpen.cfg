SPECIFICATION Spec
CONSTANTS
    Setups <- Separate
    AcceptLen = 1
INVARIANTS
    TerminalsMayCross
    NoOrphans
    SlotsSuffice
CHECK_DEADLOCK FALSE
