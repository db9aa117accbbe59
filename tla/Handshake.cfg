SPECIFICATION Spec
CONSTANTS
    Mux = mux
    Others = {chat}
    None = None
    MaxProtocols = 2
INVARIANTS
    MuxNegotiated
CHECK_DEADLOCK FALSE
