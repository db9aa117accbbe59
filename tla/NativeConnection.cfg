SPECIFICATION Spec
CONSTANTS
    CmdLen = 2
    MsgLen = 1
    MaxSend = 3
    MaxPeer = 2
    MaxPings = 1
INVARIANTS
    StreamComplete
    PeerCloseAnswered
PROPERTIES
    CloseIsBarrier
    
CHECK_DEADLOCK FALSE
