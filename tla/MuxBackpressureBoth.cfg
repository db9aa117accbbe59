SPECIFICATION Spec
CONSTANTS
    OutboundLen = 1
    WireLen = 1
    MaxData = 2
    MaxStops = 1
    MaxOpens = 1
PROPERTIES
    StopsAnswered
CHECK_DEADLOCK FALSE
