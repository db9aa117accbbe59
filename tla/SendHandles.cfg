SPECIFICATION LiveSpec
CONSTANTS
    Handles = {h1, h2}
    OutboundLen = 1
    MaxCredit = 2
    MaxOut = 3
    None = None
INVARIANTS
    DirectCallsSerialized
    CreditConserved
PROPERTIES
    DirectWriterReleased
    PolledWriterReleased
CHECK_DEADLOCK FALSE
