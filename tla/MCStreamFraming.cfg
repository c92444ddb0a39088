SPECIFICATION FairSpec
CONSTANTS
    SignatureSize = 2
    HeaderSize = 3
    MaxMessages = 3
    MaxPayload = 2
    Wires <- MCWires
INVARIANTS
    DeliveredAsSent
    LostByShortPeekOnly
PROPERTIES
    GetsThrough
CHECK_DEADLOCK FALSE
