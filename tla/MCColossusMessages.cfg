SPECIFICATION MessageSpec
CONSTANTS
    MaxParts = 3
    PartSize = 3
    MaxSectors = 8
    LargestPayload = 26
    MaxPayloadSize = 28
INVARIANTS
    SentAsBuilt
    ReadAsSent
CHECK_DEADLOCK FALSE
