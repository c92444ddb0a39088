SPECIFICATION FairSpec
CONSTANTS
    Requests = {"contour", "off"}
    HandlerAsks = {"plain", "none"}
    Handlers = {"config", "fft", "rawFft"}
    MaxQueue = 1
    MaxSessions = 2
    MaxLinks = 2
INVARIANTS
    AngleOfOwnEncoder
    UnboundHandlerRests
    StreamsAsRemembered
PROPERTIES
    StreamResumes
