SPECIFICATION FairSpec
CONSTANTS
    User = user
    PoolThreads = {p1, p2}
    MaxSockets = 3
    MaxCalls = 2
    MaxFailures = 1
    MaxLosses = 1
INVARIANTS
    OneConnection
    DisconnectHolds
    QuietIsConnected
PROPERTIES
    KeepsTrying
CHECK_DEADLOCK FALSE
