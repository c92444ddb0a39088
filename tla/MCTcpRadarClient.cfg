SPECIFICATION Spec
CONSTANTS
    Sockets = {s1, s2, s3}
    Senders = {t1, t2}
    NoSocket = NoSocket
    MaxInbox = 1
    MaxStarts = 2
SYMMETRY SenderSymmetry
INVARIANTS
    StoppedIsQuiet
    HonestState
    SocketsLostOnlyInStop
CHECK_DEADLOCK FALSE
