SPECIFICATION FairSpec
CONSTANTS
    Sockets = {s1, s2}
    Senders = {t1, t2}
    NoSocket = NoSocket
    MaxInbox = 1
    MaxStarts = 1
PROPERTIES
    ThreadsGoOn
    FirstSessionGetsConfiguration
CHECK_DEADLOCK FALSE
