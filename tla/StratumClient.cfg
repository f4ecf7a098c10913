SPECIFICATION FairSpec
CONSTANTS
    Sockets = {s1, s2}
    NoSocket = NoSocket
    KeepAlive = TRUE
    MaxRedirects = 1
INVARIANTS
    LossIsAnnounced
    OneSocket
    AnEventIsDue
PROPERTIES
    ActsAsClient
    KeepsTrying
    SilentPoolIsLeft
CHECK_DEADLOCK FALSE
