SPECIFICATION FairSpec
CONSTANTS
    Seeds = {s1, s2, s3}
    NoSeed = NoSeed
    MaxQueue = 3
INVARIANTS
    ReadyIsBuilt
    PendingIsOwed
    NoLostWakeup
    FreedWhilePending
    NoLostNotice
PROPERTIES
    ImplementsService
    JobIsServed
    ShutdownEnds
CHECK_DEADLOCK FALSE
