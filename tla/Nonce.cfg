SPECIFICATION Spec
CONSTANTS
    Threads = {t1, t2}
    Indices = {0}
    Masks = {3, 7}
    Reserves = {0, 2, 3}
    Word = 4
    MaxCounter = 6
    MaxEpoch = 1
SYMMETRY Symmetric
INVARIANTS
    NoNonceTwice
    ChunkFits
    EndIsAnnounced
CHECK_DEADLOCK FALSE
