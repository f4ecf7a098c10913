SPECIFICATION FairSpec
CONSTANTS
    s1 = s1
    s2 = s2
    rx0 = rx0
    rxw = rxw
    cn = cn
    p1 = p1
    p2 = p2
    Seeds = {s1, s2}
    NoSeed = NoSeed
    NoJob = NoJob
    NoThreads = NoThreads
    Jobs <- MCJobs
    l3 <- MCL3
    Profiles = {p1, p2}
    Commands = {"stop", "reload"}
INVARIANTS
    ThreadsFitJob
    CountsReasons
    PausedMeansQuiet
    JobIsLaunched
PROPERTIES
    JobGetsHashed
    AutoPauseEnds
CHECK_DEADLOCK FALSE
