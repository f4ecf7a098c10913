SPECIFICATION FairSpec
CONSTANTS
    b1 = b1
    bd = bd
    Workers = {t1, t2}
    UserJobs <- Retarget
    DonateJobs <- Donation
    NoJob = NoJob
    Commands = {"pause", "pool", "stop"}
    MaxInputs = 3
INVARIANTS
    SequenceNotAhead
PROPERTIES
    CounterFollowsUser
    WorkersCatchUp
CHECK_DEADLOCK FALSE
