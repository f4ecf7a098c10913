SPECIFICATION FairSpec
CONSTANTS
    b1 = b1
    bd = bd
    Workers = {t1}
    UserJobs <- OneBlob
    DonateJobs <- Nothing
    NoJob = NoJob
    Commands = {"pause", "stop"}
    MaxInputs = 4
PROPERTIES
    StopEnds
CHECK_DEADLOCK FALSE
