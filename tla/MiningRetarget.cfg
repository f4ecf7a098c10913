SPECIFICATION FairSpec
CONSTANTS
    b1 = b1
    bd = bd
    Workers = {t1}
    UserJobs <- Retarget
    DonateJobs <- Donation
    NoJob = NoJob
    Commands = {}
    MaxInputs = 3
PROPERTIES
    SameBlobContinues
CHECK_DEADLOCK FALSE
