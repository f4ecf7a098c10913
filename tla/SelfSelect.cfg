SPECIFICATION SelfFairSpec
CONSTANTS
    Jobs = {j1, j2, j3}
    Templates = {t1, t2, t3}
    None = None
    Retries = 1
    Origin = TRUE
    MaxAge = 2
INVARIANTS
    JobIsOwed
    TemplateFitsJob
    GivenWhenOpen
PROPERTIES
    JobIsCompleted
CHECK_DEADLOCK FALSE
