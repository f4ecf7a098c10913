SPECIFICATION FairSpec
CONSTANTS
    Admins = {a1}
    Timer = timer
    Commands <- All
INVARIANTS
    RunsTheFile
PROPERTIES
    PolicyObeyed
CHECK_DEADLOCK FALSE
