SPECIFICATION FairSpec
CONSTANTS
    UserPools = {0, 1}
    DonatePools = {0}
    Retries = 2
    ProxyDonate = "auto"
    Nobody = Nobody
INVARIANTS
    OnlyActiveLoggedIn
    WorkIsLive
    TimerLeadsOn
    SharesGoHome
PROPERTIES
    UsesPoolClients
    AnyPoolServes
CHECK_DEADLOCK FALSE
