SPECIFICATION FairSpec
CONSTANTS
    Proxies = {p1, p2}
    Domains = {d1}
    NoDomain = NoDomain
    Threshold = 1
    Base = 1
    MaxBackoff = 2
    SlowWindow = 1
    SlowSuccess = 1
    DeadWindow = 1
    DeadProxies = 2
    MaxDomains = 1
    Limiting = TRUE
    LimitMin = 1
    LimitInitial = 2
    LimitMax = 2
    LimitAdd = 2
    LimitWindow = 1
    MaxAttempts = 1
INVARIANTS
    IdleAdmitted
    FewChargedPerTarget
PROPERTIES
    NeverRenewed
    ComesBack
