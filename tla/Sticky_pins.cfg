CONSTANTS
    k1 = k1
    k2 = k2
    k3 = k3
    p1 = p1
    s1 = s1
    s2 = s2
    b1 = b1
    Local = Local
    None = None
    Keys = {k1, k2, k3}
    Proxies = {p1}
    Sends = {s1, s2}
    Probes = {b1}
    LocalRacing = FALSE
    MaxEntries = 2
    Ttl = 1
    RecheckHits = 1
SPECIFICATION FairSpec
INVARIANTS
    TableInOrder
    LookedAtAgain
PROPERTY DisabledFades
