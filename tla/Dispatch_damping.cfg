CONSTANTS
    p1 = p1
    p2 = p2
    r1 = r1
    r2 = r2
    r3 = r3
    c1 = c1
    d1 = d1
    Local = Local
    None = None
    Proxies = {p1, p2}
    Domains = {d1}
    Allowed = {p1, p2}
    Loaded = {p1}
    Configs <- SomeConfigs
    Clients = {c1}
    Requests = {r1, r2, r3}
    Protos = {"ws"}
    MaxRetries = 1
    MinWins = 3
    MinFails = 2
    ProveWindow = 1
    DeadTtl = 1
    MarkTtl = 1
SYMMETRY RequestSymmetry
SPECIFICATION Spec
INVARIANT WinsSwitch
CHECK_DEADLOCK FALSE
