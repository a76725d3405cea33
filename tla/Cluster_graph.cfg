CONSTANTS
    c1 = c1
    c2 = c2
    t1 = t1
    t2 = t2
    t3 = t3
    Clients = {c1}
    Targets = {t1, t2, t3}
    MaxEntries = 3
    TopK = 1
    MinSupport = 2
    Window = 1
    Throttle = 2
    Ttl = 1
SYMMETRY Symmetric
SPECIFICATION Spec
INVARIANTS
    IndexExact
PROPERTIES
    LearntWhole
    PredictedSparingly
