SPECIFICATION Spec
CONSTANTS
    r1 = r1
    r2 = r2
    u1 = u1
    u2 = u2
    u4 = u4
    h1 = h1
    h2 = h2
    HostOf <- MCHostOf
    Reqs = {r1, r2}
    Urls = {u1, u2, u4}
    Hosts = {h1, h2}
    DirectHosts = {h2}
    NoReq = NoReq
    NoUrl = NoUrl
    Enabled = TRUE
    MaxEntries = 3
    MaxBytes = 5
    Sizes = {2}
    MaxWrites = 1
SYMMETRY Symmetric
INVARIANTS
    WaitersHaveOwner
    StaleOnlyFromOverlap
    TableExact
