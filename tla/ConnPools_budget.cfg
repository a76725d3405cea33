SPECIFICATION FairSpec
CONSTANTS
    p1 = p1
    t1 = t1
    t2 = t2
    w1 = w1
    w2 = w2
    Proxies = {p1}
    ProxyList <- MCOneProxy
    Targets = {t1, t2}
    NoTarget = NoTarget
    Prewarmers = {w1, w2}
    Refiller = Refiller
    conn_pool_total = 3
    conn_pool_per_proxy = 4
    conn_pool_refill_target = 1
    cap = 2
    conn_pool_idle_timeout = 1
    cluster_pool_idle_timeout = 1
    MaxConns = 3
INVARIANTS
    BudgetRespected
    StacksKept
    LedgersMatch
    StoppedClean
PROPERTIES
    FreshStealLeavesOne
    StopCompletes
CHECK_DEADLOCK FALSE
