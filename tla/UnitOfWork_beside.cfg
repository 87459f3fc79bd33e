SPECIFICATION MCSpec
CONSTANTS
    Cases = {"pool"}
    u1 = u1 u2 = u2 v1 = v1 v2 = v2
    Units = {u1, u2, v1, v2}
    Beside = {v1, v2}
    a = a b = b
    Companies = {a, b}
    None = None
    PoolSize = 5
    MaxWrites = 2
    MaxNested = 2
    r1 = r1 g1 = g1 e = e f = f
    Requests = {r1, g1}
    Readers = {g1}
    DurableCompanies = {e, f}
    k1 = k1 k2 = k2
    Keys = {k1, k2}
    Values = {v1, v2}
    MaxSets = 2
    Alone = TRUE
    ReloadFails = FALSE
    o1 = o1
    Actions = {r1, o1, g1}
    Lookers = {g1}
    Elsewhere = {o1}
    Batch = 1
    MaxVersions = 3
    ConnectionsEnd = FALSE
INVARIANTS NeverAllWaiting
