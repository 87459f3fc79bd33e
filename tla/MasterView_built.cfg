SPECIFICATION MCSpec
CONSTANTS
    Cases = {"masters"}
    u1 = u1 u2 = u2 u3 = u3 u4 = u4
    Units = {u1, u2, u3, u4}
    Beside = {}
    a = a b = b
    Companies = {a, b}
    None = None
    PoolSize = 2
    MaxWrites = 2
    MaxNested = 2
    r1 = r1 g1 = g1 a1 = a1 a2 = a2 e = e f = f
    Requests = {r1, g1}
    Readers = {g1}
    DurableCompanies = {e, f}
    k1 = k1 k2 = k2
    Keys = {k1, k2}
    v1 = v1 v2 = v2
    Values = {v1, v2}
    MaxSets = 2
    Alone = TRUE
    ReloadFails = FALSE
    o1 = o1
    Actions = {a1, a2}
    Lookers = {}
    Elsewhere = {}
    Batch = 1
    MaxVersions = 3
    ConnectionsEnd = FALSE
INVARIANTS BuiltOnSaved
