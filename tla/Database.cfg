SPECIFICATION MCSpec
CONSTANTS
    Cases = {"units", "pool", "memory", "masters", "tax", "resend", "upload", "shared", "hasty"}
    u1 = u1 u2 = u2 u3 = u3 u4 = u4
    Units = {u1, u2, u3, u4}
    Beside = {}
    a = a b = b
    Companies = {a, b}
    None = None
    PoolSize = 2
    MaxWrites = 2
    MaxNested = 2
    r1 = r1 g1 = g1 e = e f = f
    Requests = {r1, g1}
    Readers = {g1}
    DurableCompanies = {e, f}
    k1 = k1 k2 = k2
    Keys = {k1, k2}
    v1 = v1
    Values = {v1}
    MaxSets = 2
    Alone = TRUE
    ReloadFails = FALSE
    o1 = o1
    Actions = {r1, o1, g1}
    Lookers = {g1}
    Elsewhere = {o1}
    Batch = 1
    MaxVersions = 3
    ConnectionsEnd = FALSE
SYMMETRY UnitSymmetry
INVARIANTS TypesOK NobodySavesBetween ToldTheTruth NeverAllWaiting WhatIsKeptIsSound BillsAddUp
