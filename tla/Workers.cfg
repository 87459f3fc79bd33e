SPECIFICATION MCSpec
CONSTANTS
    Cases = {"outbox", "prompt", "late", "held", "lapsing"}
    m1 = m1 m2 = m2
    Messages = {m1, m2}
    r1 = r1 r2 = r2
    Relays = {r1, r2}
    t1 = t1 t2 = t2 t3 = t3
    Tokens = {t1, t2, t3}
    NoToken = NoToken
    NoMessage = NoMessage
    Limit = 2
    MaxAttempts = 2
    Lease = 1
    Backoff <- ShortBackoff
    TimersOnTime = FALSE
    HandlerStops = FALSE
    MaxCrashes = 1
    MaxFailures = 2
    MaxReplays = 1
    Workers = {r1, r2}
    Jobs = {m1, m2}
    LateJobs = {j1}
    j1 = j1
    None = None
    RetryDelay = 1
    MaxPasses = 2
    Bills = {b1}
    b1 = b1
    People = {p1}
    p1 = p1
    Nobody = Nobody
SYMMETRY Symmetry
CHECK_DEADLOCK FALSE
INVARIANTS TypesOK SavedOnce ClaimsAreSound BillsTellTheTruth
PROPERTIES OnlyOwnerReleases SlotsRunOnce KeepsDeliveryPromise
