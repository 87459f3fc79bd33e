SPECIFICATION FairSpec
CONSTANTS
    Cases = {"outbox", "ledger", "units", "memory", "masters", "schedule"}
    k1 = k1 k2 = k2
    Keys = {k1, k2}
    None = None
CHECK_DEADLOCK FALSE
PROPERTIES EventuallyDone EveryoneAnswered
