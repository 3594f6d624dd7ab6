SPECIFICATION FairSpec
CONSTANTS
    Threads = {t1, t2, t3}
    Keys = {k1, k2}
    InitCap = 1
    GHOSTS_MIN_CAPACITY = 1
    Modes = {"OPTIMAL_SIZE"}
    Limits <- MCLimits
    MayThrow = TRUE
    NoFrame = NoFrame
    Unlimited = 2
INVARIANTS LockAccounting SingleFlight NotificationPending ListCoherent
PROPERTIES AvailableIsStable WaiterServed
