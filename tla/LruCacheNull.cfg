SPECIFICATION Spec
CONSTANTS
    Threads = {t1, t2, t3}
    Keys = {k1}
    InitCap = 1
    GHOSTS_MIN_CAPACITY = 1
    Modes = {"FAST_START"}
    Limits <- MCNoLimits
    MayThrow = TRUE
    NoFrame = NoFrame
    Unlimited = 2
INVARIANT FoundIsReady
