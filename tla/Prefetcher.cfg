SPECIFICATION MCFairSpec
CONSTANTS
    Consumers = {c1, c2}
    Jobs = {j1, j2, j3}
    Workers = {w1}
    nPrefetchFrames = 1
    num_frames = 2
    QueueCapacity = 1
    Strides <- MCStrides
    NoJob = NoJob
    Threads <- MCThreads
    Keys <- MCKeys
    InitCap <- MCInitCap
    GHOSTS_MIN_CAPACITY = 1
    Modes <- MCModes
    Limits <- MCNoLimits
    MayThrow = TRUE
    NoFrame = NoFrame
    Unlimited = 9
INVARIANTS WorkersCounted PrefetchBound NoOrphanEntry
PROPERTIES UsesLruCache GetFrameEnds
