SPECIFICATION MCSpec
CONSTANTS
    Threads = {t1, t2}
    MaxFrames = 3
    MaxBufs = 2
    Requests = {3000, 5000}
    memory_max = 8000
    free_thresh = 0
    Cache = Cache
SYMMETRY MCSymmetry
INVARIANTS RefCounts ExclusiveWriter RegistryComplete
PROPERTY PropertiesAreStable
