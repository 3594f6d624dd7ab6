SPECIFICATION Spec
CONSTANTS
    Modes <- MCModes
    Origins = {"forced", "default"}
    PoolSizes = {1, 2}
    MaxFilters = 2
    MaxDepth = 3
    MaxThreads = 4
INVARIANTS OneThreadPerInstance ModeCoversInner NobodyStuck
PROPERTY ArrayNotInUse
