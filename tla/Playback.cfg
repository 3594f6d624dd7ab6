SPECIFICATION PlaybackSpec
CONSTANTS
    PATTERN_LOCK_LENGTH = 3
    clip_frames = 12
    Steps <- MCSteps
    MaxRun = 3
    SourceFrames = 3
    SourceSamples = 6
    Spf <- MCSpf
    Numbers <- MCNumbers
    MaxArgs = 3
    MaxOffsets = 2
    MaxTimes = 3
    Forever = 9
    MaxEdits = 2
    Threads = {t1, t2}
    Keys = {k1, k2, k3}
    InitCap = 1
    GHOSTS_MIN_CAPACITY = 1
    Modes = {"OPTIMAL_SIZE"}
    Limits <- MCLimits
    MayThrow = TRUE
    NoFrame = NoFrame
    Unlimited = 2
SYMMETRY MCSymmetry
INVARIANTS TrackerTypeOK FramesAsDocumented AudioAsDocumented
PROPERTIES LockFollowsRequests GrowthAfterEvictions SizeBound
