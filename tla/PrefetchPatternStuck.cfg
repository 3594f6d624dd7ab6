SPECIFICATION TrackerSpec
CONSTANTS
    PATTERN_LOCK_LENGTH = 3
    clip_frames = 20
    Steps <- MCForward
    MaxRun = 8
INVARIANT RepetitionIsFound
