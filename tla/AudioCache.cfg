SPECIFICATION MCSpec
CONSTANTS
    t1 = t1
    t2 = t2
    Threads <- MCThreads
    Requests <- MCRequests
    Hints <- MCHints
    num_audio_samples = 5
    SampleSize = 2
    Align = 3
    DefaultBytes = 4
    AutoMaxBytes = 5
    MaxBytes = 8
    ScoreStart = 2
    ScoreOff = 4
    ScoreMax = 5
    ScoreFloor <- MCScoreFloor
INVARIANTS WindowFits SamplesRight
PROPERTY GetAudioEnds
