SPECIFICATION EditSpec
CONSTANTS
    SourceFrames = 2
    SourceSamples = 4
    Spf <- MCSpf
    Numbers <- MCNumbers
    MaxArgs = 1
    MaxOffsets = 2
    MaxTimes = 1
    Forever = 5
    MaxEdits = 2
INVARIANT LengthAsDocumented
