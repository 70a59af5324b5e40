SPECIFICATION FairSpec
CONSTANTS
    Frames = 2
    Period = 2
    Grace = 1
    MaxAge = 4
    FirstWrite = 2
INVARIANTS CutShortIsRecovered NeverSleepsOnWork ZeroStopIsComplete
PROPERTIES SilenceEndsStream
