CONSTANTS
    FRAME_SIZE_WORDS = 3
    PageWords = 2
    Depth = 4
    WithTopBit = FALSE
    EmptyAtExit = 2
    Drawings = 3
    MaxMishaps = 1
SPECIFICATION Spec
\* The program ends, and after a failed call it may wait for ever.
CHECK_DEADLOCK FALSE
INVARIANT TypeOK
INVARIANT NeverOverruns
INVARIANT FramesStayWhole
INVARIANT TornByTheNextAtMost
PROPERTY FlushReturns
PROPERTY LeavesTheDark
