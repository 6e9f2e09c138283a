CONSTANTS
    ONE = 240
    Mantissa = 64
    LED_COUNT = 12
    STRING_COUNT = 4
    frame_cnt = 16
    Configs <- MCConfigs
SPECIFICATION Spec
\* The loop ends after frame_cnt frames, and a panic ends it earlier.
CHECK_DEADLOCK FALSE
INVARIANT PictureIsAFunctionOfPlace
INVARIANT HueComesBack
INVARIANT DitherAverages
PROPERTY TrianglesDoNotJump
