\* Three strings of two LEDs: 9 words a frame, an odd number of bytes in a column.
SPECIFICATION Spec
CONSTANTS
  CLK_PERIOD_NS = 50
  DATA_WIDTH = 2
  N_STRINGS = 3
  N_LEDS_PER_STRING = 2
  Capacity = 10
  QuietStart = TRUE
INVARIANT TypeOK
INVARIANT EveryBitInPlace
INVARIANT WholeFramesTaken
PROPERTY FrameIsShown
