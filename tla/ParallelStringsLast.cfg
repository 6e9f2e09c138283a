\* The same instance, asked whether the flushed pixel reaches its string.
SPECIFICATION Spec
CONSTANTS
  CLK_PERIOD_NS = 50
  DATA_WIDTH = 2
  N_STRINGS = 3
  N_LEDS_PER_STRING = 2
  Capacity = 10
  QuietStart = TRUE
PROPERTY BlankedWhenComplete
