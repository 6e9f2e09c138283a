\* Two colors; a first, a last and a middle bit; a first pixel, another one, and the LED
\* that gets none.
SPECIFICATION Spec
CONSTANTS
  CLK_PERIOD_NS = 50
  DATA_WIDTH = 3
  N_LEDS_PER_STRING = 3
  Colors = {c1, c2}
  Mixed = mixed
INVARIANT TypeOK
INVARIANT EveryLedTheSameBits
PROPERTY WhiteIsSent
