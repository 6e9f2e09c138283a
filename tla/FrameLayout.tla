---------------------------- MODULE FrameLayout ----------------------------
(***************************************************************************)
(* Where a pixel of the picture lies in the frame buffer, in an uploaded   *)
(* image and on the LED strings (constants.rs).  Strings hang in pairs of  *)
(* rows: string s leads away along row 2s and comes back along row 2s+1.   *)
(***************************************************************************)
EXTENDS Integers

CONSTANTS LED_COUNT,      \* LEDs in a row
          STRING_COUNT    \* rows of the picture, two to a string

ASSUME LayoutAssumption ==
    /\ LED_COUNT \in Nat \ {0}
    /\ STRING_COUNT \in Nat \ {0}
    /\ STRING_COUNT % 2 = 0

BYTES_PER_LED == 3
PIXEL_COUNT == LED_COUNT * STRING_COUNT
FRAME_SIZE_BYTES == PIXEL_COUNT * BYTES_PER_LED

Columns == 0 .. LED_COUNT - 1
Rows == 0 .. STRING_COUNT - 1

\* Mutant: the way back starts beyond the last LED.
BufferRowOff(x, y) == IF y % 2 = 0 THEN x ELSE 2 * LED_COUNT - x

\* The row of the buffer, which is 2 * LED_COUNT rows of STRING_COUNT / 2.
BufferRow(x, y) == IF y % 2 = 0 THEN x ELSE 2 * LED_COUNT - 1 - x

fb_idx(x, y) ==
    ((y \div 2) + (BufferRow(x, y) * STRING_COUNT) \div 2) * BYTES_PER_LED

\* Strings as rows; nothing uses it.
px_idx(x, y) == (x * STRING_COUNT + y) * BYTES_PER_LED

px_idx_tpose(x, y) == (x + y * LED_COUNT) * BYTES_PER_LED
----------------------------------------------------------------------------
\* The receiving side: the FPGA deals the pixels of the stream to its strings
\* in turn, so string s gets pixel s, s + Strings, s + 2 * Strings, ...
Strings == STRING_COUNT \div 2
Positions == 0 .. 2 * LED_COUNT - 1

LedByte(s, n, b) == (s + n * Strings) * BYTES_PER_LED + b

\* Where the n-th LED of string s hangs.
HangsAtColumn(n) == IF n < LED_COUNT THEN n ELSE 2 * LED_COUNT - 1 - n
HangsAtRow(s, n) == IF n < LED_COUNT THEN 2 * s ELSE 2 * s + 1

\* What the LED at a place of the buffer shows, which the wire carries as
\* blue, red, green.
LedColor(fb, s, n) ==
    [b |-> fb[LedByte(s, n, 0)], r |-> fb[LedByte(s, n, 1)], g |-> fb[LedByte(s, n, 2)]]
============================================================================
