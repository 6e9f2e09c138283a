------------------------------ MODULE LedCtrl ------------------------------
(***************************************************************************)
(* The arithmetic of led_ctrl.rs and of the white register (display.rs): a *)
(* color temperature is a mix of two of the three kinds of white LED.      *)
(***************************************************************************)
EXTENDS RenderBlocks

Point(val, cold, cool, hot) == [val |-> val * ONE, color |-> <<cold * ONE, cool * ONE, hot * ONE>>]

COLOR_MAP == <<Point(0, 1, 0, 0), Point(1900, 1, 0, 0), Point(3000, 0, 1, 0),
               Point(6500, 0, 0, 1), Point(9900, 0, 0, 1)>>

\* Three NaN: what a power of a negative brightness comes to, and all that is made of it.
NaN == <<>>

Lerp(from, to, alpha) ==
    IF NaN \in {from, to} THEN NaN
    ELSE [k \in 1 .. 3 |-> from[k] + Times(to[k] - from[k], alpha)]

PointsAtOrAbove(temp) == {j \in DOMAIN COLOR_MAP : temp <= COLOR_MAP[j].val}

\* A temperature at or below the first point makes the index underflow, one
\* beyond the last finds none, and a duration cannot be negative: a panic.
WhiteFits(msg) == PointsAtOrAbove(msg.temp) \notin {{}, DOMAIN COLOR_MAP} /\ msg.delay >= 0

\* Mutant: the segment that starts at the point found.
SegmentAbove(temp) == CHOOSE j \in PointsAtOrAbove(temp) : \A k \in PointsAtOrAbove(temp) : j <= k

Segment(temp) == (CHOOSE j \in PointsAtOrAbove(temp) : \A k \in PointsAtOrAbove(temp) : j <= k) - 1

\* adj_color, the mix at its brightness; the exponent is 2.2 in the code.
WhiteColor(msg) ==
    LET i == Segment(msg.temp)
        alpha == ((msg.temp - COLOR_MAP[i].val) * ONE)
                    \div (COLOR_MAP[i + 1].val - COLOR_MAP[i].val)
        mix == Lerp(COLOR_MAP[i].color, COLOR_MAP[i + 1].color, alpha)
    IN  IF msg.value < 0 THEN NaN ELSE [k \in 1 .. 3 |-> Times(mix[k], Pow(msg.value, 2 * ONE))]

LED_MAX == 127

\* set_white_led_f32 and set_white_led: cold, cool and hot in one word.  NaN as u8 is 0.
WhiteWord(color) ==
    LET byte(k) == IF color = NaN THEN 0 ELSE Round(LED_MAX * Clamp(color[k], 0, ONE))
    IN  byte(1) * 256 + byte(2) + byte(3) * 65536

Dark == <<0, 0, 0>>
============================================================================
