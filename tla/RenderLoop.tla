----------------------------- MODULE RenderLoop -----------------------------
(***************************************************************************)
(* The render loop of fb_main (mod_ctrl.rs) with one configuration and no  *)
(* commands: pixel after pixel, frame after frame, args.frame_cnt frames.  *)
(* The instance sweeps the blocks over every place of the picture.         *)
(***************************************************************************)
EXTENDS ModCtrl

CONSTANTS Configs,        \* the configurations to draw
          frame_cnt       \* args.frame_cnt

ASSUME RenderLoopAssumption == frame_cnt \in Nat

VARIABLES r,              \* variables and blocks
          frame,          \* frames drawn
          px,             \* pixels drawn of this frame
          fb,             \* the frame buffer, FRAME_SIZE_BYTES of it
          light           \* history: what each byte emitted in this period of frames

vars == <<r, frame, px, fb, light>>

Period == Len(dither_add)

Init ==
    /\ \E c \in Configs : r = update_cfg(NewRenderer, c)
    /\ frame = 0
    /\ px = 0
    /\ fb = BlankFrame
    /\ light = BlankFrame

DrawNext ==
    /\ frame < frame_cnt /\ px < PIXEL_COUNT /\ ~r.st.panicked
    /\ LET drawn == DrawPixel(r, fb, frame, Pixel(px)[1], Pixel(px)[2])
       IN  r' = [r EXCEPT !.st = drawn.st] /\ fb' = drawn.fb
    /\ px' = px + 1
    /\ UNCHANGED <<frame, light>>

\* disp.flush, and on to the next frame.
EndFrame ==
    /\ px = PIXEL_COUNT /\ ~r.st.panicked
    /\ frame' = frame + 1
    /\ px' = 0
    /\ light' = [i \in DOMAIN fb |-> fb[i] + (IF frame % Period = 0 THEN 0 ELSE light[i])]
    /\ UNCHANGED <<r, fb>>

Next == DrawNext \/ EndFrame

Spec == Init /\ [][Next]_vars
----------------------------------------------------------------------------
BlocksOf(t) == {b \in Range(r.blocks) : b.type = t}

FrameComplete == px = PIXEL_COUNT /\ ~r.st.panicked

(* A finished picture is the function of frame, column and row that the       *)
(* blocks compute, at every LED: nothing leaks from one pixel to the next, no *)
(* coordinate is stale, no place of the buffer is missed or drawn twice. This *)
(* is about the draw loop, mod_ctrl.rs:70-87, and fb_idx of constants.rs.     *)
PictureIsAFunctionOfPlace ==
    FrameComplete /\ FeedsForward(r.blocks) => ShowsPicture(fb, r, frame)

(* The color scalar_hsv2rgb.rs computes has the hue, saturation and value it  *)
(* was asked for, by the textbook conversion back: value is the largest       *)
(* channel, chroma the spread, hue the sector and the place in it.            *)
HueComesBack ==
    px > 0 /\ FeedsForward(r.blocks) =>
        \A b \in BlocksOf("scalar_hsv2rgb") :
            LET c == Get(r.st, "rcolor", b.o)
                largest == CHOOSE v \in Range(c) : \A w \in Range(c) : v >= w
                smallest == CHOOSE v \in Range(c) : \A w \in Range(c) : v <= w
                chroma == largest - smallest
                sector == CASE largest = c.r -> (c.g - c.b) * ONE
                            [] largest = c.g -> (c.b - c.r) * ONE + 2 * ONE * chroma
                            [] OTHER         -> (c.r - c.g) * ONE + 4 * ONE * chroma
                circle == 6 * ONE * chroma
            IN  /\ largest = Clamp(In(r.st, b, "v"), 0, ONE)
                /\ chroma = Times(largest, Clamp(In(r.st, b, "s"), 0, ONE))
                /\ chroma > 0 => sector % circle = (6 * In(r.st, b, "h") * chroma) % circle

(* Over the eight frames of a period each LED emits the color dither.rs was   *)
(* given to within an eighth of a step: the floors of the eight dithered      *)
(* values add up to the floor of eight times the value.  It needs the eight   *)
(* phases of an LED to be different, and so holds only while the phase is     *)
(* exact in an f32, 3 * frame below 2^24.                                     *)
DitherAverages ==
    px = 0 /\ frame > 0 /\ frame % Period = 0 =>
        \A b \in BlocksOf("dither"), s \in 0 .. Strings - 1, n \in Positions :
            LET x == HangsAtColumn(n)
                y == HangsAtRow(s, n)
                here == FoldLeft(execute, Placed(Placed(r.st, frame - 1, x, 0), frame - 1, x, y), r.blocks)
                exact == x + 5 * y + 3 * (frame - 1) < Mantissa
            IN  exact => \A k \in Channels :
                            LedColor(light, s, n)[k]
                                = Clamp(Floor(Period * Curve(here, b, k)), 0, 255 * Period)

(* A triangle wave never jumps: between two pixels of the same frame, drawn   *)
(* one after the other, its output moves at most twice as far as its phase,   *)
(* times the magnitude (scalar_triangle.rs; a ramp does jump).                *)
TrianglesDoNotJump ==
    [][px' > 1 => \A b \in BlocksOf("scalar_triangle") :
            Abs(In(r.st, b, "min") + Get(r.st, "scalar", b.o)' - In(r.st, b, "min")' - Get(r.st, "scalar", b.o))
                <= 2 * Times(Abs(Times(In(r.st, b, "i"), In(r.st, b, "f"))
                                  - Times(In(r.st, b, "i"), In(r.st, b, "f"))'),
                             Abs(Magnitude(r.st, b)))]_vars
============================================================================
