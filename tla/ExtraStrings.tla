----------------------------- MODULE ExtraStrings -----------------------------
(***************************************************************************)
(* hdl/extra_strings.v with its string drivers, and the way of a color to  *)
(* it (hdl/top.sv): the white LEDs all show one color, which is sent to    *)
(* them when its high half is written.                                     *)
(*                                                                         *)
(* All drivers see the same signals, and at CLK_PERIOD_NS = 50 a bit takes *)
(* as long whether it is one or zero: one driver and its line stand for    *)
(* every string.  Software writes at any time.  The color is not           *)
(* synchronised; a pixel that is loaded at the edge at which it changes    *)
(* may be a mixture.                                                       *)
(***************************************************************************)
EXTENDS StringDriver, Sequences

CONSTANTS
  N_LEDS_PER_STRING,
  Colors,             (* what software writes; what half of it, is left open *)
  Mixed               (* a mixture of two of them                            *)

ASSUME LedsAssumption == N_LEDS_PER_STRING \in Nat /\ N_LEDS_PER_STRING >= 2
ASSUME MixedAssumption == Mixed \notin Colors /\ Colors # {}

VARIABLES
  reset, frame_active, pixels_remaining, h_blank, h_blank_q, data_valid, do_init,
  driver,
  color,              (* the register                                        *)
  before,             (* what it was at the last edge                        *)
  crossing,           (* where the strobe of the register is in its crossing *)
  color_valid,        (* it shows on this side                               *)
  line,               (* history: the bits sent since the last blanking      *)
  asked               (* history: the color was written while the strings were
                         idle, or they came out of reset, and nothing since  *)

colorVars == <<color, before, crossing, color_valid>>
vars == <<reset, frame_active, pixels_remaining, h_blank, h_blank_q, data_valid, do_init,
          driver, colorVars, line, asked>>

Init ==
  /\ reset = TRUE
  /\ frame_active = FALSE /\ pixels_remaining = 0
  /\ h_blank = FALSE /\ h_blank_q = FALSE /\ data_valid = FALSE /\ do_init = TRUE
  /\ color \in Colors /\ before = color
  /\ driver = DriverAtPowerUp(color)
  /\ crossing = "idle" /\ color_valid = FALSE
  /\ line = <<>> /\ asked = TRUE

string_active == ~string_ready(driver)

\* Mutant: the ready signal, which a pixel on its way has not taken yet, is enough.
FreeTooSoon == ~string_active

Free == ~string_active /\ ~data_valid

\* Mutant: a request does not wait for the pixel that is being sent.
StartsFrameAtOnce == color_valid \/ do_init

StartsFrame == Free /\ (color_valid \/ do_init)

\* Mutant: the count is not looked at.
SendsAnyPixel == Free /\ frame_active

SendsPixel == Free /\ frame_active /\ pixels_remaining > 0

EndsFrame == Free /\ frame_active /\ pixels_remaining = 0

-----------------------------------------------------------------------------
\* Assignments later in the block win over earlier ones.
Frame ==
  IF reset
  THEN /\ do_init' = TRUE /\ data_valid' = FALSE /\ h_blank' = FALSE
       /\ frame_active' = FALSE /\ pixels_remaining' = N_LEDS_PER_STRING
  ELSE /\ do_init' = (do_init /\ ~StartsFrame)
       /\ h_blank' = StartsFrame
       /\ data_valid' = SendsPixel
       /\ frame_active' = (~EndsFrame /\ (StartsFrame \/ frame_active))
       /\ pixels_remaining' = IF SendsPixel THEN pixels_remaining - 1
                              ELSE IF StartsFrame THEN N_LEDS_PER_STRING - 1
                              ELSE pixels_remaining

DelayBlank == h_blank_q' = (~reset /\ h_blank)

Captured == IF before = color THEN {color} ELSE {before, color, Mixed}

Driver ==
  \E one \in BOOLEAN, pixel_data \in Captured :
    /\ driver' = DriverStep(driver, data_valid, pixel_data, h_blank_q, one)
    /\ line' = IF StartsBlank(driver, h_blank_q) THEN <<>>
               ELSE IF StartsBit(driver, h_blank_q) THEN Append(line, driver.shift_reg)
               ELSE line

\* event_xing as its receiver sees it.  A reset of this side alone, after the PLL has
\* lost its lock, takes an event away or makes one up.
Strobe ==
  IF reset
  THEN color_valid' = FALSE /\ crossing' \in {"idle", "sent"}
  ELSE \/ /\ crossing = "sent" /\ ~color_valid
          /\ color_valid' = TRUE /\ crossing' = "returning"
       \/ /\ color_valid' = FALSE
          /\ crossing' = IF crossing = "returning" THEN "idle" ELSE crossing

Tick ==
  /\ reset' \in BOOLEAN
  /\ Frame /\ DelayBlank /\ Driver /\ Strobe
  /\ before' = color
  /\ asked' = IF reset THEN crossing' = "idle" ELSE asked
  /\ UNCHANGED color

hardware == <<reset, frame_active, pixels_remaining, h_blank, h_blank_q, data_valid, do_init,
              driver, before, color_valid, line>>

\* WHITE_COLOR_L_REG has no strobe.
WriteLow ==
  /\ color' \in Colors
  /\ asked' = FALSE
  /\ UNCHANGED <<hardware, crossing>>

StringsIdle == Free /\ ~frame_active /\ ~h_blank /\ ~h_blank_q /\ ~do_init /\ ~reset

\* WHITE_COLOR_H_REG, with swmod.  iready of the crossing is not connected: an event
\* before it is free again is lost.
WriteHigh ==
  /\ color' \in Colors
  /\ CASE crossing = "idle"      -> crossing' = "sent"
       [] crossing = "sent"      -> UNCHANGED crossing
       [] crossing = "returning" -> crossing' \in {"sent", "returning"}
  /\ asked' = (crossing = "idle" /\ StringsIdle)
  /\ UNCHANGED hardware

Next == Tick \/ WriteLow \/ WriteHigh

\* The clock runs, out of reset too, and a strobe on its way arrives.
Fairness == WF_vars(Tick /\ ~reset' /\ (crossing = "sent" /\ ~reset /\ ~color_valid => color_valid'))

Spec == Init /\ [][Next]_vars /\ Fairness

-----------------------------------------------------------------------------
(* Properties *)

TypeOK ==
  /\ {reset, frame_active, h_blank, h_blank_q, data_valid, do_init, color_valid, asked}
       \subseteq BOOLEAN
  /\ pixels_remaining \in 0 .. N_LEDS_PER_STRING
  /\ color \in Colors /\ before \in Colors
  /\ crossing \in {"idle", "sent", "returning"}
  /\ line \in Seq([pixel : Colors \cup {Mixed}, shifts : 0 .. DATA_WIDTH - 1])

\* The blanking pulse meets the first pixel at the driver and takes the place of its
\* first bit, never of another one: whenever a request or a reset comes, the bits on the
\* wire since a blanking are those of whole pixels from the second bit on (or the first,
\* if a request fell between a frame and its blanking), so that every LED gets the same
\* bits of the color (extra_strings.v:55-77, string_driver.v:113-118).
EveryLedTheSameBits ==
  \E lost \in {0, 1} : \A j \in DOMAIN line : line[j].shifts = (j - 1 + lost) % DATA_WIDTH

Shown ==
  LET sent == (N_LEDS_PER_STRING - 1) * DATA_WIDTH - 1 IN
  /\ Len(line) = sent
  /\ \A j \in 1 .. sent : line[j].pixel = color

\* A color written while the strings are idle, or found after a reset, is sent: to all
\* LEDs of a string but the last, and but for the last bit of the one before
\* (extra_strings.v:47-63), unless software writes again or the reset comes back.
WhiteIsSent == asked /\ ~reset ~> Shown \/ ~asked \/ reset

=============================================================================
