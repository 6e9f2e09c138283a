---------------------------- MODULE StringDriver ----------------------------
(***************************************************************************)
(* hdl/string_driver.v: sends one pixel, most significant bit first, as a  *)
(* train of pulses to a string of WS2812B LEDs, or a blanking pulse that   *)
(* makes the string show what it was sent.                                 *)
(*                                                                         *)
(* A driver is a record of its registers, and DriverStep is one edge of    *)
(* its clock.  The value of a bit decides only how its time is divided     *)
(* into high and low; it is the argument "one".  sdi is high exactly in    *)
(* BIT_HIGH.                                                               *)
(***************************************************************************)
EXTENDS Naturals

CONSTANTS
  CLK_PERIOD_NS,
  DATA_WIDTH          (* bits in a pixel *)

ASSUME WidthAssumption == DATA_WIDTH \in Nat \ {0}

\* The length of a pulse in clock cycles, rounded up.
get_count(bit_period) == (bit_period + CLK_PERIOD_NS - 1) \div CLK_PERIOD_NS

\* The high and the low part of a bit, two cycles less for what the states add.
kHighCount(one) == get_count(IF one THEN 800 ELSE 400) - 2
kLowCount(one)  == get_count(IF one THEN 450 ELSE 850) - 2
kHBlankCount    == get_count(500)

ASSUME ClockAssumption == CLK_PERIOD_NS \in 1 .. 399

IDLE     == "idle"
BIT_HIGH == "bit_high"
BIT_LOW  == "bit_low"
HBLANK   == "hblank"

\* A pixel that was shifted up so many times; its next bit is at the top.  After
\* DATA_WIDTH shifts nothing is left of it.
Shifted(pixel, shifts) ==
  [pixel |-> pixel, shifts |-> IF shifts < DATA_WIDTH THEN shifts ELSE DATA_WIDTH]

DriverAtPowerUp(zeros) ==
  [shift_reg   |-> Shifted(zeros, 0), bit_count   |-> 0,
   shift_start |-> FALSE,             shift_done  |-> FALSE,
   shift_ready |-> TRUE,              blank_ready |-> TRUE,
   bit_state   |-> IDLE,              tick_count  |-> 0,
   one         |-> FALSE]

string_ready(d) == d.shift_ready /\ d.blank_ready

\* The pulse of a bit, or a blanking pulse, starts at the next edge.
StartsBlank(d, h_blank) == d.bit_state = IDLE /\ h_blank
StartsBit(d, h_blank)   == d.bit_state = IDLE /\ ~h_blank /\ d.shift_start

\* Mutant: the next pixel may come one pulse too early.
LastHighTick(d) == d.bit_count = 0 /\ d.bit_state = BIT_HIGH /\ d.tick_count = 0

\* The low part of the last bit ends at the next edge: the next pixel may come.
LastLowTick(d) == d.bit_count = 0 /\ d.bit_state = BIT_LOW /\ d.tick_count = 0

-----------------------------------------------------------------------------
\* The shift register, the bits left and the ready signal.
ShiftStep(d, pixel_data_valid, pixel_data) ==
  LET load  == pixel_data_valid /\ string_ready(d)
      shift == d.shift_done /\ ~load
      more  == d.bit_count > 0
  IN [d EXCEPT
        !.shift_reg   = IF load THEN Shifted(pixel_data, 0)
                        ELSE IF shift THEN Shifted(@.pixel, @.shifts + 1) ELSE @,
        !.bit_count   = IF load THEN DATA_WIDTH - 1
                        ELSE IF shift /\ more THEN @ - 1 ELSE @,
        !.shift_start = load \/ (shift /\ more),
        !.shift_ready = LastLowTick(d) \/ (@ /\ ~load)]

\* The pulse generator; n has the registers of the shifter after the edge.
PulseStep(d, h_blank, one, n) ==
  LET ends == d.bit_state # IDLE /\ d.tick_count = 0
      p    == [n EXCEPT !.shift_done = ends /\ d.bit_state \in {BIT_LOW, HBLANK}]
  IN CASE StartsBlank(d, h_blank) ->
            [p EXCEPT !.bit_state = HBLANK, !.tick_count = kHBlankCount,
                      !.blank_ready = FALSE]
       [] StartsBit(d, h_blank) ->
            [p EXCEPT !.bit_state = BIT_HIGH, !.tick_count = kHighCount(one), !.one = one]
       [] ends /\ d.bit_state = BIT_HIGH ->
            [p EXCEPT !.bit_state = BIT_LOW, !.tick_count = kLowCount(d.one)]
       [] ends /\ d.bit_state = BIT_LOW ->
            [p EXCEPT !.bit_state = IDLE]
       [] ends /\ d.bit_state = HBLANK ->
            [p EXCEPT !.bit_state = IDLE, !.blank_ready = TRUE]
       [] d.bit_state # IDLE /\ ~ends ->
            [p EXCEPT !.tick_count = @ - 1]
       [] OTHER -> p

DriverStep(d, pixel_data_valid, pixel_data, h_blank, one) ==
  PulseStep(d, h_blank, one, ShiftStep(d, pixel_data_valid, pixel_data))

=============================================================================
