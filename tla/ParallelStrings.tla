--------------------------- MODULE ParallelStrings ---------------------------
(***************************************************************************)
(* hdl/parallel_strings.v with its string drivers: takes a frame out of    *)
(* the pixel FIFO, 16 bits at a time, and deals its 24-bit pixels out to   *)
(* the strings, one pixel to each string in turn.                          *)
(*                                                                         *)
(* The stream of words has no frame marks, so nothing but the counting     *)
(* done here keeps the picture in place.  A byte is named by its place in  *)
(* the stream, modulo two frames; a pixel is the tuple of its three bytes. *)
(*                                                                         *)
(* The FIFO is the one SimpleFifo describes, seen from its read side:      *)
(* words arrive at any edge, full_count is registered, a word comes out    *)
(* two edges after the read.  One action, Tick, is one edge of clk_20.     *)
(***************************************************************************)
EXTENDS StringDriver, SequencesExt

CONSTANTS
  N_STRINGS,
  N_LEDS_PER_STRING,
  Capacity,           (* words the FIFO can hold                            *)
  QuietStart          (* TRUE: no word arrives before all LEDs are cleared  *)

ASSUME StringsAssumption == N_STRINGS \in Nat /\ N_STRINGS >= 2
ASSUME LedsAssumption == N_LEDS_PER_STRING \in Nat \ {0}
ASSUME EvenAssumption == (N_STRINGS * N_LEDS_PER_STRING) % 2 = 0
ASSUME QuietStartAssumption == QuietStart \in BOOLEAN

FIFO_DATA_BYTES == 2
TOTAL_PIXEL_BYTES == N_STRINGS * N_LEDS_PER_STRING * 3
TOTAL_PIXEL_FIFO_WORDS == TOTAL_PIXEL_BYTES \div FIFO_DATA_BYTES
BYTES_PER_COL == N_STRINGS * 3
FLUSH_TICKS == 6

\* What a register of $clog2(n) bits can hold.
RegisterModulus(n) == 2 ^ (CHOOSE b \in 0 .. n : 2 ^ b >= n /\ \A c \in 0 .. b - 1 : 2 ^ c < n)

ASSUME CapacityAssumption == Capacity \in Nat /\ Capacity >= TOTAL_PIXEL_FIFO_WORDS

VARIABLES
  reset,
  (* frame control *)
  frame_active, h_blank, h_blank_q, pixels_remaining, bytes_remaining, flush_timer,
  (* read control *)
  fifo_read, flush_shift_reg, fifo_shift_count, fifo_shift_reg_primed,
  must_wait_for_ready, next_word_completes_pixel, active_string,
  (* what belongs to a word on its way out of the FIFO *)
  shift_reg_sel,              (* <<shift_reg_sel, _q, _qq>>                  *)
  completes,                  (* <<next_word_completes_pixel_q, _qq>>        *)
  destination,                (* <<fifo_data_destination_nx, _destination>>  *)
  (* shift register: its bytes, the lowest first *)
  fifo_shift_reg, shift_data_valid,
  (* clearing the LEDs after reset *)
  init_pixels_remaining, init_active, init_data_valid,
  drivers,                    (* one string_driver for every string          *)
  (* the read side of the FIFO *)
  known,                      (* words that have arrived and are not read    *)
  full_count, oaddr, oaddr_q, fifo_data, ord_q, fifo_data_valid,
  (* history *)
  line                        (* the bits sent to a string since its last blanking *)

frameVars == <<frame_active, h_blank, h_blank_q, pixels_remaining, bytes_remaining, flush_timer>>
readVars  == <<fifo_read, flush_shift_reg, fifo_shift_count, fifo_shift_reg_primed,
               must_wait_for_ready, next_word_completes_pixel, active_string>>
delayVars == <<shift_reg_sel, completes, destination>>
shiftVars == <<fifo_shift_reg, shift_data_valid>>
initVars  == <<init_pixels_remaining, init_active, init_data_valid>>
fifoVars  == <<known, full_count, oaddr, oaddr_q, fifo_data, ord_q, fifo_data_valid>>
vars == <<reset, frameVars, readVars, delayVars, shiftVars, initVars, drivers, fifoVars, line>>

Strings == 0 .. N_STRINGS - 1
Words   == 0 .. 2 * TOTAL_PIXEL_FIFO_WORDS - 1

\* INIT_COLOR, and the content of the shift register after reset: bytes of no frame.
NoByte    == 2 * TOTAL_PIXEL_BYTES
InitColor == <<NoByte, NoByte, NoByte>>
Blank     == InitColor \o InitColor

BytesOf(word) == <<2 * word, 2 * word + 1>>

Init ==
  /\ reset = TRUE
  /\ frame_active = FALSE /\ h_blank = FALSE /\ h_blank_q = FALSE
  /\ pixels_remaining = 0 /\ bytes_remaining = 0 /\ flush_timer = 0
  /\ fifo_read = FALSE /\ flush_shift_reg = FALSE
  /\ fifo_shift_count = 0 /\ fifo_shift_reg_primed = FALSE
  /\ must_wait_for_ready = FALSE /\ next_word_completes_pixel = FALSE /\ active_string = 0
  /\ shift_reg_sel = <<FALSE, FALSE, FALSE>>
  /\ completes = <<FALSE, FALSE>> /\ destination = <<0, 0>>
  /\ fifo_shift_reg = Blank /\ shift_data_valid = {}
  /\ init_pixels_remaining = N_LEDS_PER_STRING /\ init_active = TRUE /\ init_data_valid = FALSE
  /\ drivers = [s \in Strings |-> DriverAtPowerUp(InitColor)]
  /\ known = 0 /\ full_count = 0 /\ oaddr = 0 /\ oaddr_q = 0 /\ fifo_data = 0
  /\ ord_q = FALSE /\ fifo_data_valid = FALSE
  /\ line = [s \in Strings |-> <<>>]

string_active == \E s \in Strings : ~string_ready(drivers[s])

Taking == fifo_read \/ flush_shift_reg

-----------------------------------------------------------------------------
(* Frame control *)

\* Mutant: a frame that fits exactly is not started.
StartsFrameWithMore ==
  full_count > TOTAL_PIXEL_FIFO_WORDS /\ ~frame_active /\ ~string_active

StartsFrame == full_count >= TOTAL_PIXEL_FIFO_WORDS /\ ~frame_active /\ ~string_active

\* Mutant: the frame ends one word early.
LastAccessEarly == Taking /\ pixels_remaining = 0 /\ bytes_remaining = 7

LastAccess == Taking /\ pixels_remaining = 0 /\ bytes_remaining = 5

\* Mutant: the last column is counted like the others.
CompletesAnyColumn == Taking /\ bytes_remaining <= 3

CompletesColumn == Taking /\ bytes_remaining <= 3 /\ pixels_remaining # 0

\* Assignments later in the block win over earlier ones.
FrameControl ==
  IF reset
  THEN /\ frame_active' = FALSE /\ h_blank' = FALSE /\ flush_timer' = 0
       /\ pixels_remaining' = 0 /\ bytes_remaining' = 0
  ELSE /\ h_blank' = StartsFrame
       /\ frame_active' = (flush_timer # 1 /\ (frame_active \/ StartsFrame))
       /\ flush_timer' = IF LastAccess THEN FLUSH_TICKS - 1
                         ELSE IF flush_timer > 0 THEN flush_timer - 1 ELSE 0
       /\ pixels_remaining' = IF CompletesColumn THEN pixels_remaining - 1
                              ELSE IF StartsFrame THEN N_LEDS_PER_STRING - 1
                              ELSE pixels_remaining
       /\ bytes_remaining' =
            (CASE CompletesColumn -> bytes_remaining + BYTES_PER_COL - FIFO_DATA_BYTES
               [] Taking /\ bytes_remaining > 3 -> bytes_remaining - FIFO_DATA_BYTES
               [] ~Taking /\ StartsFrame -> BYTES_PER_COL + FIFO_DATA_BYTES + 1
               [] OTHER -> bytes_remaining)
              % RegisterModulus(BYTES_PER_COL + FIFO_DATA_BYTES)

DelayBlank == h_blank_q' = (~reset /\ h_blank)

-----------------------------------------------------------------------------
(* Read control *)

Ready(s) == string_ready(drivers[s])

\* Never in two edges running: full_count does not know of the last read yet.
MayRead == full_count > 0 /\ ~fifo_read

Reads == MayRead /\ (~must_wait_for_ready \/ Ready(active_string))

\* Mutant: the next string is chosen before the last one took its pixel.
NextStringAtOnce == MayRead /\ must_wait_for_ready

NextString == MayRead /\ must_wait_for_ready /\ Ready(active_string)

ReadControl ==
  CASE reset \/ ~frame_active ->
         /\ fifo_read' = FALSE /\ flush_shift_reg' = FALSE
         /\ fifo_shift_count' = 0 /\ fifo_shift_reg_primed' = FALSE
         /\ must_wait_for_ready' = FALSE /\ next_word_completes_pixel' = FALSE
         /\ active_string' = 0
    [] ~reset /\ frame_active /\ flush_timer > 0 ->
         /\ fifo_read' = FALSE /\ flush_shift_reg' = (flush_timer = 3)
         /\ fifo_shift_count' = 0 /\ fifo_shift_reg_primed' = FALSE
         /\ UNCHANGED <<must_wait_for_ready, next_word_completes_pixel, active_string>>
    [] ~reset /\ frame_active /\ flush_timer = 0 ->
         /\ fifo_read' = Reads /\ flush_shift_reg' = FALSE
         /\ fifo_shift_count' = IF Reads THEN (fifo_shift_count + 1) % 3 ELSE fifo_shift_count
         /\ fifo_shift_reg_primed' = (fifo_shift_reg_primed \/ (Reads /\ fifo_shift_count = 2))
         /\ must_wait_for_ready' = IF Reads THEN next_word_completes_pixel
                                   ELSE must_wait_for_ready
         /\ active_string' = IF NextString THEN (active_string + 1) % N_STRINGS
                             ELSE active_string
         /\ next_word_completes_pixel' = \/ fifo_shift_count = 2
                                         \/ fifo_shift_count = 0 /\ fifo_shift_reg_primed

\* Two to three edges later, when the word that was read is there.
DelayControl ==
  /\ shift_reg_sel' = <<fifo_shift_count = 1, shift_reg_sel[1], shift_reg_sel[2]>>
  /\ IF reset \/ ~frame_active
     THEN completes' = <<FALSE, FALSE>> /\ destination' = <<0, 0>>
     ELSE /\ completes' = <<next_word_completes_pixel, completes[1]>>
          /\ destination' = <<active_string, destination[1]>>

-----------------------------------------------------------------------------
(* The shift register, the clearing of the LEDs and the drivers *)

ShiftRegister ==
  CASE reset \/ ~frame_active ->
         fifo_shift_reg' = Blank /\ shift_data_valid' = {}
    [] ~reset /\ frame_active /\ (fifo_data_valid \/ flush_shift_reg) ->
         /\ fifo_shift_reg' = SubSeq(fifo_shift_reg, 3, 6) \o BytesOf(fifo_data)
         /\ shift_data_valid' = IF completes[2] THEN shift_data_valid \cup {destination[2]}
                                ELSE shift_data_valid \ {destination[2]}
    [] ~reset /\ frame_active /\ ~fifo_data_valid /\ ~flush_shift_reg ->
         /\ shift_data_valid' = IF Ready(destination[2]) THEN {} ELSE shift_data_valid
         /\ UNCHANGED fifo_shift_reg

shift_data == IF shift_reg_sel[3] THEN SubSeq(fifo_shift_reg, 2, 4)
                                  ELSE SubSeq(fifo_shift_reg, 1, 3)

InitPixels ==
  IF reset
  THEN /\ init_pixels_remaining' = N_LEDS_PER_STRING
       /\ init_active' = TRUE /\ init_data_valid' = FALSE
  ELSE LET next == init_active /\ ~string_active /\ ~init_data_valid
           more == init_pixels_remaining > 0
       IN /\ init_data_valid' = (next /\ more)
          /\ init_pixels_remaining' = init_pixels_remaining - (IF next /\ more THEN 1 ELSE 0)
          /\ init_active' = (init_active /\ (next => more))

pxl_data == IF init_active THEN InitColor ELSE shift_data
pxl_data_valid(s) == IF init_active THEN init_data_valid ELSE s \in shift_data_valid

StringDrivers ==
  \E ones \in SUBSET {s \in Strings : StartsBit(drivers[s], h_blank_q)} :
    /\ drivers' = [s \in Strings |->
                     DriverStep(drivers[s], pxl_data_valid(s), pxl_data, h_blank_q, s \in ones)]
    /\ line' = [s \in Strings |->
                  IF StartsBlank(drivers[s], h_blank_q) THEN <<>>
                  ELSE IF StartsBit(drivers[s], h_blank_q)
                       THEN Append(line[s], drivers[s].shift_reg)
                  ELSE line[s]]

-----------------------------------------------------------------------------
(* The read side of the FIFO *)

\* Words become known in the order they were written, several at once as the write
\* pointer crosses.
Arrivals == IF reset \/ (QuietStart /\ init_active) THEN {0} ELSE 0 .. Capacity - known

Fifo ==
  LET read == IF fifo_read THEN 1 ELSE 0 IN
  /\ \E n \in Arrivals : known' = known - read + n
  /\ full_count' = IF reset THEN 0 ELSE known - read
  /\ oaddr' = (oaddr + read) % (2 * TOTAL_PIXEL_FIFO_WORDS)
  /\ oaddr_q' = oaddr
  /\ fifo_data' = oaddr_q
  /\ ord_q' = fifo_read
  /\ fifo_data_valid' = ord_q

Tick ==
  /\ reset' \in BOOLEAN /\ (reset' => reset)
  /\ FrameControl /\ DelayBlank
  /\ ReadControl /\ DelayControl
  /\ ShiftRegister /\ InitPixels /\ StringDrivers
  /\ Fifo

Next == Tick

\* The clock runs and the reset is released.  Nothing makes words arrive: were known'
\* free here, fairness would deliver the word that a frame is short of.
Fairness == WF_vars(Tick /\ ~reset' /\ known' <= known)

Spec == Init /\ [][Next]_vars /\ Fairness

-----------------------------------------------------------------------------
(* Properties *)

TypeOK ==
  /\ {reset, frame_active, h_blank, h_blank_q, fifo_read, flush_shift_reg,
      fifo_shift_reg_primed, must_wait_for_ready, next_word_completes_pixel, init_active,
      init_data_valid, ord_q, fifo_data_valid} \subseteq BOOLEAN
  /\ pixels_remaining \in 0 .. N_LEDS_PER_STRING - 1
  /\ bytes_remaining \in 0 .. BYTES_PER_COL + FIFO_DATA_BYTES + 1
  /\ flush_timer \in 0 .. FLUSH_TICKS - 1
  /\ fifo_shift_count \in 0 .. 2 /\ active_string \in Strings
  /\ shift_data_valid \subseteq Strings /\ destination \in Strings \X Strings
  /\ init_pixels_remaining \in 0 .. N_LEDS_PER_STRING
  /\ known \in 0 .. Capacity /\ full_count \in 0 .. Capacity
  /\ oaddr \in Words /\ oaddr_q \in Words /\ fifo_data \in Words

\* The bits that string s has to be sent for frame f (0 and 1 in turn): pixel number
\* i * N_STRINGS + s of the frame for its LED i, each bit of it once, in order.
PixelOf(f, s, i) ==
  LET first == f * TOTAL_PIXEL_BYTES + 3 * (i * N_STRINGS + s)
  IN <<first, first + 1, first + 2>>

BitsOf(pixels) ==
  [j \in 1 .. N_LEDS_PER_STRING * DATA_WIDTH |->
     Shifted(pixels[(j - 1) \div DATA_WIDTH], (j - 1) % DATA_WIDTH)]

Picture ==
  [f \in {0, 1} |->
     [s \in Strings |-> BitsOf([i \in 0 .. N_LEDS_PER_STRING - 1 |-> PixelOf(f, s, i)])]]
AllClear      == BitsOf([i \in 0 .. N_LEDS_PER_STRING - 1 |-> InitColor])

\* parallel_strings.v:1-5: whatever arrives when, the bits on every wire since the last
\* blanking are the beginning of what that string has to show of one and the same frame.
EveryBitInPlace ==
  \/ \A s \in Strings : IsPrefix(line[s], AllClear)
  \/ \E f \in {0, 1} : \A s \in Strings : IsPrefix(line[s], Picture[f][s])

\* parallel_strings.v:51-53: the pixel that is left in the shift register at the end of
\* a frame is flushed out of it.  So no string is blanked, which makes its LEDs show
\* what they were sent, before it was sent a whole frame.
BlankedWhenComplete ==
  [][\A s \in Strings : line[s] # <<>> /\ line'[s] = <<>>
                          => Len(line[s]) = N_LEDS_PER_STRING * DATA_WIDTH]_vars

\* parallel_strings.v:65-70: between two frames whole frames have been taken out of the
\* FIFO, and it is never read when it is empty.
WholeFramesTaken ==
  /\ ~frame_active => oaddr % TOTAL_PIXEL_FIFO_WORDS = 0
  /\ fifo_read => known > 0

\* Once there is a whole frame in the FIFO it is sent to the strings, except its last
\* pixel (BlankedWhenComplete says why).
AllButLastPixel(f) ==
  \A s \in Strings :
    /\ IsPrefix(line[s], Picture[f][s])
    /\ s < N_STRINGS - 1 => line[s] = Picture[f][s]
    /\ Len(line[s]) >= (N_LEDS_PER_STRING - 1) * DATA_WIDTH

FrameIsShown ==
  \A f \in {0, 1} :
    full_count >= TOTAL_PIXEL_FIFO_WORDS /\ ~frame_active /\ oaddr = f * TOTAL_PIXEL_FIFO_WORDS
      ~> AllButLastPixel(f)

=============================================================================
