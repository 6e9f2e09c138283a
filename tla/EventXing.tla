------------------------------ MODULE EventXing ------------------------------
(***************************************************************************)
(* hdl/clk_xing/event_xing.sv: carries a one-cycle event from the iclk     *)
(* domain to the oclk domain with a toggle flop, a two-flop synchroniser   *)
(* each way and an edge detector.                                          *)
(*                                                                         *)
(* The module gives the flops and what one clock edge does to them;        *)
(* VectorXing adds the data path, the clocks and the resets.  A clock edge *)
(* reads the values its registers had before the edge.  When both clocks   *)
(* tick in one step, the first flop of a synchroniser may catch the value  *)
(* of the other domain from before or from after the edge: that is what a  *)
(* metastable flop settles to.                                             *)
(***************************************************************************)
EXTENDS Naturals

VARIABLES
  inear_toggle,     (* iclk: flips once for every accepted event            *)
  ifar_toggle_ms,   (* iclk: first flop of the return synchroniser          *)
  ifar_toggle,      (* iclk: the acknowledgement as the i side sees it      *)
  ofar_toggle_ms,   (* oclk: first flop of the forward synchroniser         *)
  ofar_toggle,      (* oclk: the toggle as the o side sees it               *)
  ofar_toggle_q     (* oclk: ofar_toggle one cycle earlier                  *)

ivars == <<inear_toggle, ifar_toggle_ms, ifar_toggle>>
ovars == <<ofar_toggle_ms, ofar_toggle, ofar_toggle_q>>

xvars == <<ivars, ovars>>

EventXingInit ==
  /\ inear_toggle = 0
  /\ ifar_toggle_ms = 0
  /\ ifar_toggle = 0
  /\ ofar_toggle_ms = 0
  /\ ofar_toggle = 0
  /\ ofar_toggle_q = 0

-----------------------------------------------------------------------------
(* The combinational outputs. *)

\* No event is in flight: the toggle that was sent is the toggle that returned.
iready == ifar_toggle = inear_toggle

\* Mutant: the acknowledgement is taken one flop too early.
onear_toggle_early == ofar_toggle_ms

\* The o side returns what it sees at once, without waiting for anything.
onear_toggle == ofar_toggle

\* The event is observed in the cycle after ofar_toggle flips.
oevent == ofar_toggle # ofar_toggle_q

-----------------------------------------------------------------------------
(* One edge of each clock.  ISample and OSample are the flops that look at *)
(* the other domain; when that domain does not tick in the same step both  *)
(* elements of the set are equal.                                          *)

\* Mutant: an event is accepted whether or not the last one came back.
IFlopsAnyTime(ireset, ievent) ==
  IF ireset
  THEN inear_toggle' = 0 /\ ifar_toggle' = 0
  ELSE /\ inear_toggle' = IF ievent THEN 1 - inear_toggle ELSE inear_toggle
       /\ ifar_toggle' = ifar_toggle_ms

IFlops(ireset, ievent) ==
  IF ireset
  THEN inear_toggle' = 0 /\ ifar_toggle' = 0
  ELSE /\ inear_toggle' = IF iready /\ ievent THEN 1 - inear_toggle ELSE inear_toggle
       /\ ifar_toggle' = ifar_toggle_ms

\* Mutant: the edge detector's delay flop taps the same signal as its input.
OFlopsSameTap(oreset) ==
  IF oreset
  THEN ofar_toggle' = 0 /\ ofar_toggle_q' = 0
  ELSE ofar_toggle' = ofar_toggle_ms /\ ofar_toggle_q' = ofar_toggle_ms

OFlops(oreset) ==
  IF oreset
  THEN ofar_toggle' = 0 /\ ofar_toggle_q' = 0
  ELSE /\ ofar_toggle' = ofar_toggle_ms
       /\ ofar_toggle_q' = ofar_toggle

ISample(ireset) ==
  ifar_toggle_ms' \in IF ireset THEN {0} ELSE {onear_toggle, onear_toggle'}

OSample(oreset) ==
  ofar_toggle_ms' \in IF oreset THEN {0} ELSE {inear_toggle, inear_toggle'}

=============================================================================
