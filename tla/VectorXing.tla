----------------------------- MODULE VectorXing -----------------------------
(***************************************************************************)
(* hdl/clk_xing/vector_xing.sv: carries a word from the iclk domain to the *)
(* oclk domain.  The word is registered on the i side, an event crosses    *)
(* with event_xing, and the o side registers the word when the event       *)
(* appears.                                                                *)
(*                                                                         *)
(* The clocks run freely.  iticks counts the iclk edges since the last     *)
(* oclk edge, that edge included when both came together; IMin and IMax    *)
(* bound how many of them one oclk period, both its ends included, can     *)
(* hold.  clk_100 into clk_20 is 5..6; clk_20 into clk_100 is 0..1.        *)
(***************************************************************************)
EXTENDS EventXing

CONSTANTS
  Data,       (* the words that are transferred                            *)
  Zero,       (* '0, the word both registers hold after reset              *)
  IMin,       (* fewest and most iclk edges in a closed oclk period        *)
  IMax,
  EagerPush   (* TRUE: ipush is wired to iready, as fifo_counter_half does *)

ASSUME DataAssumption == Zero \in Data
ASSUME ClockAssumption == IMin \in Nat /\ IMax \in Nat \ {0} /\ IMin <= IMax
ASSUME PushAssumption == EagerPush \in BOOLEAN

VARIABLES
  idata_q,      (* iclk: the word registered when it was pushed            *)
  odata,        (* oclk: the word handed out                               *)
  odata_valid,  (* oclk: odata was updated at the last edge                *)
  ireset,       (* the domain's reset is still asserted                    *)
  oreset,
  iticks        (* iclk edges since the last oclk edge                     *)

vars == <<xvars, idata_q, odata, odata_valid, ireset, oreset, iticks>>

Init ==
  /\ EventXingInit
  /\ idata_q = Zero
  /\ odata = Zero
  /\ odata_valid = FALSE
  /\ ireset = TRUE
  /\ oreset = TRUE
  /\ iticks = 0

-----------------------------------------------------------------------------
\* reg_data takes the word at this edge.
Pushes(ipush) == ~ireset /\ iready /\ ipush

\* out_data takes the word at this edge.
Captures == ~oreset /\ oevent

\* Mutant: the word register has no enable.
IEdgeNoEnable(ipush, idata) ==
  /\ IFlops(ireset, ipush)
  /\ idata_q' = IF ireset THEN Zero ELSE idata
  /\ ireset' \in BOOLEAN /\ (ireset' => ireset)

IEdge(ipush, idata) ==
  /\ IFlops(ireset, ipush)
  /\ idata_q' = CASE ireset        -> Zero
                  [] Pushes(ipush) -> idata
                  [] OTHER         -> idata_q
  /\ ireset' \in BOOLEAN /\ (ireset' => ireset)

\* All of one word, or, when the register that is read changes at this very
\* edge, an arbitrary mixture of bits.
CapturedWords == IF idata_q' = idata_q THEN {idata_q} ELSE Data

OEdge ==
  /\ OFlops(oreset)
  /\ odata_valid' = Captures
  /\ odata' \in IF oreset THEN {Zero} ELSE IF oevent THEN CapturedWords ELSE {odata}
  /\ oreset' \in BOOLEAN /\ (oreset' => oreset)

-----------------------------------------------------------------------------
\* One iclk edge, with whatever the user of the i side presents at it.
IStep ==
  \E ipush \in BOOLEAN, idata \in Data :
    /\ EagerPush => (ipush <=> iready)
    /\ IEdge(ipush, idata)

ITick ==
  /\ iticks < IMax
  /\ IStep
  /\ UNCHANGED <<ovars, odata, odata_valid, oreset>>
  /\ ISample(ireset)
  /\ iticks' = iticks + 1

OTick ==
  /\ iticks >= IMin
  /\ UNCHANGED <<ivars, idata_q, ireset>>
  /\ OEdge
  /\ OSample(oreset)
  /\ iticks' = 0

BothTick ==
  /\ iticks < IMax
  /\ iticks + 1 >= IMin
  /\ IStep
  /\ OEdge
  /\ OSample(oreset)
  /\ ISample(ireset)
  /\ iticks' = 1

Next == ITick \/ OTick \/ BothTick

\* Free-running clocks: neither stops.  The PLL locks in the end and both resets are
\* released; their release is possible at any edge of the domain's own clock.
Fairness ==
  /\ WF_vars(ITick \/ BothTick)
  /\ WF_vars(OTick \/ BothTick)
  /\ SF_vars((ITick \/ BothTick) /\ ~ireset')
  /\ SF_vars((OTick \/ BothTick) /\ ~oreset')

Spec == Init /\ [][Next]_vars /\ Fairness

-----------------------------------------------------------------------------
(* Properties *)

TypeOK ==
  /\ inear_toggle \in {0, 1} /\ ifar_toggle_ms \in {0, 1} /\ ifar_toggle \in {0, 1}
  /\ ofar_toggle_ms \in {0, 1} /\ ofar_toggle \in {0, 1} /\ ofar_toggle_q \in {0, 1}
  /\ idata_q \in Data /\ odata \in Data
  /\ odata_valid \in BOOLEAN /\ ireset \in BOOLEAN /\ oreset \in BOOLEAN
  /\ iticks \in 0..IMax

\* The toggle travels round the ring inear -> o side -> i side.  At most one of the
\* four hops has not caught up with the hop before it.
OneEdgeInRing ==
  /\ inear_toggle # ofar_toggle_ms => /\ ofar_toggle_ms = ofar_toggle
                                      /\ ofar_toggle = ifar_toggle_ms
                                      /\ ifar_toggle_ms = ifar_toggle
  /\ ofar_toggle_ms # ofar_toggle  => /\ ofar_toggle = ifar_toggle_ms
                                      /\ ifar_toggle_ms = ifar_toggle
  /\ ofar_toggle # ifar_toggle_ms  => ifar_toggle_ms = ifar_toggle

\* A domain that is still in reset has seen nothing, and while the i side is in
\* reset there is nothing to see.
QuietInReset ==
  /\ ireset => /\ inear_toggle = 0 /\ ifar_toggle_ms = 0 /\ ifar_toggle = 0
               /\ ofar_toggle_ms = 0 /\ ofar_toggle = 0 /\ ofar_toggle_q = 0
               /\ idata_q = Zero
  /\ oreset => /\ ofar_toggle_ms = 0 /\ ofar_toggle = 0 /\ ofar_toggle_q = 0
               /\ odata = Zero

\* The types and the ring together: event_xing.sv:6-11, no toggle is overtaken by the
\* next one, whatever the clocks do and in whichever order the resets are released.
XingInv == TypeOK /\ OneEdgeInRing /\ QuietInReset

\* Where an event is, read off the toggles: equal near and o-side toggles mean it has
\* been seen, iready means the acknowledgement is back too.
EventPhase == CASE iready                                -> "ready"
                [] ~iready /\ ofar_toggle # inear_toggle -> "sent"
                [] OTHER                                 -> "seen"

Mailbox == INSTANCE EventMailbox WITH phase <- EventPhase

\* event_xing under any clocks: no event is lost, none is invented, and the sender is
\* ready again in the end.
EventCrossesOnce == Mailbox!Spec

\* A pushed word counts as delivered when odata has been written, one oclk edge after
\* the event was seen.
WordPhase == CASE ofar_toggle_q # inear_toggle            -> "sent"
               [] ofar_toggle_q = inear_toggle /\ ~iready -> "seen"
               [] OTHER                                   -> "ready"

Words == INSTANCE VectorMailbox WITH phase <- WordPhase, msg <- idata_q

\* vector_xing.sv:1-5: each pushed word appears in odata exactly once, whole, before
\* the next one can be pushed.
EachWordOnce == Words!Spec

\* vector_xing.sv:58-59: idata_q is guaranteed to be stable when oevent asserts.
StableOnEvent == [][oevent => UNCHANGED idata_q]_vars

Published == INSTANCE Relay WITH src <- idata_q, dst <- odata

\* What the FIFO relies on: odata is only ever overwritten by a whole word, the last
\* one published on the i side.
WordsInOrder == Published!Safe

\* A word that stays published arrives.
LastWordArrives == Published!Live

=============================================================================
