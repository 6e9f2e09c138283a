-------------------------- MODULE VectorXingProofs --------------------------
(***************************************************************************)
(* Proofs about the clock crossing, for every set of words and every ratio *)
(* of the clocks the theorems name.                                        *)
(***************************************************************************)
EXTENDS VectorXing, TLAPS

USE DataAssumption, ClockAssumption, PushAssumption DEF DataAssumption, ClockAssumption, PushAssumption

-----------------------------------------------------------------------------
(* The ring of toggles                                                     *)

LEMMA InitXingInv == Init => XingInv
<1> SUFFICES ASSUME Init PROVE XingInv
  OBVIOUS
<1>1. EventXingInit /\ idata_q = Zero /\ odata = Zero /\ iticks = 0
  BY Zenon DEF Init
<1>2. odata_valid \in BOOLEAN /\ ireset \in BOOLEAN /\ oreset \in BOOLEAN
  BY Zenon DEF Init
<1>3. TypeOK
  BY <1>1, <1>2 DEF TypeOK, EventXingInit
<1>4. OneEdgeInRing /\ QuietInReset
  BY <1>1 DEF OneEdgeInRing, QuietInReset, EventXingInit
<1>5. QED
  BY <1>3, <1>4 DEF XingInv

LEMMA TypeOKStep == TypeOK /\ Next => TypeOK'
<1> SUFFICES ASSUME TypeOK, Next PROVE TypeOK'
  OBVIOUS
<1> USE DEF TypeOK
<1>1. CASE ITick
  BY <1>1 DEF ITick, IStep, IEdge, Pushes, IFlops, ISample, iready, onear_toggle, ovars
<1>2. CASE OTick
  BY <1>2 DEF OTick, OEdge, Captures, CapturedWords, OFlops, OSample, oevent, ivars
<1>3. CASE BothTick
  BY <1>3 DEF BothTick, IStep, IEdge, Pushes, IFlops, ISample, iready, onear_toggle,
              OEdge, Captures, CapturedWords, OFlops, OSample, oevent
<1>4. QED
  BY <1>1, <1>2, <1>3 DEF Next

\* One edge of either clock moves the one boundary of the ring forward, or starts a new
\* one when there is none: inear_toggle flips only when it equals ifar_toggle.
LEMMA RingStep == XingInv /\ Next => OneEdgeInRing' /\ QuietInReset'
<1> SUFFICES ASSUME XingInv, Next PROVE OneEdgeInRing' /\ QuietInReset'
  OBVIOUS
<1> USE DEF XingInv, TypeOK, OneEdgeInRing, QuietInReset
<1>1. CASE ITick
  BY <1>1 DEF ITick, IStep, IEdge, Pushes, IFlops, ISample, iready, onear_toggle, ovars
<1>2. CASE OTick
  BY <1>2 DEF OTick, OEdge, Captures, CapturedWords, OFlops, OSample, oevent, ivars
<1>3. CASE BothTick
  BY <1>3 DEF BothTick, IStep, IEdge, Pushes, IFlops, ISample, iready, onear_toggle,
              OEdge, Captures, CapturedWords, OFlops, OSample, oevent
<1>4. QED
  BY <1>1, <1>2, <1>3 DEF Next

LEMMA XingInvStep == XingInv /\ [Next]_vars => XingInv'
<1>1. XingInv /\ Next => XingInv'
  BY TypeOKStep, RingStep DEF XingInv
<1>2. XingInv /\ UNCHANGED vars => XingInv'
  BY DEF XingInv, TypeOK, OneEdgeInRing, QuietInReset, vars, xvars, ivars, ovars
<1>3. QED
  BY <1>1, <1>2

\* Whatever the clocks do, no toggle of event_xing is overtaken by the next one.
THEOREM RingInvariant == Spec => []XingInv
  BY InitXingInv, XingInvStep, PTL DEF Spec

-----------------------------------------------------------------------------
(* The event is never lost, doubled or invented                            *)

\* One step of the ring is one step of the mailbox, or none.
LEMMA EventStep == XingInv /\ [Next]_vars => [Mailbox!Next]_EventPhase
<1> SUFFICES ASSUME XingInv, [Next]_vars PROVE [Mailbox!Next]_EventPhase
  OBVIOUS
<1> USE DEF XingInv, TypeOK, OneEdgeInRing, QuietInReset, EventPhase, iready,
            Mailbox!Next, Mailbox!Send, Mailbox!See, Mailbox!Ack
<1>1. CASE ITick
  BY <1>1 DEF ITick, IStep, IEdge, Pushes, IFlops, ISample, onear_toggle, ovars
<1>2. CASE OTick
  BY <1>2 DEF OTick, OEdge, OFlops, OSample, ivars
<1>3. CASE BothTick
  BY <1>3 DEF BothTick, IStep, IEdge, Pushes, IFlops, ISample, onear_toggle,
              OEdge, OFlops, OSample
<1>4. CASE UNCHANGED vars
  BY <1>4 DEF vars, xvars, ivars, ovars
<1>5. QED
  BY <1>1, <1>2, <1>3, <1>4 DEF Next

\* event_xing.sv:6-11, for every pair of clocks: an event that is accepted is seen
\* exactly once, and only then is the sender ready again.
THEOREM EventExactlyOnce == Spec => Mailbox!Safe
<1>1. Init => Mailbox!Init
  BY DEF Init, EventXingInit, EventPhase, iready, Mailbox!Init
<1>2. QED
  BY <1>1, EventStep, RingInvariant, PTL DEF Spec, Mailbox!Safe

-----------------------------------------------------------------------------
(* The word is stable: clocks where at most two edges of iclk fit          *)

\* While an event is seen, the i side has had too few edges to know of it.
SlowTimeline ==
  oevent => /\ inear_toggle = ofar_toggle
            /\ iticks = 0 => ifar_toggle_ms = ifar_toggle /\ ifar_toggle # ofar_toggle
            /\ iticks = 1 => ifar_toggle # ofar_toggle

LEMMA SlowTimelineStep ==
  IMax <= 2 /\ XingInv /\ SlowTimeline /\ Next => SlowTimeline'
<1> SUFFICES ASSUME IMax <= 2, XingInv, SlowTimeline, Next PROVE SlowTimeline'
  OBVIOUS
<1> USE DEF XingInv, TypeOK, OneEdgeInRing, QuietInReset, SlowTimeline, oevent, iready
<1>1. CASE ITick
  BY <1>1 DEF ITick, IStep, IEdge, Pushes, IFlops, ISample, onear_toggle, ovars
<1>2. CASE OTick
  BY <1>2 DEF OTick, OEdge, OFlops, OSample, ivars
<1>3. CASE BothTick
  BY <1>3 DEF BothTick, IStep, IEdge, Pushes, IFlops, ISample, onear_toggle,
              OEdge, OFlops, OSample
<1>4. QED
  BY <1>1, <1>2, <1>3 DEF Next

LEMMA SlowTimelineInvariant == IMax <= 2 /\ Spec => []SlowTimeline
<1>1. Init => SlowTimeline
  BY DEF Init, EventXingInit, SlowTimeline, oevent
<1>2. SlowTimeline /\ UNCHANGED vars => SlowTimeline'
  BY DEF SlowTimeline, oevent, vars, xvars, ivars, ovars
<1>3. ASSUME IMax <= 2 PROVE XingInv /\ SlowTimeline /\ [Next]_vars => SlowTimeline'
  BY <1>2, <1>3, SlowTimelineStep
<1>4. ASSUME IMax <= 2 PROVE Spec => []SlowTimeline
  <2>1. XingInv /\ SlowTimeline /\ [Next]_vars => SlowTimeline'
    BY <1>3, <1>4
  <2>2. QED
    BY <1>1, <2>1, RingInvariant, PTL DEF Spec
<1>5. QED
  BY <1>4

LEMMA SlowNoPush == ASSUME IMax <= 2, XingInv, SlowTimeline, oevent, [Next]_vars
                    PROVE  UNCHANGED idata_q
<1> USE DEF XingInv, TypeOK, QuietInReset, SlowTimeline, oevent, iready
<1>1. CASE ITick
  BY <1>1 DEF ITick, IStep, IEdge, Pushes, ovars
<1>2. CASE OTick
  BY <1>2 DEF OTick
<1>3. CASE BothTick
  BY <1>3 DEF BothTick, IStep, IEdge, Pushes
<1>4. CASE UNCHANGED vars
  BY <1>4 DEF vars
<1>5. QED
  BY <1>1, <1>2, <1>3, <1>4 DEF Next

\* vector_xing.sv:58-59 holds of every pair of clocks in which no closed period of
\* oclk holds a third edge of iclk, whoever pushes.
THEOREM StableWhenSlow == IMax <= 2 /\ Spec => StableOnEvent
<1>1. ASSUME IMax <= 2 PROVE Spec => StableOnEvent
  <2>1. XingInv /\ SlowTimeline /\ [Next]_vars => [oevent => UNCHANGED idata_q]_vars
    BY <1>1, SlowNoPush
  <2>2. Spec => []SlowTimeline
    BY <1>1, SlowTimelineInvariant
  <2>3. QED
    BY <2>1, <2>2, RingInvariant, PTL DEF Spec, StableOnEvent
<1>2. QED
  BY <1>1

\* With two flops each way and no third edge, each word crosses whole.
LEMMA WordStep ==
  IMax <= 2 /\ XingInv /\ SlowTimeline /\ [Next]_vars => [Words!Next]_(Words!mvars)
<1> SUFFICES ASSUME IMax <= 2, XingInv, SlowTimeline, [Next]_vars
             PROVE  [Words!Next]_(Words!mvars)
  OBVIOUS
<1> USE DEF XingInv, TypeOK, OneEdgeInRing, QuietInReset, SlowTimeline, WordPhase, iready,
            oevent, Words!mvars, Words!Next, Words!Push, Words!Deliver, Words!Ack
<1>1. CASE ITick
  BY <1>1 DEF ITick, IStep, IEdge, Pushes, IFlops, ISample, onear_toggle, ovars
<1>2. CASE OTick
  BY <1>2 DEF OTick, OEdge, Captures, CapturedWords, OFlops, OSample, ivars
<1>3. CASE BothTick
  BY <1>3 DEF BothTick, IStep, IEdge, Pushes, IFlops, ISample, onear_toggle,
              OEdge, Captures, CapturedWords, OFlops, OSample
<1>4. CASE UNCHANGED vars
  BY <1>4 DEF vars, xvars, ivars, ovars
<1>5. QED
  BY <1>1, <1>2, <1>3, <1>4 DEF Next

\* vector_xing.sv:1-5 for the same clocks: each pushed word is handed out exactly once,
\* whole, before the next one is accepted.
THEOREM WordExactlyOnce == IMax <= 2 /\ Spec => Words!Safe
<1>1. ASSUME IMax <= 2 PROVE Spec => Words!Safe
  <2>1. XingInv /\ SlowTimeline /\ [Next]_vars => [Words!Next]_(Words!mvars)
    BY <1>1, WordStep
  <2>2. Spec => []SlowTimeline
    BY <1>1, SlowTimelineInvariant
  <2>3. Init => Words!Init
    BY DEF Init, EventXingInit, WordPhase, iready, Words!Init
  <2>4. QED
    BY <2>1, <2>2, <2>3, RingInvariant, PTL DEF Spec, Words!Safe
<1>2. QED
  BY <1>1

-----------------------------------------------------------------------------
(* The word is whole: clocks where at least five edges of iclk fit         *)

\* The edges of iclk that follow an event: the acknowledgement takes two of them to
\* return, the next word is pushed at the third, and nothing moves after that.
FastTimeline ==
  oevent => /\ iticks = 0 => /\ ifar_toggle_ms = ifar_toggle /\ ifar_toggle # ofar_toggle
                             /\ inear_toggle = ofar_toggle
            /\ iticks = 1 => ifar_toggle # ofar_toggle /\ inear_toggle = ofar_toggle
            /\ iticks >= 2 => ifar_toggle_ms = ofar_toggle
            /\ iticks = 2 => inear_toggle = ofar_toggle \/ ifar_toggle = ofar_toggle
            /\ iticks >= 3 => ifar_toggle = ofar_toggle
            /\ iticks >= 4 => inear_toggle # ofar_toggle

\* An eager push flips the toggle and takes a new word whenever that is possible.
LEMMA EagerIStep ==
  ASSUME EagerPush, XingInv, ~ireset, IStep
  PROVE  /\ inear_toggle' = IF iready THEN 1 - inear_toggle ELSE inear_toggle
         /\ ifar_toggle' = ifar_toggle_ms
         /\ ~iready => UNCHANGED idata_q
<1>1. PICK ipush \in BOOLEAN, idata \in Data :
        (EagerPush => (ipush <=> iready)) /\ IEdge(ipush, idata)
  BY Zenon DEF IStep
<1>2. ipush <=> iready
  BY <1>1, Zenon
<1>3. QED
  BY <1>1, <1>2 DEF IEdge, Pushes, IFlops

LEMMA FastTimelineStep ==
  EagerPush /\ XingInv /\ FastTimeline /\ Next => FastTimeline'
<1> SUFFICES ASSUME EagerPush, XingInv, FastTimeline, Next PROVE FastTimeline'
  OBVIOUS
<1> USE DEF XingInv, TypeOK, OneEdgeInRing, QuietInReset, FastTimeline, oevent, iready
<1>1. CASE ITick
  <2>1. CASE ireset
    BY <1>1, <2>1 DEF ITick, ovars
  <2>2. CASE ~ireset
    <3>1. /\ inear_toggle' = IF ifar_toggle = inear_toggle THEN 1 - inear_toggle ELSE inear_toggle
          /\ ifar_toggle' = ifar_toggle_ms
          /\ ifar_toggle_ms' = ofar_toggle
          /\ UNCHANGED ovars
          /\ iticks' = iticks + 1
      BY <1>1, <2>2, EagerIStep DEF ITick, ISample, onear_toggle, ovars
    <3>2. QED
      BY <3>1 DEF ovars
  <2>3. QED
    BY <2>1, <2>2
<1>2. CASE OTick
  BY <1>2 DEF OTick, OEdge, OFlops, OSample, ivars
<1>3. CASE BothTick
  BY <1>3 DEF BothTick, IStep, IEdge, Pushes, IFlops, ISample, onear_toggle,
              OEdge, OFlops, OSample
<1>4. QED
  BY <1>1, <1>2, <1>3 DEF Next

LEMMA FastTimelineInvariant == EagerPush /\ Spec => []FastTimeline
<1>1. Init => FastTimeline
  BY DEF Init, EventXingInit, FastTimeline, oevent
<1>2. FastTimeline /\ UNCHANGED vars => FastTimeline'
  BY DEF FastTimeline, oevent, vars, xvars, ivars, ovars
<1>3. ASSUME EagerPush PROVE Spec => []FastTimeline
  <2>1. XingInv /\ FastTimeline /\ [Next]_vars => FastTimeline'
    BY <1>2, <1>3, FastTimelineStep
  <2>2. QED
    BY <1>1, <2>1, RingInvariant, PTL DEF Spec
<1>4. QED
  BY <1>3

\* The word is captured at the edge that ends the period, and no word is taken there.
LEMMA PublishedStep ==
  ASSUME EagerPush, IMin >= 5, XingInv, FastTimeline, [Next]_vars
  PROVE  [Published!Next]_(Published!rvars)
<1> USE DEF XingInv, TypeOK, QuietInReset,
            Published!Next, Published!Publish, Published!Arrive, Published!rvars
<1>1. CASE ITick
  BY <1>1, TypeOKStep DEF ITick, Next
<1>2. CASE OTick
  BY <1>2 DEF OTick, OEdge, Captures, CapturedWords
<1>3. CASE BothTick
  <2>1. idata_q' \in Data
    BY <1>3, TypeOKStep DEF Next
  <2>2. CASE Captures
    <3>1. ~ireset
      BY <2>2 DEF Captures, oevent
    <3>2. ~iready
      BY <1>3, <2>2 DEF BothTick, Captures, FastTimeline, oevent, iready
    <3>3. UNCHANGED idata_q
      BY <1>3, <3>1, <3>2, EagerIStep DEF BothTick
    <3>4. QED
      BY <1>3, <2>2, <3>3 DEF BothTick, OEdge, Captures, CapturedWords
  <2>3. CASE ~Captures
    BY <1>3, <2>1, <2>3 DEF BothTick, OEdge, Captures
  <2>4. QED
    BY <2>2, <2>3
<1>4. CASE UNCHANGED vars
  BY <1>4 DEF vars
<1>5. QED
  BY <1>1, <1>2, <1>3, <1>4 DEF Next

\* fifo_counter_half.sv:53-66: with five or more edges of iclk in every closed period of
\* oclk, a pointer that is pushed whenever the crossing is ready arrives whole and in
\* order, although it is not stable while the event is seen.
THEOREM WordsInOrderWhenFast == EagerPush /\ IMin >= 5 /\ Spec => WordsInOrder
<1>1. ASSUME EagerPush, IMin >= 5 PROVE Spec => WordsInOrder
  <2>1. XingInv /\ FastTimeline /\ [Next]_vars => [Published!Next]_(Published!rvars)
    BY <1>1, PublishedStep
  <2>2. Spec => []FastTimeline
    BY <1>1, FastTimelineInvariant
  <2>3. Init => Published!Init
    BY DEF Init, Published!Init
  <2>4. QED
    BY <2>1, <2>2, <2>3, RingInvariant, PTL DEF Spec, WordsInOrder, Published!Safe
<1>2. QED
  BY <1>1

=============================================================================
