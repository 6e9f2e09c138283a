---------------------------- MODULE EventMailbox ----------------------------
(***************************************************************************)
(* What hdl/clk_xing/event_xing.sv promises, whatever the two clocks do:   *)
(* an accepted event is seen exactly once on the other side, and only then *)
(* is the sender ready for the next one.                                   *)
(***************************************************************************)

VARIABLE phase      (* "ready", "sent" or "seen" *)

Init == phase = "ready"

Send == phase = "ready" /\ phase' = "sent"

See  == phase = "sent"  /\ phase' = "seen"

Ack  == phase = "seen"  /\ phase' = "ready"

Next == Send \/ See \/ Ack

Safe == Init /\ [][Next]_phase

Spec == Safe /\ WF_phase(See) /\ WF_phase(Ack)

=============================================================================
