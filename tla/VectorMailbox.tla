---------------------------- MODULE VectorMailbox ----------------------------
(***************************************************************************)
(* What the header of hdl/clk_xing/vector_xing.sv promises: each value the *)
(* i side hands over while ready appears on the o side exactly once, whole *)
(* and unchanged, and the next one is accepted only after that.            *)
(***************************************************************************)

CONSTANTS
  Data,     (* the values that are transferred       *)
  Zero      (* the value both registers hold at reset *)

VARIABLES phase, msg, odata

mvars == <<phase, msg, odata>>

Init == phase = "ready" /\ msg = Zero /\ odata = Zero

Push(v) == /\ phase = "ready"
           /\ phase' = "sent"
           /\ msg' = v
           /\ UNCHANGED odata

\* The acknowledgement travels back beside the word and may be there at once.
Deliver == /\ phase = "sent"
           /\ phase' \in {"seen", "ready"}
           /\ odata' = msg
           /\ UNCHANGED msg

Ack     == /\ phase = "seen"
           /\ phase' = "ready"
           /\ UNCHANGED <<msg, odata>>

Next == (\E v \in Data : Push(v)) \/ Deliver \/ Ack

Safe == Init /\ [][Next]_mvars

Spec == Safe /\ WF_mvars(Deliver) /\ WF_mvars(Ack)

=============================================================================
