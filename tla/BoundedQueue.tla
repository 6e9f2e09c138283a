---------------------------- MODULE BoundedQueue ----------------------------
(***************************************************************************)
(* What hdl/fifo/simple_fifo.sv promises its two users: a queue of Depth   *)
(* words.  Words come out in the order they went in, one per edge of the   *)
(* reader's clock at most, and no more than Depth are held.  Once an       *)
(* overflow or an underflow is flagged, nothing is promised any more.      *)
(***************************************************************************)
EXTENDS Naturals, Sequences

CONSTANTS Data, Depth

VARIABLES
  q,     (* the words held, the oldest first                     *)
  out,   (* the word shown to the reader: <<>> or <<word>>       *)
  err    (* an overflow or an underflow was flagged              *)

qvars == <<q, out, err>>

Init == q = <<>> /\ out = <<>> /\ ~err

\* One edge of the reader's clock: the oldest word is shown, or none.
Show == \/ q # <<>> /\ out' = <<Head(q)>> /\ q' = Tail(q)
        \/ out' = <<>> /\ q' = q

\* One edge of the writer's clock.
Put(w) == Len(q) < Depth /\ q' = Append(q, w) /\ UNCHANGED out

\* One edge of both: there is room for the new word beside those already held.
PutAndShow(w) ==
  /\ Len(q) < Depth
  /\ \/ q # <<>> /\ out' = <<Head(q)>> /\ q' = Append(Tail(q), w)
     \/ out' = <<>> /\ q' = Append(q, w)

Next == /\ ~err
        /\ \/ /\ ~err'
              /\ Show \/ \E w \in Data : Put(w) \/ PutAndShow(w)
           \/ err'

Spec == Init /\ [][Next]_qvars

=============================================================================
