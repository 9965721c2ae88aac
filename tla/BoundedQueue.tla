---------------------------- MODULE BoundedQueue ----------------------------
(***************************************************************************)
(* What a queue of DEPTH entries does at a clock edge, as a sequence.  An  *)
(* entry can enter and another leave at the same edge; a full queue takes  *)
(* nothing even when its head leaves.  A flush empties it.                 *)
(***************************************************************************)
EXTENDS Naturals, Sequences

CONSTANTS DEPTH, Data

VARIABLE q

Init == q = <<>>

Clock(push, data, pop) ==
  /\ push => Len(q) # DEPTH
  /\ pop => q # <<>>
  /\ q' = LET rest == IF pop THEN Tail(q) ELSE q
          IN  IF push THEN Append(rest, data) ELSE rest

Flush == q' = <<>>

Next == Flush \/ \E push, pop \in BOOLEAN, data \in Data : Clock(push, data, pop)

Spec == Init /\ [][Next]_q
=============================================================================
