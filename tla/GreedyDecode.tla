---------------------------- MODULE GreedyDecode ----------------------------
(***************************************************************************)
(* What text generation promises: the text grows by one token of the goal  *)
(* at a time, and ends only before an eos or at the limit.                 *)
(***************************************************************************)
EXTENDS Integers, Sequences

CONSTANT EosIds
VARIABLES goal, maxNew, text, ended

Init == text = <<>> /\ ended = FALSE

Grow ==
  /\ ~ended /\ goal[Len(text) + 1] \notin EosIds
  /\ Len(text) < maxNew \/ text = <<>>
  /\ text' = Append(text, goal[Len(text) + 1])
  /\ UNCHANGED ended

End ==
  /\ ~ended /\ ended' = TRUE
  /\ Len(text) >= maxNew \/ goal[Len(text) + 1] \in EosIds
  /\ UNCHANGED text

Spec == Init /\ [][(Grow \/ End) /\ UNCHANGED <<goal, maxNew>>]_<<goal, maxNew, text, ended>>
=============================================================================
