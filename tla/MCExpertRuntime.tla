--------------------------- MODULE MCExpertRuntime ---------------------------
(* Instances of ExpertRuntime for TLC. *)
EXTENDS ExpertRuntime

CONSTANTS k1, k2, k3, k4, k5, w1

ThreeKeys == {k1, k2, k3}
FourKeys == {k1, k2, k3, k4}
FiveKeys == {k1, k2, k3, k4, k5}
NoWorkers == {}
OneWorker == {w1}

\* No expert is named by the code: for invariants only.
Symmetry == Permutations(FiveKeys)
==============================================================================
