----------------------------- MODULE MCPageStore -----------------------------
(* Instances of PageStore for TLC. *)
EXTENDS PageStore

CONSTANTS p1, p2, p3, a1, a2

MCPages1 == {p1}
MCPages3 == {p1, p2, p3}
MCActors2 == {a1, a2}
MCSlices2 == {0, 1}
UnitStride == [p \in Pages |-> 1]
\* One page is twice the size of the others.
MixedStride == [p \in Pages |-> IF p = p1 THEN 2 ELSE 1]

NoPages == {}
==============================================================================
