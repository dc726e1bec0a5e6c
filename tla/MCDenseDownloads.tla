-------------------------- MODULE MCDenseDownloads --------------------------
(* Instances of DenseDownloads for TLC. *)
EXTENDS DenseDownloads

CONSTANTS d1, d2, d3, d4

MCItems4 == {d1, d2, d3, d4}
MCPlan4  == <<d1, d2, d3, d4>>
\* d4 is twice the size of the others.
MCSize == [i \in Items |-> IF i = d4 THEN 2 ELSE 1]
\* Three small items fit the first limit; d4 never fits the second.
WideAndNarrow == {6, 3}
NoItems == {}
=============================================================================
