--------------------------- MODULE MCPackageWriter ---------------------------
(* Instances of PackageWriter for TLC. *)
EXTENDS PackageWriter

CONSTANTS A, B

MCItems == 1..6
\* One dense tensor after the other, then experts in batches, then PLE shards.
MCRegion == [i \in MCItems |-> IF i <= 2 THEN "dense" ELSE IF i <= 5 THEN "experts" ELSE "ple"]
MCBatchSize == [dense |-> 1, experts |-> 2, ple |-> 1]

\* Two plans, every build resumed.
ResumeTwoPlans   == {A, B} \X {TRUE}
MCPlans == {A, B}
==============================================================================
