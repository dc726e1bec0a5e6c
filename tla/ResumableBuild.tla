--------------------------- MODULE ResumableBuild ---------------------------
(***************************************************************************)
(* What a package build promises whoever restarts it: the set of committed *)
(* work items only grows, whatever crashes and failures lie between, and   *)
(* the package is finished only when every item is committed.              *)
(* PackageWriter.tla implements this module.                               *)
(***************************************************************************)
CONSTANT Items

VARIABLES
  committed,   \* items a restart will not repeat
  published    \* whether the build says it is finished

buildVars == <<committed, published>>

BuildInit == committed = {} /\ published = FALSE

Commit ==
  /\ \E batch \in SUBSET (Items \ committed) : committed' = committed \union batch
  /\ UNCHANGED published

Publish ==
  /\ committed = Items
  /\ published' = TRUE
  /\ UNCHANGED committed

BuildSpec == BuildInit /\ [][Commit \/ Publish]_buildVars
==============================================================================
