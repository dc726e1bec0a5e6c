------------------------------ MODULE PageCache ------------------------------
(***************************************************************************)
(* What the local expert-page cache promises the code that uses it: a page *)
(* is either available, whole and exact, or it is not there at all; a      *)
(* caller that was handed a page keeps it until it gives the handle back.  *)
(* PageStore.tla, the cache as domainslice/store.py builds it from files,  *)
(* a journal, an index and leases, implements this module.                 *)
(***************************************************************************)
CONSTANTS
  Pages,    \* page identities (WeightPageID)
  Actors,   \* threads that call CompositeWeightStore.materialize
  None      \* "no page"

VARIABLES
  avail,    \* pages whose exact bytes are published
  use       \* use[a]: the page actor a holds a handle on, or None

cacheVars == <<avail, use>>

CacheInit ==
  /\ avail = {}
  /\ use = [a \in Actors |-> None]

\* The whole page appears in one step, or not at all.
Publish(p) ==
  /\ avail' = avail \union {p}
  /\ UNCHANGED use

\* A page may go (eviction, decay) only while nobody uses it.
Withdraw(p) ==
  /\ \A a \in Actors : use[a] # p
  /\ avail' = avail \ {p}
  /\ UNCHANGED use

Acquire(a, p) ==
  /\ use[a] = None
  /\ p \in avail
  /\ use' = [use EXCEPT ![a] = p]
  /\ UNCHANGED avail

GiveBack(a) ==
  /\ use' = [use EXCEPT ![a] = None]
  /\ UNCHANGED avail

\* The process dies: every handle is gone, every published page stays.
Restart ==
  /\ use' = [a \in Actors |-> None]
  /\ UNCHANGED avail

CacheNext ==
  \/ \E p \in Pages : Publish(p) \/ Withdraw(p)
  \/ \E a \in Actors, p \in Pages : Acquire(a, p)
  \/ \E a \in Actors : GiveBack(a)
  \/ Restart

CacheSpec == CacheInit /\ [][CacheNext]_cacheVars
==============================================================================
