--------------------------- MODULE DenseDownloads ---------------------------
(***************************************************************************)
(* PackageWriter._iter_dense_tensors (package/writer.py) for a remote      *)
(* reader and several download workers: a generator that keeps up to       *)
(* Workers range fetches in flight within a budget of staging bytes and    *)
(* feeds their tensors, in plan order, to the loop of _write_dense.        *)
(***************************************************************************)
EXTENDS RangeFetch, FiniteSetsExt, SequencesExt

CONSTANTS
  Plan,           \* pending items in plan order
  Workers,        \* download_workers
  Limits,         \* the staging limits a build may be given
  None

ASSUME DenseDownloadsAssumption ==
  /\ Plan \in Seq(Items) /\ IsInjective(Plan)
  /\ Workers \in Nat \ {0, 1} /\ Limits \subseteq Nat \ {0}
  /\ None \notin Items

VARIABLES
  limit,     \* staging_limit, fixed when the generator starts
  pc,        \* where the generator is
  next,      \* position in Plan of next_item
  inflight,  \* items submitted and not yet taken, in order
  current,   \* the item taken last; its future is still referenced
  reserved,  \* bytes reserved
  failed,    \* the iteration ends with an exception
  fed        \* what the consumer was given (history)

generator == <<limit, pc, next, inflight, current, reserved, failed, fed>>
vars == <<fetching, generator>>

Init ==
  /\ FetchInit /\ limit \in Limits
  /\ pc = "submit" /\ next = 1 /\ inflight = <<>> /\ current = None
  /\ reserved = 0 /\ failed = FALSE /\ fed = <<>>

Reservation(i) == 2 * Size[i]

\* Mutant: the staging budget is not looked at.
FitsAlways(i) == TRUE

\* An item may join the others; alone it need only be within the limit.
Fits(i) == inflight = <<>> \/ reserved + Reservation(i) <= limit

More == next <= Len(Plan) /\ Len(inflight) < Workers

\* submit_available: one round of its loop.
Submit ==
  /\ pc = "submit" /\ More
  /\ LET i == Plan[next] IN
     /\ Reservation(i) <= limit
     /\ Fits(i)
     /\ Go(i, "queued")
     /\ inflight' = Append(inflight, i)
     /\ reserved' = reserved + Reservation(i)
  /\ next' = next + 1
  /\ UNCHANGED <<limit, cancel, late, pc, current, failed, fed>>

\* The next item can never fit.
RefuseItem ==
  /\ pc = "submit" /\ More
  /\ Reservation(Plan[next]) > limit
  /\ failed' = TRUE /\ pc' = "close"
  /\ UNCHANGED <<limit, fetching, next, inflight, current, reserved, fed>>

\* Nothing more can be submitted now.
Submitted ==
  /\ pc = "submit"
  /\ More => Reservation(Plan[next]) <= limit /\ ~Fits(Plan[next])
  /\ pc' = IF inflight = <<>> THEN "close" ELSE "take"
  /\ UNCHANGED <<limit, fetching, next, inflight, current, reserved, failed, fed>>

\* inflight.popleft(); the future taken before is let go.
Take ==
  /\ pc = "take"
  /\ current' = Head(inflight) /\ inflight' = Tail(inflight)
  /\ pc' = "await"
  /\ UNCHANGED <<limit, fetching, next, reserved, failed, fed>>

\* future.result() returns and the tensor is yielded, or it raises.
Await ==
  /\ pc = "await"
  /\ \/ /\ fetch[current].phase = "done"
        /\ fed' = Append(fed, [item |-> current, bytes |-> fetch[current].buf])
        /\ pc' = "yield" /\ UNCHANGED failed
     \/ /\ fetch[current].phase = "failed"
        /\ failed' = TRUE /\ pc' = "close" /\ UNCHANGED fed
  /\ UNCHANGED <<limit, fetching, next, inflight, current, reserved>>

\* KeyboardInterrupt while waiting.
Interrupt ==
  /\ pc = "await"
  /\ failed' = TRUE /\ pc' = "close"
  /\ UNCHANGED <<limit, fetching, next, inflight, current, reserved, fed>>

\* The consumer has written the tensor and asks for the next.
Resume ==
  /\ pc = "yield"
  /\ reserved' = reserved - Reservation(current)
  /\ pc' = "submit"
  /\ UNCHANGED <<limit, fetching, next, inflight, current, failed, fed>>

\* The consumer fails, and closes the generator at its yield.
Abandon ==
  /\ pc = "yield"
  /\ reserved' = reserved - Reservation(current)
  /\ failed' = TRUE /\ pc' = "close"
  /\ UNCHANGED <<limit, fetching, next, inflight, current, fed>>

\* The finally clause: cancel_event is set, ...
SetCancel ==
  /\ pc = "close"
  /\ cancel' = TRUE /\ pc' = "cancel"
  /\ UNCHANGED <<limit, fetch, late, next, inflight, current, reserved, failed, fed>>

\* ... the futures in flight are cancelled one by one, ...
CancelNext ==
  /\ pc = "cancel" /\ inflight # <<>>
  /\ Go(Head(inflight), IF fetch[Head(inflight)].phase = "queued" THEN "cancelled"
                        ELSE fetch[Head(inflight)].phase)
  /\ inflight' = Tail(inflight)
  /\ UNCHANGED <<limit, cancel, late, pc, next, current, reserved, failed, fed>>

\* ... shutdown cancels what is still queued ...
Shutdown ==
  /\ pc = "cancel" /\ inflight = <<>>
  /\ fetch' = [i \in Items |-> IF fetch[i].phase = "queued"
                               THEN [fetch[i] EXCEPT !.phase = "cancelled"]
                               ELSE fetch[i]]
  /\ pc' = "join"
  /\ UNCHANGED <<limit, cancel, late, next, inflight, current, reserved, failed, fed>>

\* Mutant: shutdown(wait=False).
JoinNothing ==
  /\ pc = "join"
  /\ pc' = "ended"
  /\ UNCHANGED <<limit, fetching, next, inflight, current, reserved, failed, fed>>

\* ... and waits for the threads.
Join ==
  /\ pc = "join"
  /\ \A i \in Items : fetch[i].phase \notin Running
  /\ pc' = "ended"
  /\ UNCHANGED <<limit, fetching, next, inflight, current, reserved, failed, fed>>

Generate ==
  \/ Submit \/ RefuseItem \/ Submitted \/ Take \/ Await \/ Resume
  \/ SetCancel \/ CancelNext \/ Shutdown \/ Join

Fetch(i) == FetchStep(i) /\ UNCHANGED generator

Next == Generate \/ Interrupt \/ Abandon \/ \E i \in Items : Fetch(i)

Spec == Init /\ [][Next]_vars

\* Every thread runs, the operations of the network end (they have a timeout),
\* and the consumer ends its work on a tensor, one way or the other.
FairSpec ==
  /\ Spec
  /\ WF_vars(Generate)
  /\ \A i \in Items : WF_vars(Fetch(i))
-----------------------------------------------------------------------------
(* Properties.                                                             *)

\* Every variable stays in its type; in particular the reservations stay
\* between nothing and the staging limit, and the pool's futures within its
\* threads.
TypeOK ==
  /\ fetch \in [Items -> Fetches] /\ cancel \in BOOLEAN
  /\ late \in [Items -> Nat]
  /\ pc \in {"submit", "take", "await", "yield", "close", "cancel", "join", "ended"}
  /\ next \in 1..(Len(Plan) + 1) /\ inflight \in Seq(Items)
  /\ Len(inflight) <= Workers
  /\ current \in Items \union {None}
  /\ limit \in Limits /\ reserved \in 0..limit /\ failed \in BOOLEAN
  /\ fed \in Seq([item : Items, bytes : Seq(Nat)])

\* The consumer is given the items in plan order, each once, and each with
\* exactly the bytes of its range, however often the connection broke
\* (fetch_remote_bytes; one write lane, writer.py).
FeedIsExact ==
  /\ Len(fed) <= Len(Plan)
  /\ \A k \in 1..Len(fed) :
       fed[k].item = Plan[k] /\ fed[k].bytes = Whole(Plan[k])

\* An iteration that ends without an exception has fed every pending item: the
\* staging budget delays items and drops none.
FeedIsWhole == pc = "ended" /\ ~failed => Len(fed) = Len(Plan)

Referenced == ToSet(inflight) \union ({current} \ {None})

\* Bytes held by downloads in flight and by the one being consumed.
Staged == MapThenSumSet(Memory, Referenced)

\* The memory of all downloads, those waiting to be written included, stays in
\* the staging limit.  Between a tensor's release and the next popleft the
\* generator still refers to its future, and only then may that one exceed it.
StagingBounded ==
  pc \in {"submit", "take", "await", "yield"} =>
    Staged <= limit
              + IF pc \in {"submit", "take"} /\ current # None THEN Memory(current) ELSE 0

\* Once the generator has ended, however it ends, no download runs or will: the
\* journal and the reader are not used behind the back of what comes next.
NothingRunsAfterEnd ==
  pc = "ended" => \A i \in Items : fetch[i].phase \notin Running \union {"queued"}

\* After cancel_event is set a download begins at most one more network
\* operation.
CancelIsPrompt == \A i \in Items : late[i] <= 1

\* The iteration ends: attempts run out, cancelled downloads stop, and the pool
\* is joined.
EventuallyEnds == <>(pc = "ended")

\* The writer is fed what the plan says: the right bytes, all of them unless an
\* exception ends the iteration.
FeedIsRight == FeedIsExact /\ FeedIsWhole

\* Types, and the staging limit.
StagingSound == TypeOK /\ StagingBounded

\* A cancelled download stops promptly, and none outlives the generator.
EndIsClean == NothingRunsAfterEnd /\ CancelIsPrompt
=============================================================================
