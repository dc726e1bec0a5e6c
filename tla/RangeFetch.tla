----------------------------- MODULE RangeFetch -----------------------------
(***************************************************************************)
(* stream_remote_bytes (metadata/safetensors_header.py): the bytes of a    *)
(* range are fetched by at most MaxAttempts requests, each for the suffix  *)
(* that is still missing, in blocks; and read_tensor (streaming/reader.py) *)
(* which turns them into a tensor.  One fetch per item, each run by a      *)
(* thread of the pool of the module that EXTENDS this one.                 *)
(*                                                                         *)
(* Byte k of an item's range is written k.  The server is external: it may *)
(* refuse, answer with something else than the range asked for, or stop at *)
(* any byte.                                                               *)
(***************************************************************************)
EXTENDS Integers, Sequences, FiniteSets

CONSTANTS
  Items,        \* ranges to fetch
  Size,         \* Size[i]: bytes of item i
  Widened,      \* items whose dtype becomes one of twice the width (FP8)
  BlockSize,    \* chunk_size
  MaxAttempts   \* max_attempts

ASSUME RangeFetchAssumption ==
  /\ IsFiniteSet(Items) /\ Size \in [Items -> Nat \ {0}]
  /\ Widened \subseteq Items
  /\ BlockSize \in Nat \ {0} /\ MaxAttempts \in Nat \ {0}

VARIABLES
  fetch,    \* fetch[i]: where the fetch of i is, see Fetches
  cancel,   \* cancel_event
  late      \* late[i]: requests and reads begun after cancel was set (history)

fetching == <<fetch, cancel, late>>

Running == {"attempt", "backoff", "open", "guard", "read", "convert"}
Phases  == Running \union {"idle", "queued", "done", "failed", "cancelled"}

\* buf is what write_callback has been given; at is the byte the response
\* would deliver next.
Fetches ==
  UNION {[phase : Phases, attempt : 0..MaxAttempts,
          buf : UNION {[1..n -> 1..Size[i]] : n \in 0..Size[i]},
          at : 1..(Size[i] + 1)] : i \in Items}

Whole(i) == [k \in 1..Size[i] |-> k]
Received(i) == Len(fetch[i].buf)

FetchInit ==
  /\ fetch = [i \in Items |-> [phase |-> "idle", attempt |-> 0, buf |-> <<>>, at |-> 1]]
  /\ cancel = FALSE
  /\ late = [i \in Items |-> 0]

\* The fetch of i goes on at phase p.
Go(i, p) == fetch' = [fetch EXCEPT ![i].phase = p]

\* A network operation of i begins.
Operate(i) == late' = [late EXCEPT ![i] = @ + (IF cancel THEN 1 ELSE 0)]

\* Mutant: a failed attempt is not counted.
RetryForever(i) ==
  fetch' = [fetch EXCEPT ![i].phase = "attempt"]

\* The loop over attempts goes round.
Retry(i) ==
  fetch' = [fetch EXCEPT ![i].phase = "attempt", ![i].attempt = @ + 1]

\* A thread of the pool takes the future up.
Start(i) ==
  /\ fetch[i].phase = "queued"
  /\ Go(i, "attempt")
  /\ UNCHANGED <<cancel, late>>

\* The head of the loop over attempts; when they are used up, what was received
\* decides.
Attempt(i) ==
  /\ fetch[i].phase = "attempt"
  /\ \/ /\ fetch[i].attempt = MaxAttempts
        /\ Go(i, IF Received(i) = Size[i] THEN "convert" ELSE "failed")
     \/ /\ fetch[i].attempt < MaxAttempts
        /\ Go(i, IF cancel THEN "failed"
                 ELSE IF Received(i) >= Size[i] THEN "convert"
                 ELSE IF fetch[i].attempt = 0 THEN "open"
                 ELSE "backoff")
  /\ UNCHANGED <<cancel, late>>

\* cancel_event.wait(delay) ends early, and with an exception, when it is set.
Backoff(i) ==
  /\ fetch[i].phase = "backoff"
  /\ Go(i, IF cancel THEN "failed" ELSE "open")
  /\ UNCHANGED <<cancel, late>>

\* Mutant: every request asks for the whole range.
RequestAll(i) == 1

\* The first byte a request asks for.
RequestStart(i) == Received(i) + 1

\* The request fails and counts as an attempt.
OpenFails(i) ==
  /\ fetch[i].phase = "open"
  /\ Retry(i) /\ Operate(i)
  /\ UNCHANGED cancel

\* The answer has another status or range than asked for: that is not retried.
OpenRefused(i) ==
  /\ fetch[i].phase = "open"
  /\ Go(i, "failed") /\ Operate(i)
  /\ UNCHANGED cancel

\* The answer is for exactly the range asked for.
OpenAnswered(i) ==
  /\ fetch[i].phase = "open"
  /\ fetch' = [fetch EXCEPT ![i].phase = "guard", ![i].at = RequestStart(i)]
  /\ Operate(i)
  /\ UNCHANGED cancel

\* The head of the loop over blocks.
Guard(i) ==
  /\ fetch[i].phase = "guard"
  /\ IF Received(i) >= Size[i] THEN Retry(i)
     ELSE Go(i, IF cancel THEN "failed" ELSE "read")
  /\ UNCHANGED <<cancel, late>>

\* A block arrives, or the response breaks off or ends short, or the progress
\* callback raises.
Read(i) ==
  /\ fetch[i].phase = "read"
  /\ \/ \E n \in 1..BlockSize :
          /\ n <= Size[i] - Received(i)
          /\ fetch[i].at + n - 1 <= Size[i]
          /\ fetch' = [fetch EXCEPT
                         ![i].phase = "guard",
                         ![i].buf = @ \o [k \in 1..n |-> fetch[i].at + k - 1],
                         ![i].at = @ + n]
     \/ Retry(i)
     \/ Go(i, "failed")
  /\ Operate(i)
  /\ UNCHANGED cancel

\* The blocks are joined and made a tensor.
Convert(i) ==
  /\ fetch[i].phase = "convert"
  /\ Go(i, "done")
  /\ UNCHANGED <<cancel, late>>

FetchStep(i) ==
  \/ Start(i) \/ Attempt(i) \/ Backoff(i)
  \/ OpenFails(i) \/ OpenRefused(i) \/ OpenAnswered(i)
  \/ Guard(i) \/ Read(i) \/ Convert(i)

\* Bytes of memory the fetch of i holds: the blocks received; while converting,
\* the joined bytes beside their blocks or their copy, and, to widen an item,
\* the wider tensor too; then the tensor.
Memory(i) ==
  CASE fetch[i].phase \in {"idle", "queued", "cancelled"} -> 0
    [] fetch[i].phase = "convert" -> Size[i] * (IF i \in Widened THEN 4 ELSE 2)
    [] fetch[i].phase = "done" -> Size[i] * (IF i \in Widened THEN 2 ELSE 1)
    [] OTHER -> Received(i)
=============================================================================
