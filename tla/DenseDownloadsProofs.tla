------------------------ MODULE DenseDownloadsProofs ------------------------
(***************************************************************************)
(* Proofs about DenseDownloads, for every plan, every sizes, number of     *)
(* workers, limit, block size and number of attempts.                      *)
(***************************************************************************)
EXTENDS DenseDownloads, DataTheorems

Downloads == [phase : Phases, attempt : Nat, buf : Seq(Nat), at : Nat \ {0}]

\* What the proofs need of the types.
Shape ==
  /\ fetch \in [Items -> Downloads]
  /\ cancel \in BOOLEAN /\ late \in [Items -> Nat]

-----------------------------------------------------------------------------
(***************************************************************************)
(* A fetch keeps its Shape: one lemma on how a step changes one fetch.     *)
(***************************************************************************)
\* All fetches start idle.
LEMMA ShapeInit == Init => Shape
<1> SUFFICES ASSUME Init PROVE Shape
  OBVIOUS
<1>1. [phase |-> "idle", attempt |-> 0, buf |-> <<>>, at |-> 1] \in Downloads
  BY DEF Downloads, Phases
<1> QED BY <1>1 DEF Init, FetchInit, Shape

\* The ways a step changes the record of a fetch keep its type.
LEMMA CountedFacts ==
  ASSUME NEW d \in Downloads, NEW p \in Phases, NEW a \in Nat
  PROVE  [d EXCEPT !.phase = p, !.attempt = a] \in Downloads
BY DEF Downloads

LEMMA AnsweredFacts ==
  ASSUME NEW d \in Downloads, NEW p \in Phases, NEW t \in Nat \ {0}
  PROVE  [d EXCEPT !.phase = p, !.at = t] \in Downloads
BY DEF Downloads

LEMMA ExtendedFacts ==
  ASSUME NEW d \in Downloads, NEW p \in Phases, NEW b \in Seq(Nat), NEW t \in Nat \ {0}
  PROVE  [d EXCEPT !.phase = p, !.buf = b, !.at = t] \in Downloads
BY DEF Downloads

\* Moving a fetch to a phase keeps the rest of it.
LEMMA GoFacts ==
  ASSUME Shape, NEW i \in Items, NEW p \in Phases, Go(i, p)
  PROVE  /\ fetch' \in [Items -> Downloads]
         /\ fetch'[i] = [fetch[i] EXCEPT !.phase = p]
         /\ \A j \in Items \ {i} : fetch'[j] = fetch[j]
<1>1. fetch[i] \in Downloads BY DEF Shape
<1>2. [fetch[i] EXCEPT !.phase = p] \in Downloads BY <1>1 DEF Downloads
<1> QED BY <1>2 DEF Shape, Go

\* A new attempt keeps what was received.
LEMMA RetryFacts ==
  ASSUME Shape, NEW i \in Items, Retry(i)
  PROVE  /\ fetch' \in [Items -> Downloads]
         /\ fetch'[i].phase = "attempt" /\ fetch'[i].buf = fetch[i].buf
         /\ \A j \in Items \ {i} : fetch'[j] = fetch[j]
<1> DEFINE next_i == [fetch[i] EXCEPT !.phase = "attempt", !.attempt = @ + 1]
<1>1. fetch[i] \in Downloads BY DEF Shape
<1>2. fetch[i].attempt + 1 \in Nat /\ fetch[i].buf \in Seq(Nat) /\ "attempt" \in Phases
  BY <1>1 DEF Downloads, Phases, Running
<1>3. next_i \in Downloads /\ next_i.phase = "attempt" /\ next_i.buf = fetch[i].buf
  <2>1. next_i \in Downloads BY <1>1, <1>2, CountedFacts
  <2>2. next_i.phase = "attempt" /\ next_i.buf = fetch[i].buf BY <1>1 DEF Downloads
  <2> QED BY <2>1, <2>2
<1>4. fetch'[i] = next_i
  BY DEF Retry, Shape
<1>5. \A j \in Items \ {i} : fetch'[j] = fetch[j]
  BY DEF Retry, Shape
<1> HIDE DEF next_i
<1>6. fetch' \in [Items -> Downloads]
  BY <1>3, <1>4 DEF Retry, Shape
<1> QED BY <1>3, <1>4, <1>5, <1>6

\* A network operation is counted when it begins after the cancellation.
LEMMA OperateFacts ==
  ASSUME Shape, NEW i \in Items, Operate(i)
  PROVE  /\ late' \in [Items -> Nat]
         /\ ~cancel => late'[i] = late[i]
         /\ cancel => late'[i] = late[i] + 1
         /\ \A j \in Items \ {i} : late'[j] = late[j]
BY DEF Shape, Operate

-----------------------------------------------------------------------------
(***************************************************************************)
(* What a step of one fetch does to it.                                    *)
(***************************************************************************)

\* The bytes received are the first of the range, and all once converted.
ExactFetch(i) ==
  /\ Received(i) <= Size[i]
  /\ fetch[i].buf = [k \in 1..Received(i) |-> k]
  /\ fetch[i].phase \in {"guard", "read"} => fetch[i].at = Received(i) + 1
  /\ fetch[i].phase \in {"convert", "done"} => Received(i) = Size[i]

\* An operation begun late has ended, and no other will begin.
PromptFetch(i) ==
  \/ late[i] = 0
  \/ late[i] = 1 /\ cancel /\ fetch[i].phase \notin {"backoff", "open", "read"}

\* A step of a fetch keeps the types, touches no other fetch, is taken only by
\* a queued or running one, and leaves it exact and prompt.
LEMMA FetchStepFacts ==
  ASSUME Shape, NEW i \in Items, FetchStep(i)
  PROVE  /\ Shape' /\ cancel' = cancel
         /\ fetch[i].phase \in Running \union {"queued"}
         /\ fetch'[i].phase \in Running \union {"done", "failed"}
         /\ \A j \in Items \ {i} : fetch'[j] = fetch[j] /\ late'[j] = late[j]
         /\ ExactFetch(i) => ExactFetch(i)'
         /\ PromptFetch(i) => PromptFetch(i)'
<1> DEFINE Facts ==
         /\ Shape' /\ cancel' = cancel
         /\ fetch[i].phase \in Running \union {"queued"}
         /\ fetch'[i].phase \in Running \union {"done", "failed"}
         /\ \A j \in Items \ {i} : fetch'[j] = fetch[j] /\ late'[j] = late[j]
         /\ ExactFetch(i) => ExactFetch(i)'
         /\ PromptFetch(i) => PromptFetch(i)'
<1>1. fetch[i] \in Downloads /\ Size[i] \in Nat \ {0} /\ late[i] \in Nat
  BY RangeFetchAssumption DEF Shape
<1>2. Received(i) \in Nat
  BY <1>1 DEF Received, Downloads
<1>3. ASSUME NEW p \in Running \union {"done", "failed"}, Go(i, p),
             UNCHANGED <<cancel, late>>,
             fetch[i].phase \in Running \union {"queued"},
             p \in {"guard", "read"} => fetch[i].phase \in {"guard", "read"},
             p \in {"convert", "done"} /\ ExactFetch(i) => Received(i) = Size[i],
             p \in {"backoff", "open", "read"} /\ cancel =>
               fetch[i].phase \in {"backoff", "open", "read"}
      PROVE  Facts
  <2>1. /\ fetch' \in [Items -> Downloads]
        /\ fetch'[i] = [fetch[i] EXCEPT !.phase = p]
        /\ \A j \in Items \ {i} : fetch'[j] = fetch[j]
    BY <1>3, GoFacts DEF Phases, Running
  <2>2. fetch'[i].phase = p /\ fetch'[i].buf = fetch[i].buf /\ fetch'[i].at = fetch[i].at
    BY <1>1, <2>1 DEF Downloads
  <2>3. Received(i)' = Received(i)
    BY <2>2 DEF Received
  <2>4. ExactFetch(i) => ExactFetch(i)'
    BY <1>3, <2>2, <2>3 DEF ExactFetch
  <2>5. PromptFetch(i) => PromptFetch(i)'
    BY <1>3, <2>2 DEF PromptFetch
  <2> QED BY <1>3, <2>1, <2>2, <2>4, <2>5 DEF Shape
<1>4. ASSUME Retry(i), UNCHANGED <<cancel, late>>,
             fetch[i].phase \in Running
      PROVE  Facts
  <2>1. /\ fetch' \in [Items -> Downloads]
        /\ fetch'[i].phase = "attempt" /\ fetch'[i].buf = fetch[i].buf
        /\ \A j \in Items \ {i} : fetch'[j] = fetch[j]
    BY <1>4, RetryFacts
  <2>2. Received(i)' = Received(i)
    BY <2>1 DEF Received
  <2>3. ExactFetch(i) => ExactFetch(i)'
    BY <2>1, <2>2 DEF ExactFetch
  <2>4. PromptFetch(i) => PromptFetch(i)'
    BY <1>4, <2>1 DEF PromptFetch
  <2> QED BY <1>4, <2>1, <2>3, <2>4 DEF Shape, Running
<1>5. ASSUME Operate(i), UNCHANGED cancel, fetch[i].phase \in {"open", "read"},
             Retry(i) \/ Go(i, "failed")
      PROVE  Facts
  <2>1. /\ fetch' \in [Items -> Downloads]
        /\ fetch'[i].phase \in {"attempt", "failed"} /\ fetch'[i].buf = fetch[i].buf
        /\ \A j \in Items \ {i} : fetch'[j] = fetch[j]
    <3>1. CASE Retry(i) BY <3>1, RetryFacts
    <3>2. CASE Go(i, "failed")
      <4>1. "failed" \in Phases BY DEF Phases
      <4>2. /\ fetch' \in [Items -> Downloads]
            /\ fetch'[i] = [fetch[i] EXCEPT !.phase = "failed"]
            /\ \A j \in Items \ {i} : fetch'[j] = fetch[j]
        BY <3>2, <4>1, GoFacts
      <4> QED BY <1>1, <4>2 DEF Downloads
    <3> QED BY <1>5, <3>1, <3>2
  <2>2. /\ late' \in [Items -> Nat]
        /\ ~cancel => late'[i] = late[i]
        /\ cancel => late'[i] = late[i] + 1
        /\ \A j \in Items \ {i} : late'[j] = late[j]
    BY <1>5, OperateFacts
  <2>3. Received(i)' = Received(i)
    BY <2>1 DEF Received
  <2>4. ExactFetch(i) => ExactFetch(i)'
    BY <2>1, <2>3 DEF ExactFetch
  <2>5. PromptFetch(i) => PromptFetch(i)'
    BY <1>1, <1>5, <2>1, <2>2 DEF PromptFetch
  <2> QED BY <1>5, <2>1, <2>2, <2>4, <2>5 DEF Shape, Running
<1>6. CASE Start(i) BY <1>6, <1>3 DEF Start, Running
<1>7. CASE Attempt(i)
  <2>1. PICK p \in {"convert", "failed", "open", "backoff"} :
          /\ Go(i, p)
          /\ p = "convert" => Received(i) >= Size[i]
          /\ cancel => p \in {"convert", "failed"}
    <3>1. CASE cancel = TRUE
      <4>1. CASE fetch[i].attempt = MaxAttempts
        <5>1. CASE Received(i) = Size[i] BY <1>1, <1>2, <1>7, <4>1, <5>1 DEF Attempt
        <5>2. CASE Received(i) # Size[i] BY <1>7, <4>1, <5>2 DEF Attempt
        <5> QED BY <5>1, <5>2
      <4>2. CASE fetch[i].attempt # MaxAttempts BY <1>7, <3>1, <4>2 DEF Attempt
      <4> QED BY <4>1, <4>2
    <3>2. CASE cancel = FALSE
      <4>1. CASE fetch[i].attempt = MaxAttempts
        <5>1. CASE Received(i) = Size[i] BY <1>1, <1>2, <1>7, <3>2, <4>1, <5>1 DEF Attempt
        <5>2. CASE Received(i) # Size[i] BY <1>7, <3>2, <4>1, <5>2 DEF Attempt
        <5> QED BY <5>1, <5>2
      <4>2. CASE fetch[i].attempt # MaxAttempts
        <5>1. CASE Received(i) >= Size[i] BY <1>7, <3>2, <4>2, <5>1 DEF Attempt
        <5>2. CASE ~(Received(i) >= Size[i]) BY <1>7, <3>2, <4>2, <5>2 DEF Attempt
        <5> QED BY <5>1, <5>2
      <4> QED BY <4>1, <4>2
    <3> QED BY <3>1, <3>2 DEF Shape
  <2>2. p = "convert" /\ ExactFetch(i) => Received(i) = Size[i]
    BY <1>1, <1>2, <2>1 DEF ExactFetch
  <2> QED BY <1>3, <1>7, <2>1, <2>2 DEF Attempt, Running
<1>8. CASE Backoff(i)
  <2>1. CASE cancel = TRUE BY <1>3, <1>8, <2>1 DEF Backoff, Running
  <2>2. CASE cancel = FALSE BY <1>3, <1>8, <2>2 DEF Backoff, Running
  <2> QED BY <2>1, <2>2 DEF Shape
<1>9. CASE OpenFails(i) BY <1>5, <1>9 DEF OpenFails
<1>10. CASE OpenRefused(i) BY <1>5, <1>10 DEF OpenRefused
<1>11. CASE OpenAnswered(i)
  <2> DEFINE next_i == [fetch[i] EXCEPT !.phase = "guard", !.at = RequestStart(i)]
  <2>0. /\ RequestStart(i) \in Nat \ {0} /\ RequestStart(i) = Received(i) + 1
        /\ fetch[i].buf \in Seq(Nat) /\ "guard" \in Phases
    BY <1>1, <1>2 DEF Downloads, Phases, Running, RequestStart
  <2>1. next_i \in Downloads /\ next_i.phase = "guard" /\ next_i.buf = fetch[i].buf
        /\ next_i.at = Received(i) + 1
    <3>1. next_i \in Downloads BY <1>1, <2>0, AnsweredFacts
    <3>2. next_i.phase = "guard" /\ next_i.buf = fetch[i].buf BY <1>1 DEF Downloads
    <3>3. next_i.at = RequestStart(i) BY <1>1 DEF Downloads
    <3> QED BY <2>0, <3>1, <3>2, <3>3
  <2>2. fetch'[i] = next_i
    BY <1>11 DEF OpenAnswered, Shape
  <2> HIDE DEF next_i
  <2>3. /\ fetch' \in [Items -> Downloads] /\ fetch'[i] = next_i
        /\ \A j \in Items \ {i} : fetch'[j] = fetch[j]
    <3>1. \A j \in Items \ {i} : fetch'[j] = fetch[j]
      BY <1>11 DEF OpenAnswered, Shape
    <3>2. fetch' \in [Items -> Downloads]
      BY <1>11, <2>1, <2>2 DEF OpenAnswered, Shape
    <3> QED BY <2>2, <3>1, <3>2
  <2>4. /\ late' \in [Items -> Nat]
        /\ ~cancel => late'[i] = late[i]
        /\ cancel => late'[i] = late[i] + 1
        /\ \A j \in Items \ {i} : late'[j] = late[j]
    BY <1>11, OperateFacts DEF OpenAnswered
  <2>5. Received(i)' = Received(i)
    BY <2>1, <2>3 DEF Received
  <2>6. ExactFetch(i) => ExactFetch(i)'
    BY <2>1, <2>3, <2>5 DEF ExactFetch
  <2>7. PromptFetch(i) => PromptFetch(i)'
    BY <1>1, <1>11, <2>1, <2>3, <2>4 DEF PromptFetch, OpenAnswered
  <2> QED BY <1>11, <2>1, <2>3, <2>4, <2>6, <2>7 DEF Shape, Running, OpenAnswered
<1>12. CASE Guard(i)
  <2>1. CASE Received(i) >= Size[i]
    BY <1>4, <1>12, <2>1 DEF Guard, Running
  <2>2. CASE ~(Received(i) >= Size[i])
    <3>1. CASE cancel = TRUE BY <1>3, <1>12, <2>2, <3>1 DEF Guard, Running
    <3>2. CASE cancel = FALSE BY <1>3, <1>12, <2>2, <3>2 DEF Guard, Running
    <3> QED BY <3>1, <3>2 DEF Shape
  <2> QED BY <2>1, <2>2
<1>13. CASE Read(i)
  <2>1. CASE Retry(i) \/ Go(i, "failed") BY <1>5, <1>13, <2>1 DEF Read
  <2>2. ASSUME NEW n \in 1..BlockSize, n <= Size[i] - Received(i),
               fetch' = [fetch EXCEPT
                         ![i].phase = "guard",
                         ![i].buf = @ \o [k \in 1..n |-> fetch[i].at + k - 1],
                         ![i].at = @ + n]
        PROVE  Facts
    <3> DEFINE block == [k \in 1..n |-> fetch[i].at + k - 1]
               next_i == [fetch[i] EXCEPT !.phase = "guard",
                            !.buf = @ \o block, !.at = @ + n]
    <3>1. n \in Nat /\ fetch[i].at \in Nat /\ fetch[i].buf \in Seq(Nat)
      BY <1>1, RangeFetchAssumption DEF Downloads
    <3>2. block \in Seq(Nat) /\ Len(block) = n /\ \A k \in 1..n : block[k] = fetch[i].at + k - 1
      BY <3>1
    <3> HIDE DEF block
    <3>3. "guard" \in Phases /\ fetch[i].at + n \in Nat \ {0} /\ 0 \in Nat
      BY <3>1 DEF Phases, Running
    <3>4. /\ fetch[i].buf \o block \in Seq(Nat)
          /\ Len(fetch[i].buf \o block) = Received(i) + n
          /\ \A k \in 1..(Received(i) + n) : (fetch[i].buf \o block)[k] =
               IF k <= Received(i) THEN fetch[i].buf[k] ELSE block[k - Received(i)]
      BY <3>1, <3>2, ConcatProperties DEF Received
    <3>5. next_i \in Downloads /\ next_i.phase = "guard"
          /\ next_i.buf = fetch[i].buf \o block /\ next_i.at = fetch[i].at + n
      <4>1. next_i \in Downloads BY <1>1, <3>3, <3>4, ExtendedFacts
      <4>2. next_i.phase = "guard" BY <1>1 DEF Downloads
      <4>3. next_i.buf = fetch[i].buf \o block BY <1>1 DEF Downloads
      <4>4. next_i.at = fetch[i].at + n BY <1>1 DEF Downloads
      <4> QED BY <4>1, <4>2, <4>3, <4>4
    <3>6. fetch'[i] = next_i
      BY <2>2 DEF Shape, block
    <3> HIDE DEF next_i
    <3>7. /\ fetch' \in [Items -> Downloads] /\ fetch'[i] = next_i
          /\ \A j \in Items \ {i} : fetch'[j] = fetch[j]
      <4>1. \A j \in Items \ {i} : fetch'[j] = fetch[j]
        BY <2>2 DEF Shape
      <4>2. fetch' \in [Items -> Downloads]
        BY <2>2, <3>5, <3>6 DEF Shape
      <4> QED BY <3>6, <4>1, <4>2
    <3>8. /\ late' \in [Items -> Nat]
          /\ ~cancel => late'[i] = late[i]
          /\ cancel => late'[i] = late[i] + 1
          /\ \A j \in Items \ {i} : late'[j] = late[j]
      BY <1>13, OperateFacts DEF Read
    <3>9. Received(i)' = Received(i) + n
      BY <3>4, <3>5, <3>7 DEF Received
    <3>10. ASSUME ExactFetch(i) PROVE ExactFetch(i)'
      <4>1. fetch[i].at = Received(i) + 1 /\ fetch[i].buf = [k \in 1..Received(i) |-> k]
        BY <1>13, <3>10 DEF Read, ExactFetch
      <4>2. \A k \in 1..(Received(i) + n) : (fetch[i].buf \o block)[k] = k
        <5>1. TAKE k \in 1..(Received(i) + n)
        <5>2. CASE k <= Received(i) BY <1>2, <3>1, <3>4, <4>1, <5>2
        <5>3. CASE ~(k <= Received(i))
          <6>1. k - Received(i) \in 1..n BY <1>2, <3>1, <5>3
          <6>2. block[k - Received(i)] = k BY <1>2, <3>1, <3>2, <4>1, <6>1
          <6> QED BY <1>2, <3>1, <3>4, <5>3, <6>2
        <5> QED BY <5>2, <5>3
      <4>3. fetch[i].buf \o block = [k \in 1..(Received(i) + n) |-> k]
        <5> DEFINE whole == [k \in 1..(Received(i) + n) |-> k]
        <5>1. whole \in Seq(Nat) /\ Len(whole) = Received(i) + n
          BY <1>2, <3>1
        <5>2. \A k \in 1..(Received(i) + n) : whole[k] = k
          OBVIOUS
        <5> HIDE DEF whole
        <5>3. fetch[i].buf \o block = whole
          BY <3>4, <4>2, <5>1, <5>2, SeqEqual
        <5> QED BY <5>3 DEF whole
      <4>4. Received(i)' <= Size[i]
        <5>1. n <= Size[i] - Received(i) BY <2>2
        <5> QED BY <1>1, <1>2, <3>1, <3>9, <5>1
      <4>5. fetch'[i].at = Received(i)' + 1
        BY <1>2, <3>1, <3>5, <3>7, <3>9, <4>1
      <4> QED BY <3>5, <3>7, <3>9, <4>3, <4>4, <4>5 DEF ExactFetch
    <3>11. PromptFetch(i) => PromptFetch(i)'
      <4>1. fetch[i].phase = "read" /\ cancel' = cancel /\ fetch'[i].phase = "guard"
        BY <1>13, <3>5, <3>7 DEF Read
      <4> QED BY <1>1, <3>8, <4>1 DEF PromptFetch
    <3> QED BY <1>13, <3>5, <3>7, <3>8, <3>10, <3>11 DEF Shape, Running, Read
  <2> QED BY <1>13, <2>1, <2>2 DEF Read
<1>14. CASE Convert(i)
  <2>1. ExactFetch(i) => Received(i) = Size[i]
    BY <1>14 DEF Convert, ExactFetch
  <2> QED BY <1>3, <1>14, <2>1 DEF Convert, Running
<1> QED
  BY <1>6, <1>7, <1>8, <1>9, <1>10, <1>11, <1>12, <1>13, <1>14 DEF FetchStep

-----------------------------------------------------------------------------
(***************************************************************************)
(* The generator changes phases only to queue, cancel or leave a fetch.    *)
(***************************************************************************)

\* The positions of the generator.
Positions == {"submit", "take", "await", "yield", "close", "cancel", "join", "ended"}

\* The types of the generator, without the bounds.
Feed == [item : Items, bytes : Seq(Nat)]

GeneratorShape ==
  /\ pc \in Positions /\ next \in Nat \ {0} /\ inflight \in Seq(Items)
  /\ current \in Items \union {None} /\ fed \in Seq(Feed)
  /\ pc \in {"await", "yield"} => current \in Items
  /\ pc = "take" => inflight # <<>>

\* While joining nothing is queued, and in the end nothing runs.
Stopped ==
  /\ pc \in {"join", "ended"} => \A i \in Items : fetch[i].phase # "queued"
  /\ pc = "ended" => \A i \in Items : fetch[i].phase \notin Running

StopInv == Shape /\ GeneratorShape /\ Stopped

\* Nothing runs at the start.
LEMMA StopInvInit == Init => StopInv
<1> SUFFICES ASSUME Init PROVE StopInv
  OBVIOUS
<1>1. Shape BY ShapeInit
<1>2. GeneratorShape BY DEF Init, GeneratorShape, Positions
<1>3. Stopped BY DEF Init, Stopped
<1> QED BY <1>1, <1>2, <1>3 DEF StopInv

\* Submitting takes an item of the plan.
LEMMA PlannedItem ==
  ASSUME GeneratorShape, More
  PROVE  Plan[next] \in Items
BY DenseDownloadsAssumption DEF GeneratorShape, More

\* Only submit_available queues fetches, and it is left for good before joining.
LEMMA StopInvNext == StopInv /\ [Next]_vars => StopInv'
<1> SUFFICES ASSUME StopInv, [Next]_vars PROVE StopInv'
  OBVIOUS
<1> USE DEF StopInv
<1>1. ASSUME NEW i \in Items, Fetch(i) PROVE StopInv'
  <2>1. /\ Shape'
        /\ fetch[i].phase \in Running \union {"queued"}
        /\ fetch'[i].phase \in Running \union {"done", "failed"}
        /\ \A j \in Items \ {i} : fetch'[j] = fetch[j]
    BY <1>1, FetchStepFacts DEF Fetch
  <2>2. UNCHANGED generator BY <1>1 DEF Fetch
  <2>3. GeneratorShape' BY <2>2 DEF GeneratorShape, generator
  <2>4. Stopped' BY <2>1, <2>2 DEF Stopped, Running, generator
  <2> QED BY <2>1, <2>3, <2>4
<1>2. CASE Submit
  <2> DEFINE i == Plan[next]
  <2>1. i \in Items BY <1>2, PlannedItem DEF Submit
  <2>2. "queued" \in Phases /\ Go(i, "queued") BY <1>2 DEF Submit, Phases
  <2>3. Shape' BY <1>2, <2>1, <2>2, GoFacts DEF Submit, Shape
  <2>4. inflight' \in Seq(Items) BY <1>2, <2>1 DEF Submit, GeneratorShape
  <2>5. GeneratorShape' BY <1>2, <2>4 DEF Submit, GeneratorShape
  <2>6. Stopped' BY <1>2 DEF Submit, Stopped
  <2> QED BY <2>3, <2>5, <2>6
<1>3. ASSUME UNCHANGED fetching,
             pc' \in {"submit", "close"},
             UNCHANGED <<inflight, current, next, fed>>
      PROVE  StopInv'
  BY <1>3 DEF fetching, Shape, GeneratorShape, Stopped, Positions
<1>4. CASE RefuseItem BY <1>3, <1>4 DEF RefuseItem, Positions
<1>5. CASE Submitted
  BY <1>5 DEF Submitted, fetching, Shape, GeneratorShape, Stopped, Positions
<1>6. CASE Take
  <2>1. Head(inflight) \in Items /\ Tail(inflight) \in Seq(Items)
    BY <1>6 DEF Take, GeneratorShape
  <2> QED BY <1>6, <2>1 DEF Take, fetching, Shape, GeneratorShape, Stopped, Positions
<1>7. CASE Await
  <2>1. CASE pc' = "close" /\ UNCHANGED fed BY <1>3, <1>7, <2>1 DEF Await, Positions
  <2>2. CASE /\ fed' = Append(fed, [item |-> current, bytes |-> fetch[current].buf])
             /\ pc' = "yield"
    <3>1. current \in Items BY <1>7 DEF Await, GeneratorShape
    <3>2. fetch[current].buf \in Seq(Nat) BY <3>1 DEF Shape, Downloads
    <3>3. fed' \in Seq(Feed) BY <2>2, <3>1, <3>2 DEF GeneratorShape, Feed
    <3> QED BY <1>7, <2>2, <3>1, <3>3
            DEF Await, fetching, Shape, GeneratorShape, Stopped, Positions
  <2> QED BY <1>7, <2>1, <2>2 DEF Await
<1>8. CASE Interrupt BY <1>3, <1>8 DEF Interrupt, Positions
<1>9. CASE Resume BY <1>3, <1>9 DEF Resume, Positions
<1>10. CASE Abandon BY <1>3, <1>10 DEF Abandon, Positions
<1>11. CASE SetCancel
  BY <1>11 DEF SetCancel, Shape, GeneratorShape, Stopped, Positions
<1>12. CASE CancelNext
  <2> DEFINE i == Head(inflight)
             p == IF fetch[i].phase = "queued" THEN "cancelled" ELSE fetch[i].phase
  <2>1. i \in Items /\ Tail(inflight) \in Seq(Items)
    BY <1>12 DEF CancelNext, GeneratorShape
  <2>2. p \in Phases BY <2>1 DEF Shape, Downloads, Phases
  <2>3. Shape' BY <1>12, <2>1, <2>2, GoFacts DEF CancelNext, Shape
  <2>4. GeneratorShape' /\ Stopped'
    BY <1>12, <2>1 DEF CancelNext, GeneratorShape, Stopped
  <2> QED BY <2>3, <2>4
<1>13. CASE Shutdown
  <2>1. ASSUME NEW i \in Items PROVE fetch'[i] \in Downloads /\ fetch'[i].phase # "queued"
    <3>1. fetch[i] \in Downloads BY DEF Shape
    <3>2. CASE fetch[i].phase = "queued"
      <4>1. "cancelled" \in Phases BY DEF Phases
      <4>2. fetch'[i] = [fetch[i] EXCEPT !.phase = "cancelled"] BY <1>13, <3>2 DEF Shutdown
      <4>3. fetch'[i] \in Downloads BY <3>1, <4>1, <4>2 DEF Downloads
      <4>4. fetch'[i].phase = "cancelled" BY <3>1, <4>2 DEF Downloads
      <4> QED BY <4>3, <4>4
    <3>3. CASE fetch[i].phase # "queued"
      <4>1. fetch'[i] = fetch[i] BY <1>13, <3>3 DEF Shutdown
      <4> QED BY <3>1, <3>3, <4>1
    <3> QED BY <3>2, <3>3
  <2>2. fetch' \in [Items -> Downloads] BY <1>13, <2>1 DEF Shutdown
  <2> QED BY <1>13, <2>1, <2>2 DEF Shutdown, Shape, GeneratorShape, Stopped, Positions
<1>14. CASE Join
  BY <1>14 DEF Join, fetching, Shape, GeneratorShape, Stopped, Positions
<1>15. CASE UNCHANGED vars
  BY <1>15 DEF vars, fetching, generator, Shape, GeneratorShape, Stopped
<1> QED
  BY <1>1, <1>2, <1>4, <1>5, <1>6, <1>7, <1>8, <1>9, <1>10, <1>11, <1>12, <1>13,
     <1>14, <1>15
  DEF Next, Generate

\* Whatever ends the iteration (its last item, an error, an interrupt, a
\* failing consumer), no download of it runs or is queued any more.
THEOREM PoolIsEmptyAtEnd == Spec => []NothingRunsAfterEnd
<1>1. StopInv => NothingRunsAfterEnd
  BY DEF StopInv, Stopped, NothingRunsAfterEnd
<1> QED BY <1>1, StopInvInit, StopInvNext, PTL DEF Spec

-----------------------------------------------------------------------------
(***************************************************************************)
(* FeedIsExact.  The items taken are the plan's, in order: those fed, the  *)
(* one being awaited, those in flight and those still to submit follow one *)
(* another; and every fetch is exact at every moment.                      *)
(***************************************************************************)

\* Items taken out of flight so far.
Taken == Len(fed) + (IF pc = "await" THEN 1 ELSE 0)

\* Until the generator closes, plan = fed, awaited, in flight, rest.
InOrder ==
  pc \in {"submit", "take", "await", "yield"} =>
    /\ next = Taken + Len(inflight) + 1
    /\ next <= Len(Plan) + 1
    /\ \A k \in 1..Len(inflight) : inflight[k] = Plan[Taken + k]
    /\ pc = "await" => current = Plan[Taken]

OrderInv ==
  /\ StopInv /\ InOrder /\ FeedIsExact
  /\ \A i \in Items : ExactFetch(i)

\* Nothing is fed or in flight at the start.
LEMMA OrderInvInit == Init => OrderInv
<1> SUFFICES ASSUME Init PROVE OrderInv
  OBVIOUS
<1> USE DEF Init
<1>1. StopInv BY StopInvInit
<1>2. Len(Plan) \in Nat BY DenseDownloadsAssumption
<1>3. Len(fed) = 0 /\ Len(inflight) = 0 OBVIOUS
<1>4. InOrder BY <1>2, <1>3 DEF InOrder, Taken
<1>5. FeedIsExact BY <1>2, <1>3 DEF FeedIsExact
<1>6. ASSUME NEW i \in Items PROVE ExactFetch(i)
  <2>1. fetch[i].phase = "idle" /\ fetch[i].buf = <<>> BY DEF FetchInit
  <2>2. Received(i) = 0 BY <2>1 DEF Received
  <2>3. Size[i] \in Nat BY RangeFetchAssumption
  <2>4. <<>> = [k \in 1..0 |-> k] BY EmptySeq
  <2> QED BY <2>1, <2>2, <2>3, <2>4 DEF ExactFetch
<1> QED BY <1>1, <1>4, <1>5, <1>6 DEF OrderInv

\* A fetch whose phase alone changes, other than to one that promises
\* something of its bytes, stays exact.
LEMMA PhaseKeepsExact ==
  ASSUME NEW i \in Items, ExactFetch(i),
         fetch'[i].buf = fetch[i].buf, fetch'[i].at = fetch[i].at,
         fetch'[i].phase \in {fetch[i].phase, "queued", "cancelled"}
  PROVE  ExactFetch(i)'
<1>1. Received(i)' = Received(i) BY DEF Received
<1> QED BY <1>1 DEF ExactFetch

\* submit appends the next item of the plan, popleft takes the first in flight.
LEMMA OrderInvNext == OrderInv /\ [Next]_vars => OrderInv'
<1> SUFFICES ASSUME OrderInv, [Next]_vars PROVE OrderInv'
  OBVIOUS
<1>0. StopInv' BY StopInvNext DEF OrderInv
<1> USE DEF OrderInv
<1>a. /\ Shape /\ GeneratorShape
      /\ Len(fed) \in Nat /\ Len(inflight) \in Nat /\ next \in Nat /\ Len(Plan) \in Nat
  BY DenseDownloadsAssumption DEF StopInv, GeneratorShape
<1>1. ASSUME NEW i \in Items, Fetch(i) PROVE OrderInv'
  <2>1. /\ ExactFetch(i)'
        /\ \A j \in Items \ {i} : fetch'[j] = fetch[j]
    BY <1>a, <1>1, FetchStepFacts DEF Fetch
  <2>2. \A j \in Items : ExactFetch(j)'
    <3>1. TAKE j \in Items
    <3>2. CASE j = i BY <2>1, <3>2
    <3>3. CASE j # i
      <4>1. fetch'[j] = fetch[j] /\ ExactFetch(j) BY <2>1, <3>3
      <4> QED BY <4>1 DEF ExactFetch, Received
    <3> QED BY <3>2, <3>3
  <2>3. UNCHANGED generator BY <1>1 DEF Fetch
  <2>4. InOrder' BY <2>3 DEF InOrder, Taken, generator
  <2>5. FeedIsExact' BY <2>3 DEF FeedIsExact, generator
  <2> QED BY <1>0, <2>2, <2>4, <2>5
<1>2. CASE Submit
  <2> DEFINE i == Plan[next]
  <2>1. i \in Items BY <1>a, <1>2, PlannedItem DEF Submit
  <2>2. fetch' = [fetch EXCEPT ![i].phase = "queued"] BY <1>2 DEF Submit, Go
  <2>3. \A j \in Items : ExactFetch(j)'
    <3>1. TAKE j \in Items
    <3>2. /\ fetch'[j].buf = fetch[j].buf /\ fetch'[j].at = fetch[j].at
          /\ fetch'[j].phase \in {fetch[j].phase, "queued"}
      BY <1>a, <2>1, <2>2 DEF Shape, Downloads
    <3> QED BY <3>2, PhaseKeepsExact
  <2>4. /\ pc = "submit" /\ pc' = "submit" /\ fed' = fed /\ current' = current
        /\ inflight' = Append(inflight, i) /\ next' = next + 1 /\ next <= Len(Plan)
    BY <1>2 DEF Submit, More
  <2>5. InOrder'
    <3>1. Taken = Len(fed) /\ Taken' = Len(fed) BY <2>4 DEF Taken
    <3>2. /\ Len(inflight') = Len(inflight) + 1
          /\ \A k \in 1..Len(inflight) : inflight'[k] = inflight[k]
          /\ inflight'[Len(inflight) + 1] = i
      BY <1>a, <2>1, <2>4 DEF GeneratorShape
    <3>3. next = Len(fed) + Len(inflight) + 1 BY <2>4, <3>1 DEF InOrder
    <3>4. ASSUME NEW k \in 1..Len(inflight') PROVE inflight'[k] = Plan[Len(fed) + k]
      <4>1. CASE k = Len(inflight) + 1 BY <1>a, <3>2, <3>3, <4>1
      <4>2. CASE k # Len(inflight) + 1
        <5>1. k \in 1..Len(inflight) BY <1>a, <3>2, <4>2
        <5> QED BY <2>4, <3>1, <3>2, <5>1 DEF InOrder
      <4> QED BY <4>1, <4>2
    <3> QED BY <1>a, <2>4, <3>1, <3>2, <3>3, <3>4 DEF InOrder
  <2>6. FeedIsExact' BY <2>4 DEF FeedIsExact
  <2> QED BY <1>0, <2>3, <2>5, <2>6
<1>b. ASSUME UNCHANGED fetch PROVE \A j \in Items : ExactFetch(j)'
  BY <1>b DEF ExactFetch, Received
<1>3. ASSUME UNCHANGED <<fetch, fed>>, pc' \in {"close", "cancel", "ended"}
      PROVE  OrderInv'
  <2>1. InOrder' BY <1>3 DEF InOrder
  <2>2. FeedIsExact' BY <1>3 DEF FeedIsExact
  <2> QED BY <1>0, <1>3, <1>b, <2>1, <2>2
<1>4. CASE RefuseItem BY <1>3, <1>4 DEF RefuseItem, fetching
<1>5. CASE Submitted
  <2>1. CASE pc' = "close" BY <1>3, <1>5, <2>1 DEF Submitted, fetching
  <2>2. CASE pc' = "take"
    <3>1. UNCHANGED <<fetch, fed, next, inflight, current>> /\ pc = "submit"
      BY <1>5 DEF Submitted, fetching
    <3>2. InOrder' BY <2>2, <3>1 DEF InOrder, Taken
    <3>3. FeedIsExact' BY <3>1 DEF FeedIsExact
    <3> QED BY <1>0, <1>b, <3>1, <3>2, <3>3
  <2> QED BY <1>5, <2>1, <2>2 DEF Submitted
<1>6. CASE Take
  <2>1. /\ pc = "take" /\ pc' = "await" /\ UNCHANGED <<fetch, fed, next>>
        /\ current' = Head(inflight) /\ inflight' = Tail(inflight) /\ inflight # <<>>
    BY <1>a, <1>6 DEF Take, fetching, GeneratorShape
  <2>2. Taken = Len(fed) /\ Taken' = Len(fed) + 1 BY <1>a, <2>1 DEF Taken
  <2>3. /\ Len(inflight) # 0 /\ Len(inflight') = Len(inflight) - 1
        /\ \A k \in 1..(Len(inflight) - 1) : inflight'[k] = inflight[k + 1]
        /\ current' = inflight[1]
    BY <1>a, <2>1 DEF GeneratorShape
  <2>4. /\ next = Len(fed) + Len(inflight) + 1 /\ next <= Len(Plan) + 1
        /\ \A k \in 1..Len(inflight) : inflight[k] = Plan[Len(fed) + k]
    BY <2>1, <2>2 DEF InOrder
  <2>5. current' = Plan[Len(fed) + 1] BY <1>a, <2>3, <2>4
  <2>6. ASSUME NEW k \in 1..Len(inflight') PROVE inflight'[k] = Plan[(Len(fed) + 1) + k]
    <3>1. k + 1 \in 1..Len(inflight) /\ k \in 1..(Len(inflight) - 1) BY <1>a, <2>3
    <3>2. inflight'[k] = Plan[Len(fed) + (k + 1)] BY <2>3, <2>4, <3>1
    <3>3. Len(fed) + (k + 1) = (Len(fed) + 1) + k BY <1>a, <3>1
    <3> QED BY <3>2, <3>3
  <2>7. InOrder' BY <1>a, <2>1, <2>2, <2>3, <2>4, <2>5, <2>6 DEF InOrder
  <2>8. FeedIsExact' BY <2>1 DEF FeedIsExact
  <2> QED BY <1>0, <1>b, <2>1, <2>7, <2>8
<1>7. CASE Await
  <2>1. CASE pc' = "close" /\ UNCHANGED fed BY <1>3, <1>7, <2>1 DEF Await, fetching
  <2>2. CASE /\ fetch[current].phase = "done" /\ pc' = "yield"
             /\ fed' = Append(fed, [item |-> current, bytes |-> fetch[current].buf])
    <3> DEFINE given == [item |-> current, bytes |-> fetch[current].buf]
    <3>1. /\ pc = "await" /\ UNCHANGED <<fetch, next, inflight, current>>
          /\ current \in Items
      BY <1>a, <1>7 DEF Await, fetching, GeneratorShape
    <3>2. Taken = Len(fed) + 1 /\ current = Plan[Len(fed) + 1]
          /\ next = Len(fed) + 1 + Len(inflight) + 1 /\ next <= Len(Plan) + 1
          /\ \A k \in 1..Len(inflight) : inflight[k] = Plan[Len(fed) + 1 + k]
      BY <3>1 DEF InOrder, Taken
    <3>3. /\ fed \in Seq(Feed) /\ given \in Feed
      BY <1>a, <3>1 DEF GeneratorShape, Feed, Shape, Downloads
    <3>4. given.item = Plan[Len(fed) + 1] /\ given.bytes = Whole(Plan[Len(fed) + 1])
      BY <2>2, <3>1, <3>2 DEF ExactFetch, Whole
    <3> HIDE DEF given
    <3>5. /\ Len(fed') = Len(fed) + 1 /\ fed'[Len(fed) + 1] = given
          /\ \A k \in 1..Len(fed) : fed'[k] = fed[k]
      BY <2>2, <3>3 DEF given
    <3>6. FeedIsExact'
      <4>1. Len(fed') <= Len(Plan) BY <1>a, <3>2, <3>5
      <4>2. ASSUME NEW k \in 1..Len(fed')
            PROVE  fed'[k].item = Plan[k] /\ fed'[k].bytes = Whole(Plan[k])
        <5>1. CASE k = Len(fed) + 1 BY <3>4, <3>5, <5>1
        <5>2. CASE k # Len(fed) + 1
          <6>1. k \in 1..Len(fed) BY <1>a, <3>5, <5>2
          <6> QED BY <3>5, <6>1 DEF FeedIsExact
        <5> QED BY <5>1, <5>2
      <4> QED BY <4>1, <4>2 DEF FeedIsExact, Whole
    <3>7. Taken' = Len(fed) + 1 BY <1>a, <2>2, <3>5 DEF Taken
    <3>8. InOrder' BY <1>a, <2>2, <3>1, <3>2, <3>7 DEF InOrder
    <3> QED BY <1>0, <1>b, <3>1, <3>6, <3>8
  <2> QED BY <1>7, <2>1, <2>2 DEF Await
<1>8. CASE Interrupt BY <1>3, <1>8 DEF Interrupt, fetching
<1>9. CASE Resume
  <2>1. UNCHANGED <<fetch, fed, next, inflight, current>> /\ pc = "yield" /\ pc' = "submit"
    BY <1>9 DEF Resume, fetching
  <2>2. InOrder' BY <2>1 DEF InOrder, Taken
  <2>3. FeedIsExact' BY <2>1 DEF FeedIsExact
  <2> QED BY <1>0, <1>b, <2>1, <2>2, <2>3
<1>10. CASE Abandon BY <1>3, <1>10 DEF Abandon, fetching
<1>11. CASE SetCancel BY <1>3, <1>11 DEF SetCancel
<1>12. CASE CancelNext
  <2> DEFINE i == Head(inflight)
             p == IF fetch[i].phase = "queued" THEN "cancelled" ELSE fetch[i].phase
  <2>1. i \in Items BY <1>a, <1>12 DEF CancelNext, GeneratorShape
  <2>2. fetch' = [fetch EXCEPT ![i].phase = p] BY <1>12 DEF CancelNext, Go
  <2>3. \A j \in Items : ExactFetch(j)'
    <3>1. TAKE j \in Items
    <3>2. /\ fetch'[j].buf = fetch[j].buf /\ fetch'[j].at = fetch[j].at
          /\ fetch'[j].phase \in {fetch[j].phase, "cancelled"}
      BY <1>a, <2>1, <2>2 DEF Shape, Downloads
    <3> QED BY <3>2, PhaseKeepsExact
  <2>4. InOrder' BY <1>12 DEF CancelNext, InOrder
  <2>5. FeedIsExact' BY <1>12 DEF CancelNext, FeedIsExact
  <2> QED BY <1>0, <2>3, <2>4, <2>5
<1>13. CASE Shutdown
  <2>1. \A j \in Items : ExactFetch(j)'
    <3>1. TAKE j \in Items
    <3>2. fetch[j] \in Downloads BY <1>a DEF Shape
    <3>3. CASE fetch[j].phase = "queued"
      <4>1. fetch'[j] = [fetch[j] EXCEPT !.phase = "cancelled"] BY <1>13, <3>3 DEF Shutdown
      <4>2. fetch'[j].buf = fetch[j].buf /\ fetch'[j].at = fetch[j].at
            /\ fetch'[j].phase = "cancelled"
        BY <3>2, <4>1 DEF Downloads
      <4> QED BY <4>2, PhaseKeepsExact
    <3>4. CASE fetch[j].phase # "queued"
      <4>1. fetch'[j] = fetch[j] BY <1>13, <3>4 DEF Shutdown
      <4> QED BY <4>1, PhaseKeepsExact
    <3> QED BY <3>3, <3>4
  <2>2. InOrder' BY <1>13 DEF Shutdown, InOrder
  <2>3. FeedIsExact' BY <1>13 DEF Shutdown, FeedIsExact
  <2> QED BY <1>0, <2>1, <2>2, <2>3
<1>14. CASE Join BY <1>3, <1>14 DEF Join, fetching
<1>15. CASE UNCHANGED vars
  <2>1. UNCHANGED <<fetch, generator>> BY <1>15 DEF vars, fetching
  <2>2. InOrder' BY <2>1 DEF generator, InOrder, Taken
  <2>3. FeedIsExact' BY <2>1 DEF generator, FeedIsExact
  <2> QED BY <1>0, <1>b, <2>1, <2>2, <2>3
<1> QED
  BY <1>1, <1>2, <1>4, <1>5, <1>6, <1>7, <1>8, <1>9, <1>10, <1>11, <1>12, <1>13,
     <1>14, <1>15
  DEF Next, Generate

\* The consumer gets the tensors of the plan in order, each with exactly the
\* bytes of its range, whatever the network, the pool and the limits do.
THEOREM FeedExact == Spec => []FeedIsExact
<1>1. OrderInv => FeedIsExact
  BY DEF OrderInv
<1> QED BY <1>1, OrderInvInit, OrderInvNext, PTL DEF Spec

-----------------------------------------------------------------------------
(***************************************************************************)
(* CancelIsPrompt.                                                         *)
(***************************************************************************)
PromptInv == StopInv /\ \A i \in Items : PromptFetch(i)

\* No operation is late before the cancellation.
LEMMA PromptInvInit == Init => PromptInv
BY StopInvInit DEF Init, FetchInit, PromptInv, PromptFetch

\* Every way to an operation looks at cancel_event first, but for the one begun.
LEMMA PromptInvNext == PromptInv /\ [Next]_vars => PromptInv'
<1> SUFFICES ASSUME PromptInv, [Next]_vars PROVE PromptInv'
  OBVIOUS
<1>0. StopInv' BY StopInvNext DEF PromptInv
<1> USE DEF PromptInv
<1>a. Shape /\ GeneratorShape BY DEF StopInv
\* The generator never moves a fetch to a phase that operates, nor unsets cancel.
<1>1. ASSUME late' = late, cancel => cancel',
             \A i \in Items : fetch'[i].phase \in {fetch[i].phase, "queued", "cancelled"}
      PROVE  PromptInv'
  BY <1>0, <1>1 DEF PromptFetch
<1>2. ASSUME NEW i \in Items, Fetch(i) PROVE PromptInv'
  <2>1. /\ PromptFetch(i)' /\ cancel' = cancel
        /\ \A j \in Items \ {i} : fetch'[j] = fetch[j] /\ late'[j] = late[j]
    BY <1>a, <1>2, FetchStepFacts DEF Fetch
  <2> QED BY <1>0, <2>1 DEF PromptFetch
<1>3. CASE Submit
  <2>1. Plan[next] \in Items BY <1>a, <1>3, PlannedItem DEF Submit
  <2>2. \A i \in Items : fetch'[i].phase \in {fetch[i].phase, "queued"}
    BY <1>a, <1>3, <2>1 DEF Submit, Go, Shape, Downloads
  <2> QED BY <1>1, <1>3, <2>2 DEF Submit
<1>4. CASE CancelNext
  <2>1. Head(inflight) \in Items BY <1>a, <1>4 DEF CancelNext, GeneratorShape
  <2>2. \A i \in Items : fetch'[i].phase \in {fetch[i].phase, "cancelled"}
    BY <1>a, <1>4, <2>1 DEF CancelNext, Go, Shape, Downloads
  <2> QED BY <1>1, <1>4, <2>2 DEF CancelNext
<1>5. CASE Shutdown
  <2>1. \A i \in Items : fetch'[i].phase \in {fetch[i].phase, "cancelled"}
    BY <1>a, <1>5 DEF Shutdown, Shape, Downloads
  <2> QED BY <1>1, <1>5, <2>1 DEF Shutdown
<1>6. CASE SetCancel BY <1>1, <1>6 DEF SetCancel
<1>7. CASE UNCHANGED fetching BY <1>1, <1>7 DEF fetching
<1> QED
  BY <1>2, <1>3, <1>4, <1>5, <1>6, <1>7
  DEF Next, Generate, RefuseItem, Submitted, Take, Await, Interrupt, Resume,
      Abandon, Join, vars

\* A cancelled download begins at most one more request or read.
THEOREM PromptCancel == Spec => []CancelIsPrompt
<1>1. PromptInv => CancelIsPrompt
  BY DEF PromptInv, PromptFetch, CancelIsPrompt
<1> QED BY <1>1, PromptInvInit, PromptInvNext, PTL DEF Spec

-----------------------------------------------------------------------------
(***************************************************************************)
(* FeedIsWhole: with nothing in flight the next item always fits, so the   *)
(* iteration is left without an exception only past the last item.         *)
(***************************************************************************)
WholeInv ==
  /\ OrderInv
  /\ pc \in {"close", "cancel", "join", "ended"} /\ ~failed => Len(fed) = Len(Plan)

\* Failed iterations stay failed; the others end past the last item.
LEMMA WholeInvNext == WholeInv /\ [Next]_vars => WholeInv'
<1> SUFFICES ASSUME WholeInv, [Next]_vars PROVE WholeInv'
  OBVIOUS
<1>0. OrderInv /\ OrderInv' BY OrderInvNext DEF WholeInv
<1>1. CASE Submitted
  <2>1. CASE inflight # <<>> BY <1>0, <1>1, <2>1 DEF Submitted, WholeInv
  <2>2. CASE inflight = <<>>
    <3>1. /\ Len(fed) \in Nat /\ next \in Nat /\ Len(Plan) \in Nat /\ Len(inflight) = 0
          /\ Workers \in Nat \ {0, 1}
      BY <1>0, <2>2, DenseDownloadsAssumption DEF OrderInv, StopInv, GeneratorShape
    <3>2. ~More BY <1>1, <2>2 DEF Submitted, Fits
    <3>3. next > Len(Plan) BY <3>1, <3>2 DEF More
    <3>4. next = Len(fed) + 1 /\ next <= Len(Plan) + 1
      BY <1>0, <1>1, <3>1 DEF Submitted, OrderInv, InOrder, Taken
    <3>5. Len(fed) = Len(Plan) BY <3>1, <3>3, <3>4
    <3> QED BY <1>0, <1>1, <3>5 DEF Submitted, WholeInv
  <2> QED BY <2>1, <2>2
<1>2. ASSUME fed' = fed, failed' = failed,
             pc' \in {"close", "cancel", "join", "ended"} =>
               pc \in {"close", "cancel", "join", "ended"}
      PROVE  WholeInv'
  BY <1>0, <1>2 DEF WholeInv
<1>3. ASSUME failed' = TRUE PROVE WholeInv'
  BY <1>0, <1>3 DEF WholeInv
<1>4. CASE Await
  BY <1>0, <1>3, <1>4 DEF Await, WholeInv
<1>5. CASE RefuseItem \/ Interrupt \/ Abandon
  BY <1>3, <1>5 DEF RefuseItem, Interrupt, Abandon
<1>6. CASE \E i \in Items : Fetch(i)
  BY <1>2, <1>6 DEF Fetch, generator
<1>7. CASE Submit \/ Take \/ Resume
  BY <1>2, <1>7 DEF Submit, Take, Resume
<1>8. CASE SetCancel \/ CancelNext \/ Shutdown \/ Join
  BY <1>2, <1>8 DEF SetCancel, CancelNext, Shutdown, Join
<1>9. CASE UNCHANGED vars
  BY <1>2, <1>9 DEF vars, generator
<1> QED
  BY <1>1, <1>4, <1>5, <1>6, <1>7, <1>8, <1>9 DEF Next, Generate

\* An iteration that ends without an exception has fed the whole plan.
THEOREM FeedWhole == Spec => []FeedIsWhole
<1>1. Init => WholeInv
  BY OrderInvInit DEF WholeInv, Init
<1>2. WholeInv => FeedIsWhole
  BY DEF WholeInv, FeedIsWhole
<1> QED BY <1>1, <1>2, WholeInvNext, PTL DEF Spec

\* The writer is fed the plan: exact tensors in order, and all of them unless
\* an exception ends the iteration (_iter_dense_tensors).
THEOREM TheFeedIsRight == Spec => []FeedIsRight
<1>1. FeedIsExact /\ FeedIsWhole => FeedIsRight BY DEF FeedIsRight
<1> QED BY <1>1, FeedExact, FeedWhole, PTL

\* A cancelled download is prompt to stop, and no download outlives the
\* iteration (the finally block of _iter_dense_tensors).
THEOREM TheEndIsClean == Spec => []EndIsClean
<1>1. NothingRunsAfterEnd /\ CancelIsPrompt => EndIsClean BY DEF EndIsClean
<1> QED BY <1>1, PoolIsEmptyAtEnd, PromptCancel, PTL

-----------------------------------------------------------------------------
(***************************************************************************)
(* StagingSound.  The bytes reserved are exactly those of the items in     *)
(* flight and of the one taken, each item reserves what its download holds *)
(* at most, and submit_available keeps the reservations within the limit.  *)
(***************************************************************************)

\* What the downloads hold, and what is reserved for them.
Memories == [i \in Items |-> Memory(i)]
Reservations == [i \in Items |-> Reservation(i)]

Active == {"submit", "take", "await", "yield"}

\* The items with a reservation.
Engaged == ToSet(inflight) \union (IF pc \in {"await", "yield"} THEN {current} ELSE {})

\* Attempts are counted, and a request asks for a byte of the range.
BoundedFetch(i) ==
  /\ fetch[i].attempt \in 0..MaxAttempts
  /\ fetch[i].phase \in {"backoff", "open", "guard", "read"} => fetch[i].attempt < MaxAttempts
  /\ fetch[i].at \in 1..(Size[i] + 1)

Reserved ==
  /\ limit \in Limits /\ reserved \in 0..limit
  /\ pc \in Active => reserved = Sum(Reservations, Engaged)
  /\ pc \in {"await", "yield"} => current \notin ToSet(inflight)

Bounded ==
  /\ next <= Len(Plan) + 1 /\ Len(inflight) <= Workers /\ failed \in BOOLEAN
  /\ \A i \in Items : BoundedFetch(i)

StagingInv == OrderInv /\ Reserved /\ Bounded

\* A fetch counts its attempts and asks for no byte past its range.
LEMMA BoundedStep ==
  ASSUME Shape, NEW i \in Items, ExactFetch(i), BoundedFetch(i), FetchStep(i)
  PROVE  BoundedFetch(i)'
<1>1. fetch[i] \in Downloads /\ Size[i] \in Nat \ {0} /\ MaxAttempts \in Nat \ {0}
  BY RangeFetchAssumption DEF Shape
<1>2. Received(i) \in Nat BY <1>1 DEF Received, Downloads
<1>3. ASSUME NEW p, Go(i, p),
             p \in {"backoff", "open", "guard", "read"} => fetch[i].attempt < MaxAttempts
      PROVE  BoundedFetch(i)'
  <2>1. fetch'[i] = [fetch[i] EXCEPT !.phase = p] BY <1>3 DEF Go, Shape
  <2>2. /\ fetch'[i].phase = p /\ fetch'[i].attempt = fetch[i].attempt
        /\ fetch'[i].at = fetch[i].at
    BY <1>1, <2>1 DEF Downloads
  <2> QED BY <1>3, <2>2 DEF BoundedFetch
<1>4. ASSUME Retry(i), fetch[i].phase \in {"open", "guard", "read"} PROVE BoundedFetch(i)'
  <2>1. fetch'[i] = [fetch[i] EXCEPT !.phase = "attempt", !.attempt = @ + 1]
    BY <1>4 DEF Retry, Shape
  <2>2. /\ fetch'[i].phase = "attempt" /\ fetch'[i].attempt = fetch[i].attempt + 1
        /\ fetch'[i].at = fetch[i].at
    BY <1>1, <2>1 DEF Downloads
  <2> QED BY <1>1, <1>4, <2>2 DEF BoundedFetch
<1>5. CASE Start(i) BY <1>3, <1>5 DEF Start
<1>6. CASE Attempt(i)
  <2>1. PICK p : /\ Go(i, p)
                 /\ p \in {"convert", "failed"} \/ fetch[i].attempt < MaxAttempts
    BY <1>6 DEF Attempt
  <2> QED BY <1>3, <2>1
<1>7. CASE Backoff(i)
  <2>1. fetch[i].attempt < MaxAttempts BY <1>7 DEF Backoff, BoundedFetch
  <2> QED BY <1>3, <1>7, <2>1 DEF Backoff
<1>8. CASE OpenFails(i) BY <1>4, <1>8 DEF OpenFails
<1>9. CASE OpenRefused(i) BY <1>3, <1>9 DEF OpenRefused
<1>10. CASE OpenAnswered(i)
  <2>1. fetch'[i] = [fetch[i] EXCEPT !.phase = "guard", !.at = RequestStart(i)]
    BY <1>10 DEF OpenAnswered, Shape
  <2>2. /\ fetch'[i].phase = "guard" /\ fetch'[i].attempt = fetch[i].attempt
        /\ fetch'[i].at = Received(i) + 1
    BY <1>1, <2>1 DEF Downloads, RequestStart
  <2>3. Received(i) <= Size[i] BY DEF ExactFetch
  <2> QED BY <1>1, <1>2, <1>10, <2>2, <2>3 DEF BoundedFetch, OpenAnswered
<1>11. CASE Guard(i)
  <2>1. fetch[i].attempt < MaxAttempts BY <1>11 DEF Guard, BoundedFetch
  <2> QED BY <1>3, <1>4, <1>11, <2>1 DEF Guard
<1>12. CASE Read(i)
  <2>1. CASE Retry(i) BY <1>4, <1>12, <2>1 DEF Read
  <2>2. CASE Go(i, "failed") BY <1>3, <2>2
  <2>3. ASSUME NEW n \in 1..BlockSize, fetch[i].at + n - 1 <= Size[i],
               fetch' = [fetch EXCEPT
                         ![i].phase = "guard",
                         ![i].buf = @ \o [k \in 1..n |-> fetch[i].at + k - 1],
                         ![i].at = @ + n]
        PROVE  BoundedFetch(i)'
    <3> DEFINE b == fetch[i].buf \o [k \in 1..n |-> fetch[i].at + k - 1]
    <3>1. fetch'[i] = [fetch[i] EXCEPT !.phase = "guard", !.buf = b, !.at = @ + n]
      BY <2>3 DEF Shape
    <3> HIDE DEF b
    <3>2. /\ fetch'[i].phase = "guard" /\ fetch'[i].attempt = fetch[i].attempt
          /\ fetch'[i].at = fetch[i].at + n
      BY <1>1, <3>1 DEF Downloads
    <3>3. n \in Nat \ {0} /\ fetch[i].at \in Nat \ {0} BY <1>1, RangeFetchAssumption DEF Downloads
    <3>4. fetch'[i].at \in 1..(Size[i] + 1)
      <4>1. fetch[i].at + n - 1 <= Size[i] BY <2>3
      <4> QED BY <1>1, <3>2, <3>3, <4>1
    <3>5. fetch[i].attempt \in 0..MaxAttempts /\ fetch[i].attempt < MaxAttempts
      BY <1>12 DEF BoundedFetch, Read
    <3> QED BY <3>2, <3>4, <3>5 DEF BoundedFetch
  <2> QED BY <1>12, <2>1, <2>2, <2>3 DEF Read
<1>13. CASE Convert(i) BY <1>3, <1>13 DEF Convert
<1> QED BY <1>5, <1>6, <1>7, <1>8, <1>9, <1>10, <1>11, <1>12, <1>13 DEF FetchStep

\* The memory of some downloads is the sum of theirs.
LEMMA MemoryIsSum ==
  ASSUME NEW S \in SUBSET Items
  PROVE  MapThenSumSet(Memory, S) = Sum(Memories, S)
<1> DEFINE Rows(g) == [s \in SUBSET S |-> IF s = {} THEN 0
                                          ELSE Memory(Pick(s)) + g[s \ {Pick(s)}]]
<1>1. MapThenSumSet(Memory, S) = (CHOOSE g : g = Rows(g))[S]
  BY DEF MapThenSumSet, MapThenFoldSet, Pick
<1>2. ASSUME NEW g PROVE Rows(g) = [s \in SUBSET S |-> TableRow("sum", g, Memories, s)]
  <2>1. ASSUME NEW s \in SUBSET S
        PROVE  TableRow("sum", g, Memories, s) = IF s = {} THEN 0 ELSE Memory(Pick(s)) + g[s \ {Pick(s)}]
    <3>1. CASE s = {} BY <3>1 DEF TableRow, FoldBase
    <3>2. CASE s # {}
      <4>1. Pick(s) \in Items BY <3>2, PickIsElement
      <4>2. Memories[Pick(s)] = Memory(Pick(s)) BY <4>1 DEF Memories
      <4> QED BY <3>2, <4>2 DEF TableRow, FoldStep, LastFolded
    <3> QED BY <3>1, <3>2
  <2> QED BY <2>1
<1>3. \A g : g = Rows(g) <=> IsTable("sum", g, Memories, S) BY <1>2 DEF IsTable
<1> HIDE DEF Rows
<1>4. (CHOOSE g : g = Rows(g)) = (CHOOSE g : IsTable("sum", g, Memories, S)) BY <1>3
<1> QED BY <1>1, <1>4, SumIsFold DEF Fold

\* What the reservations of some items come to.
LEMMA ReservationFacts ==
  /\ IsFiniteSet(Items) /\ Reservations \in [Items -> Nat]
  /\ \A i \in Items : Reservations[i] = Reservation(i) /\ Reservation(i) = 2 * Size[i] /\ Size[i] \in Nat \ {0}
  /\ \A S \in SUBSET Items : IsFiniteSet(S) /\ Sum(Reservations, S) \in Nat
<1>1. ASSUME NEW i \in Items
      PROVE  Reservation(i) = 2 * Size[i] /\ Size[i] \in Nat \ {0} /\ Reservation(i) \in Nat
  BY RangeFetchAssumption DEF Reservation
<1>2. Reservations \in [Items -> Nat] BY <1>1 DEF Reservations
<1>3. ASSUME NEW S \in SUBSET Items PROVE IsFiniteSet(S) /\ Sum(Reservations, S) \in Nat
  <2>1. IsFiniteSet(S) BY RangeFetchAssumption, FS_Subset
  <2> QED BY <1>2, <2>1, SumIsNat
<1> QED BY <1>1, <1>2, <1>3, RangeFetchAssumption DEF Reservations

\* An item's reservation is added to those of a set it is not in.
LEMMA ReservationAdds ==
  ASSUME NEW S \in SUBSET Items, NEW i \in Items, i \notin S
  PROVE  Sum(Reservations, S \union {i}) = Reservations[i] + Sum(Reservations, S)
<1>1. IsFiniteSet(S) /\ Reservations \in [Items -> Nat] BY ReservationFacts
<1> DEFINE w == Reservations
<1>2. w \in [Items -> Nat] BY <1>1
<1> HIDE DEF w
<1>3. Sum(w, S \union {i}) = w[i] + Sum(w, S) BY <1>1, <1>2, SumPutIn
<1> QED BY <1>3 DEF w

\* The queue holds each item once, and none that is still to be submitted.
LEMMA QueueFacts ==
  ASSUME OrderInv, pc \in Active
  PROVE  /\ inflight \in Distinct(Items) /\ ToSet(inflight) \in SUBSET Items
         /\ next <= Len(Plan) => Plan[next] \in Items /\ Plan[next] \notin ToSet(inflight)
<1>1. /\ Len(fed) \in Nat /\ Len(inflight) \in Nat /\ next \in Nat \ {0} /\ Len(Plan) \in Nat
      /\ inflight \in Seq(Items) /\ DOMAIN inflight = 1..Len(inflight)
      /\ Plan \in Seq(Items) /\ DOMAIN Plan = 1..Len(Plan)
      /\ \A j, k \in 1..Len(Plan) : Plan[j] = Plan[k] => j = k
  BY DenseDownloadsAssumption DEF OrderInv, StopInv, GeneratorShape, IsInjective
<1>2. Taken \in Nat BY <1>1 DEF Taken
<1>3. /\ next = Taken + Len(inflight) + 1 /\ next <= Len(Plan) + 1
      /\ \A k \in 1..Len(inflight) : inflight[k] = Plan[Taken + k]
  BY DEF OrderInv, InOrder, Active
<1>4. \A k \in 1..Len(inflight) : Taken + k \in 1..Len(Plan) /\ Taken + k # next
  BY <1>1, <1>2, <1>3
<1>5. \A j, k \in 1..Len(inflight) : inflight[j] = inflight[k] => j = k
  <2>1. TAKE j, k \in 1..Len(inflight)
  <2>2. inflight[j] = inflight[k] => Taken + j = Taken + k BY <1>1, <1>3, <1>4
  <2> QED BY <1>1, <1>2, <2>2
<1>6. inflight \in Distinct(Items) BY <1>1, <1>5 DEF Distinct, IsInjective
<1>7. ASSUME next <= Len(Plan) PROVE Plan[next] \in Items /\ Plan[next] \notin ToSet(inflight)
  <2>1. next \in 1..Len(Plan) BY <1>1, <1>7
  <2>2. Plan[next] \in Items BY <1>1, <2>1
  <2>3. ASSUME NEW k \in 1..Len(inflight) PROVE inflight[k] # Plan[next]
    BY <1>1, <1>3, <1>4, <2>1
  <2> QED BY <1>1, <2>2, <2>3 DEF ToSet
<1> QED BY <1>1, <1>6, <1>7, ElementsAreFinite

\* Nothing is reserved at the start.
LEMMA StagingInvInit == Init => StagingInv
<1> SUFFICES ASSUME Init PROVE StagingInv OBVIOUS
<1>1. OrderInv BY OrderInvInit
<1> USE DEF Init
<1>2. limit \in Nat \ {0} /\ Len(Plan) \in Nat /\ Workers \in Nat
  BY DenseDownloadsAssumption
<1>3. Engaged = {} BY EmptyFacts DEF Engaged
<1>4. Sum(Reservations, {}) = 0 BY SumRow, FS_EmptySet
<1>5. Reserved BY <1>2, <1>3, <1>4 DEF Reserved, Active
<1>6. ASSUME NEW i \in Items PROVE BoundedFetch(i)
  BY RangeFetchAssumption DEF FetchInit, BoundedFetch
<1>7. Bounded
  <2>1. next = 1 /\ Len(inflight) = 0 /\ failed = FALSE OBVIOUS
  <2>2. next <= Len(Plan) + 1 /\ Len(inflight) <= Workers BY <1>2, <2>1
  <2> QED BY <1>6, <2>1, <2>2 DEF Bounded
<1> QED BY <1>1, <1>5, <1>7 DEF StagingInv

\* What the reservations depend on.
LEMMA ReservedStays ==
  ASSUME Reserved, UNCHANGED <<limit, inflight, current, reserved>>,
         pc' \in Active => pc \in Active /\ (pc \in {"await", "yield"} <=> pc' \in {"await", "yield"})
  PROVE  Reserved'
<1>1. ToSet(inflight)' = ToSet(inflight) BY DEF ToSet
<1>2. pc' \in Active => Engaged' = Engaged BY <1>1 DEF Engaged
<1> QED BY <1>1, <1>2 DEF Reserved, Active

\* Submitting reserves; the next request of the writer releases.
LEMMA ReservedStep == StagingInv /\ OrderInv' /\ [Next]_vars => Reserved'
<1> SUFFICES ASSUME StagingInv, OrderInv', [Next]_vars PROVE Reserved'
  OBVIOUS
<1>a. /\ GeneratorShape /\ Reserved /\ OrderInv
      /\ inflight \in Seq(Items) /\ ToSet(inflight) \in SUBSET Items
      /\ limit \in Nat /\ reserved \in Nat
  BY ElementsAreFinite, DenseDownloadsAssumption
  DEF StagingInv, Reserved, OrderInv, StopInv, GeneratorShape
<1> HIDE DEF StagingInv
<1>b. ASSUME UNCHANGED <<limit, inflight, current, reserved>>, pc' = pc PROVE Reserved'
  BY <1>a, <1>b, ReservedStays
<1>c. ASSUME UNCHANGED <<limit, inflight, current, reserved>>, pc' \notin Active PROVE Reserved'
  BY <1>a, <1>c, ReservedStays
<1>1. CASE \E i \in Items : Fetch(i) BY <1>b, <1>1 DEF Fetch, generator
<1>2. CASE Submit
  <2> DEFINE i == Plan[next]
  <2>1. /\ pc = "submit" /\ pc' = "submit" /\ More /\ Fits(i) /\ Reservation(i) <= limit
        /\ inflight' = Append(inflight, i) /\ reserved' = reserved + Reservation(i)
        /\ UNCHANGED limit
    BY <1>2 DEF Submit
  <2>2. /\ inflight \in Distinct(Items) /\ i \in Items /\ i \notin ToSet(inflight)
    BY <1>a, <2>1, QueueFacts DEF More, Active
  <2> HIDE DEF i
  <2>3. ToSet(inflight') = ToSet(inflight) \union {i}
    <3>1. ToSet(Append(inflight, i)) = ToSet(inflight) \union {i} BY <2>2, AppendFacts
    <3> QED BY <2>1, <3>1
  <2>4. Engaged = ToSet(inflight) /\ Engaged' = ToSet(inflight) \union {i}
    <3>1. ToSet(inflight)' = ToSet(inflight') BY DEF ToSet
    <3> QED BY <2>1, <2>3, <3>1 DEF Engaged
  <2>5. Sum(Reservations, ToSet(inflight) \union {i})
          = Reservations[i] + Sum(Reservations, ToSet(inflight))
    <3>1. ToSet(inflight) \in SUBSET Items BY <1>a, <2>1, QueueFacts DEF Active
    <3> QED BY <2>2, <3>1, ReservationAdds
  <2>6. reserved = Sum(Reservations, ToSet(inflight)) BY <1>a, <2>1, <2>4 DEF Reserved, Active
  <2>7. Reservations[i] = Reservation(i) /\ Reservation(i) \in Nat BY <2>2, ReservationFacts
  <2>8. reserved' = Sum(Reservations, Engaged')
    BY <1>a, <2>1, <2>4, <2>5, <2>6, <2>7
  <2>9. reserved' \in 0..limit
    <3>1. CASE inflight = <<>>
      <4>1. ToSet(inflight) = {} BY <3>1, EmptyFacts
      <4>2. reserved = 0 BY <2>6, <4>1, SumRow, FS_EmptySet
      <4> QED BY <1>a, <2>1, <2>7, <4>2
    <3>2. CASE inflight # <<>>
      <4>1. reserved + Reservation(i) <= limit BY <2>1, <3>2 DEF Fits
      <4> QED BY <1>a, <2>1, <2>7, <4>1
    <3> QED BY <3>1, <3>2
  <2> QED BY <1>a, <2>1, <2>8, <2>9 DEF Reserved
<1>3. CASE RefuseItem BY <1>c, <1>3 DEF RefuseItem, Active
<1>4. CASE Submitted
  <2>1. /\ pc = "submit" /\ pc' \in {"close", "take"}
        /\ UNCHANGED <<limit, inflight, current, reserved>>
    BY <1>4 DEF Submitted
  <2> QED BY <1>a, <2>1, ReservedStays DEF Active
<1>5. CASE Take
  <2>1. /\ pc = "take" /\ pc' = "await" /\ current' = Head(inflight)
        /\ inflight' = Tail(inflight) /\ inflight # <<>> /\ UNCHANGED <<limit, reserved>>
    BY <1>a, <1>5 DEF Take, GeneratorShape
  <2>2. inflight \in Distinct(Items) BY <1>a, <2>1, QueueFacts DEF Active
  <2>3. /\ ToSet(inflight) = ToSet(Tail(inflight)) \union {Head(inflight)}
        /\ Head(inflight) \notin ToSet(Tail(inflight))
    BY <2>1, <2>2, TailFacts
  <2>4. ToSet(inflight)' = ToSet(Tail(inflight)) BY <2>1 DEF ToSet
  <2>5. Engaged = ToSet(inflight) /\ Engaged' = ToSet(inflight)
    BY <2>1, <2>3, <2>4 DEF Engaged
  <2> QED BY <1>a, <2>1, <2>3, <2>4, <2>5 DEF Reserved, Active
<1>6. CASE Await
  <2>1. /\ pc = "await" /\ pc' \in {"yield", "close"}
        /\ UNCHANGED <<limit, inflight, current, reserved>>
    BY <1>6 DEF Await
  <2> QED BY <1>a, <2>1, ReservedStays DEF Active
<1>7. CASE Interrupt BY <1>c, <1>7 DEF Interrupt, Active
<1>8. CASE Resume \/ Abandon
  <2>1. /\ pc = "yield" /\ pc' \in {"submit", "close"} /\ reserved' = reserved - Reservation(current)
        /\ UNCHANGED <<limit, inflight, current>>
    BY <1>8 DEF Resume, Abandon
  <2>2. /\ current \in Items /\ current \notin ToSet(inflight)
        /\ reserved = Sum(Reservations, ToSet(inflight) \union {current})
    BY <1>a, <2>1 DEF GeneratorShape, Reserved, Engaged, Active
  <2>3. Sum(Reservations, ToSet(inflight) \union {current})
          = Reservations[current] + Sum(Reservations, ToSet(inflight))
    <3>1. ToSet(inflight) \in SUBSET Items BY <1>a, <2>1, QueueFacts DEF Active
    <3> QED BY <2>2, <3>1, ReservationAdds
  <2>4. /\ Reservations[current] = Reservation(current) /\ Reservation(current) \in Nat
        /\ Sum(Reservations, ToSet(inflight)) \in Nat
    BY <1>a, <2>2, ReservationFacts
  <2>5. reserved' = Sum(Reservations, ToSet(inflight)) BY <2>1, <2>2, <2>3, <2>4
  <2>6. reserved' \in 0..limit
    <3>1. reserved <= limit BY <1>a DEF Reserved
    <3> QED BY <1>a, <2>1, <2>4, <2>5, <3>1
  <2>7. pc' \in Active => Engaged' = ToSet(inflight)
    <3>1. ToSet(inflight)' = ToSet(inflight) BY <2>1 DEF ToSet
    <3> QED BY <2>1, <3>1 DEF Engaged, Active
  <2> QED BY <1>a, <2>1, <2>5, <2>6, <2>7 DEF Reserved, Active
<1>9. CASE SetCancel BY <1>c, <1>9 DEF SetCancel, Active
<1>10. CASE CancelNext
  BY <1>a, <1>10 DEF CancelNext, Reserved, Active
<1>11. CASE Shutdown BY <1>c, <1>11 DEF Shutdown, Active
<1>12. CASE Join BY <1>c, <1>12 DEF Join, Active
<1>13. CASE UNCHANGED vars BY <1>b, <1>13 DEF vars, generator
<1> QED
  BY <1>1, <1>2, <1>3, <1>4, <1>5, <1>6, <1>7, <1>8, <1>9, <1>10, <1>11, <1>12, <1>13
  DEF Next, Generate

\* The other bounds.
LEMMA BoundedKept == StagingInv /\ OrderInv' /\ [Next]_vars => Bounded'
<1> SUFFICES ASSUME StagingInv, OrderInv', [Next]_vars PROVE Bounded'
  OBVIOUS
<1>a. /\ Shape /\ GeneratorShape /\ Bounded /\ OrderInv
      /\ next \in Nat \ {0} /\ Len(Plan) \in Nat /\ Len(inflight) \in Nat /\ Workers \in Nat \ {0, 1}
      /\ inflight \in Seq(Items) /\ \A i \in Items : BoundedFetch(i) /\ fetch[i] \in Downloads
  <2>1. Shape /\ GeneratorShape /\ Bounded /\ OrderInv BY DEF StagingInv, OrderInv, StopInv
  <2>2. \A i \in Items : BoundedFetch(i) /\ fetch[i] \in Downloads BY <2>1 DEF Shape, Bounded
  <2>3. /\ next \in Nat \ {0} /\ inflight \in Seq(Items) /\ Len(inflight) \in Nat
        /\ Len(Plan) \in Nat /\ Workers \in Nat \ {0, 1}
    BY <2>1, DenseDownloadsAssumption DEF GeneratorShape
  <2> QED BY <2>1, <2>2, <2>3
<1>b. ASSUME failed' \in BOOLEAN, next' = next, inflight' = inflight,
             \A i \in Items : BoundedFetch(i)'
      PROVE  Bounded'
  BY <1>a, <1>b DEF Bounded
<1>c. ASSUME UNCHANGED fetch PROVE \A i \in Items : BoundedFetch(i)'
  BY <1>a, <1>c DEF BoundedFetch
<1>d. ASSUME NEW i \in Items,
             /\ fetch'[i].attempt = fetch[i].attempt /\ fetch'[i].at = fetch[i].at
             /\ fetch'[i].phase \in {fetch[i].phase, "queued", "cancelled"}
      PROVE  BoundedFetch(i)'
  BY <1>a, <1>d DEF BoundedFetch
<1>1. ASSUME NEW i \in Items, Fetch(i) PROVE Bounded'
  <2>1. /\ FetchStep(i) /\ UNCHANGED generator
        /\ \A j \in Items \ {i} : fetch'[j] = fetch[j]
    BY <1>a, <1>1, FetchStepFacts DEF Fetch
  <2>2. BoundedFetch(i)' BY <1>a, <2>1, BoundedStep DEF OrderInv
  <2>3. ASSUME NEW j \in Items PROVE BoundedFetch(j)'
    <3>1. CASE j = i BY <2>2, <3>1
    <3>2. CASE j # i BY <1>a, <2>1, <3>2 DEF BoundedFetch
    <3> QED BY <3>1, <3>2
  <2> QED BY <1>a, <1>b, <2>1, <2>3 DEF generator, Bounded
<1>2. CASE Submit
  <2>1. /\ pc = "submit" /\ More /\ next' = next + 1 /\ UNCHANGED failed
        /\ inflight' = Append(inflight, Plan[next])
        /\ fetch' = [fetch EXCEPT ![Plan[next]].phase = "queued"]
    BY <1>2 DEF Submit, Go
  <2>2. next <= Len(Plan) /\ Len(inflight) < Workers BY <2>1 DEF More
  <2>3. Plan[next] \in Items BY <1>a, <2>1, PlannedItem
  <2>4. Len(inflight') = Len(inflight) + 1 BY <1>a, <2>1, <2>3
  <2>5. ASSUME NEW i \in Items PROVE BoundedFetch(i)'
    <3>1. /\ fetch'[i].attempt = fetch[i].attempt /\ fetch'[i].at = fetch[i].at
          /\ fetch'[i].phase \in {fetch[i].phase, "queued"}
      BY <1>a, <2>1, <2>3 DEF Shape, Downloads
    <3> QED BY <1>d, <3>1
  <2> QED BY <1>a, <2>1, <2>2, <2>4, <2>5 DEF Bounded
<1>3. CASE RefuseItem \/ Submitted \/ Await \/ Interrupt \/ Resume \/ Abandon \/ SetCancel \/ Join
  <2>1. fetch' = fetch /\ next' = next /\ inflight' = inflight /\ failed' \in {failed, TRUE}
    BY <1>3 DEF RefuseItem, Submitted, Await, Interrupt, Resume, Abandon, SetCancel, Join, fetching
  <2> QED BY <1>a, <1>b, <1>c, <2>1 DEF Bounded
<1>4. CASE Take
  <2>1. fetch' = fetch /\ next' = next /\ inflight' = Tail(inflight) /\ failed' = failed /\ inflight # <<>>
    BY <1>a, <1>4 DEF Take, fetching, GeneratorShape
  <2>2. Len(inflight') = Len(inflight) - 1 BY <1>a, <2>1
  <2> QED BY <1>a, <1>c, <2>1, <2>2 DEF Bounded
<1>5. CASE CancelNext
  <2> DEFINE h == Head(inflight)
             p == IF fetch[h].phase = "queued" THEN "cancelled" ELSE fetch[h].phase
  <2>1. /\ inflight # <<>> /\ inflight' = Tail(inflight) /\ UNCHANGED <<next, failed>>
        /\ fetch' = [fetch EXCEPT ![h].phase = p]
    BY <1>5 DEF CancelNext, Go
  <2>2. Len(inflight') = Len(inflight) - 1 /\ h \in Items BY <1>a, <2>1
  <2>3. ASSUME NEW i \in Items PROVE BoundedFetch(i)'
    <3>1. /\ fetch'[i].attempt = fetch[i].attempt /\ fetch'[i].at = fetch[i].at
          /\ fetch'[i].phase \in {fetch[i].phase, "cancelled"}
      BY <1>a, <2>1, <2>2 DEF Shape, Downloads
    <3> QED BY <1>d, <3>1
  <2> QED BY <1>a, <2>1, <2>2, <2>3 DEF Bounded
<1>6. CASE Shutdown
  <2>1. UNCHANGED <<next, failed, inflight>> BY <1>6 DEF Shutdown
  <2>2. ASSUME NEW i \in Items PROVE BoundedFetch(i)'
    <3>1. fetch'[i] = IF fetch[i].phase = "queued" THEN [fetch[i] EXCEPT !.phase = "cancelled"]
                      ELSE fetch[i]
      BY <1>6 DEF Shutdown
    <3>2. /\ fetch'[i].attempt = fetch[i].attempt /\ fetch'[i].at = fetch[i].at
          /\ fetch'[i].phase \in {fetch[i].phase, "cancelled"}
      BY <1>a, <3>1 DEF Downloads
    <3> QED BY <1>d, <3>2
  <2> QED BY <1>a, <1>b, <2>1, <2>2 DEF Bounded
<1>7. CASE UNCHANGED vars
  BY <1>a, <1>b, <1>c, <1>7 DEF vars, fetching, generator, Bounded
<1> QED BY <1>1, <1>2, <1>3, <1>4, <1>5, <1>6, <1>7 DEF Next, Generate

\* A download holds at most what its item reserves, twice that if it is widened.
LEMMA MemoryFacts ==
  ASSUME Shape, NEW i \in Items, ExactFetch(i)
  PROVE  /\ Memory(i) \in Nat /\ Memory(i) <= 2 * Reservation(i)
         /\ i \notin Widened => Memory(i) <= 1 * Reservation(i)
<1>1. Size[i] \in Nat \ {0} BY RangeFetchAssumption
<1>2. Received(i) \in Nat /\ Received(i) <= Size[i]
  BY DEF Shape, Downloads, Received, ExactFetch
<1> DEFINE m == Memory(i)
<1>3. \/ m \in {0, Received(i), Size[i] * 1, Size[i] * 2}
      \/ m = Size[i] * 4 /\ i \in Widened
  <2>1. CASE fetch[i].phase \in {"idle", "queued", "cancelled"} BY <2>1 DEF Memory
  <2>2. CASE fetch[i].phase = "convert"
    <3>1. m = Size[i] * (IF i \in Widened THEN 4 ELSE 2) BY <2>2 DEF Memory
    <3> HIDE DEF m
    <3> QED BY <3>1
  <2>3. CASE fetch[i].phase = "done"
    <3>1. m = Size[i] * (IF i \in Widened THEN 2 ELSE 1) BY <2>3 DEF Memory
    <3> HIDE DEF m
    <3> QED BY <3>1
  <2>4. CASE fetch[i].phase \notin {"idle", "queued", "cancelled", "convert", "done"}
    BY <2>4 DEF Memory
  <2> QED BY <2>1, <2>2, <2>3, <2>4
<1> HIDE DEF m
<1>4. Reservation(i) = 2 * Size[i] BY DEF Reservation
<1> QED BY <1>1, <1>2, <1>3, <1>4 DEF m

\* Together, the downloads referred to hold at most c times what is reserved,
\* besides the tensor that the writer has released.
LEMMA StagedFacts ==
  ASSUME StagingInv, pc \in Active, NEW c \in Nat,
         \A i \in Items : Memory(i) \in Nat /\ Memory(i) <= c * Reservation(i)
  PROVE  Staged <= c * limit
                   + IF pc \in {"submit", "take"} /\ current # None THEN Memory(current) ELSE 0
<1>1. /\ GeneratorShape /\ inflight \in Seq(Items) /\ ToSet(inflight) \in SUBSET Items
      /\ IsFiniteSet(ToSet(inflight)) /\ None \notin Items /\ limit \in Nat
      /\ reserved \in Nat /\ reserved <= limit /\ reserved = Sum(Reservations, Engaged)
  BY ElementsAreFinite, DenseDownloadsAssumption
  DEF StagingInv, OrderInv, StopInv, GeneratorShape, Reserved
<1>2. Referenced \in SUBSET Items BY <1>1 DEF Referenced, GeneratorShape
<1>3. Engaged \in SUBSET Items BY <1>1 DEF Engaged, GeneratorShape
<1>4. Memories \in [Items -> Nat] /\ \A i \in Items : Memories[i] = Memory(i) BY DEF Memories
<1>5. /\ Reservations \in [Items -> Nat]
      /\ \A i \in Items : Memories[i] <= c * Reservations[i]
      /\ \A S \in SUBSET Items : IsFiniteSet(S)
  BY <1>4, ReservationFacts
<1>6. Sum(Memories, Engaged) <= c * limit /\ Sum(Memories, Engaged) \in Nat
  <2>1. IsFiniteSet(Engaged) /\ \A i \in Engaged : Memories[i] <= c * Reservations[i]
    BY <1>3, <1>5
  <2>2. Sum(Memories, Engaged) <= c * Sum(Reservations, Engaged)
    BY <1>3, <1>4, <1>5, <2>1, SumIsBounded
  <2>3. Sum(Memories, Engaged) \in Nat BY <1>3, <1>4, <2>1, SumIsNat
  <2>4. \A a, b \in Nat : a <= b => c * a <= c * b /\ c * a \in Nat /\ c * b \in Nat OBVIOUS
  <2>5. c * reserved <= c * limit /\ c * reserved \in Nat /\ c * limit \in Nat BY <1>1, <2>4
  <2> DEFINE p == c * reserved  q == c * limit
  <2>6. Sum(Memories, Engaged) <= p BY <1>1, <2>2
  <2> HIDE DEF p, q
  <2>7. Sum(Memories, Engaged) <= q BY <2>3, <2>5, <2>6 DEF p, q
  <2> QED BY <2>3, <2>7 DEF q
<1>7. Staged = Sum(Memories, Referenced) BY <1>2, MemoryIsSum DEF Staged
<1>8. CASE pc \in {"await", "yield"} \/ current = None \/ current \in ToSet(inflight)
  <2>1. Referenced = Engaged BY <1>1, <1>8 DEF Referenced, Engaged, GeneratorShape
  <2>2. c * limit \in Nat BY <1>1
  <2>3. current \in Items => Memory(current) \in Nat OBVIOUS
  <2> DEFINE q == c * limit
             rest == IF pc \in {"submit", "take"} /\ current # None THEN Memory(current) ELSE 0
  <2>4. rest \in Nat BY <1>1, <2>3 DEF GeneratorShape
  <2>5. Staged <= q /\ Staged \in Nat BY <1>6, <1>7, <2>1
  <2> HIDE DEF q, rest
  <2>6. Staged <= q + rest BY <2>2, <2>4, <2>5 DEF q
  <2> QED BY <2>6 DEF q, rest
<1>9. CASE pc \in {"submit", "take"} /\ current # None /\ current \notin ToSet(inflight)
  <2>1. current \in Items BY <1>1, <1>9 DEF GeneratorShape
  <2>2. Engaged = ToSet(inflight) /\ Referenced = ToSet(inflight) \union {current}
    BY <1>9 DEF Engaged, Referenced
  <2>3. Staged = Memory(current) + Sum(Memories, Engaged)
    <3>1. Sum(Memories, ToSet(inflight) \union {current})
            = Memories[current] + Sum(Memories, ToSet(inflight))
      BY <1>1, <1>4, <1>9, <2>1, SumPutIn
    <3> QED BY <1>4, <1>7, <2>1, <2>2, <3>1
  <2>4. c * limit \in Nat /\ Memory(current) \in Nat BY <1>1, <2>1
  <2> DEFINE q == c * limit  m == Memory(current)
  <2>5. q \in Nat /\ m \in Nat /\ Staged = m + Sum(Memories, Engaged) /\ Sum(Memories, Engaged) <= q
    BY <1>6, <2>3, <2>4
  <2> HIDE DEF q, m
  <2>6. Staged <= q + m BY <1>6, <2>5
  <2> QED BY <1>9, <2>6 DEF q, m
<1> QED BY <1>8, <1>9 DEF Active

\* Reservations and bounds are kept together.
LEMMA StagingInvNext == StagingInv /\ [Next]_vars => StagingInv'
<1>1. StagingInv /\ [Next]_vars => OrderInv' BY OrderInvNext DEF StagingInv
<1> QED BY <1>1, ReservedStep, BoundedKept DEF StagingInv

\* The invariant has the types of every variable.
LEMMA StagingInvTypes == StagingInv => TypeOK
<1> SUFFICES ASSUME StagingInv PROVE TypeOK OBVIOUS
<1>1. Shape /\ GeneratorShape /\ Reserved /\ Bounded /\ \A i \in Items : ExactFetch(i)
  BY DEF StagingInv, OrderInv, StopInv
<1>2. ASSUME NEW i \in Items PROVE fetch[i] \in Fetches
  <2>1. /\ fetch[i] \in Downloads /\ Size[i] \in Nat \ {0} /\ Received(i) \in Nat
        /\ Received(i) <= Size[i]
    <3>1. fetch[i] \in Downloads BY <1>1 DEF Shape
    <3>2. Received(i) \in Nat BY <3>1 DEF Downloads, Received
    <3>3. Received(i) <= Size[i] BY <1>1 DEF ExactFetch
    <3> QED BY <3>1, <3>2, <3>3, RangeFetchAssumption
  <2>2. fetch[i].buf = [k \in 1..Received(i) |-> k] BY <1>1 DEF ExactFetch
  <2>3. Received(i) \in 0..Size[i] /\ \A k \in 1..Received(i) : k \in 1..Size[i] BY <2>1
  <2>4. fetch[i].buf \in [1..Received(i) -> 1..Size[i]] BY <2>2, <2>3
  <2>5. fetch[i].buf \in UNION {[1..n -> 1..Size[i]] : n \in 0..Size[i]} BY <2>3, <2>4
  <2>6. fetch[i].attempt \in 0..MaxAttempts /\ fetch[i].at \in 1..(Size[i] + 1)
    BY <1>1 DEF Bounded, BoundedFetch
  <2>7. fetch[i] \in [phase : Phases, attempt : 0..MaxAttempts,
                      buf : UNION {[1..n -> 1..Size[i]] : n \in 0..Size[i]},
                      at : 1..(Size[i] + 1)]
    BY <2>1, <2>5, <2>6 DEF Downloads
  <2> QED BY <2>7 DEF Fetches
<1>3. fetch \in [Items -> Fetches] BY <1>1, <1>2 DEF Shape
<1>4. next \in 1..(Len(Plan) + 1)
  BY <1>1, DenseDownloadsAssumption DEF GeneratorShape, Bounded
<1>5. /\ cancel \in BOOLEAN /\ late \in [Items -> Nat] /\ pc \in Positions
      /\ inflight \in Seq(Items) /\ current \in Items \union {None} /\ fed \in Seq(Feed)
  BY <1>1 DEF Shape, GeneratorShape
<1>6. limit \in Limits /\ reserved \in 0..limit /\ failed \in BOOLEAN /\ Len(inflight) <= Workers
  BY <1>1 DEF Reserved, Bounded
<1> QED BY <1>3, <1>4, <1>5, <1>6 DEF TypeOK, Positions, Feed

\* Every variable of the downloads stays in its type, the reservations within
\* the staging limit and the futures within the pool (submit_available).
THEOREM TypeCorrect == Spec => []TypeOK
BY StagingInvInit, StagingInvNext, StagingInvTypes, PTL DEF Spec

\* Of tensors whose dtype is kept, those held in memory together stay within the
\* staging limit, besides the one being let go (_iter_dense_tensors).
THEOREM StagingStaysInLimit == ASSUME Widened = {} PROVE Spec => []StagingSound
<1>1. StagingInv => StagingBounded
  <2> SUFFICES ASSUME StagingInv, pc \in Active PROVE StagingBounded
    BY DEF StagingBounded, Active
  <2>1. \A i \in Items : Memory(i) \in Nat /\ Memory(i) <= 1 * Reservation(i)
    BY MemoryFacts DEF StagingInv, OrderInv, StopInv
  <2>2. Staged <= 1 * limit
                  + IF pc \in {"submit", "take"} /\ current # None THEN Memory(current) ELSE 0
    BY <2>1, StagedFacts
  <2>3. limit \in Nat BY DenseDownloadsAssumption DEF StagingInv, Reserved
  <2>4. 1 * limit = limit BY <2>3
  <2> QED BY <2>2, <2>4 DEF StagingBounded
<1>2. TypeOK /\ StagingBounded => StagingSound BY DEF StagingSound
<1> QED BY <1>1, <1>2, StagingInvInit, StagingInvNext, StagingInvTypes, PTL DEF Spec

\* With FP8 tensors, which the reader widens beside their source bytes, the
\* limit may be exceeded, by as much again and no more.
StagingAtMostTwice ==
  pc \in Active =>
    Staged <= 2 * limit
              + IF pc \in {"submit", "take"} /\ current # None THEN Memory(current) ELSE 0

\* Whatever the dtypes, the tensors held in memory together stay within twice
\* the staging limit, besides the one being let go (_bytes_to_tensor).
THEOREM WidenedStagingIsBounded == Spec => []StagingAtMostTwice
<1>1. StagingInv => StagingAtMostTwice
  <2> SUFFICES ASSUME StagingInv, pc \in Active PROVE StagingAtMostTwice
    BY DEF StagingAtMostTwice
  <2>1. \A i \in Items : Memory(i) \in Nat /\ Memory(i) <= 2 * Reservation(i)
    BY MemoryFacts DEF StagingInv, OrderInv, StopInv
  <2> QED BY <2>1, StagedFacts DEF StagingAtMostTwice
<1> QED BY <1>1, StagingInvInit, StagingInvNext, PTL DEF Spec
=============================================================================
