---------------------------- MODULE ExpertRuntime ----------------------------
(***************************************************************************)
(* Expert residency of the package runtime: the segmented LRU cache of     *)
(* runtime/expert/cache.py, ExpertManager.fetch_expert and its VRAM tier,  *)
(* the speculative prefetcher's pool and the session adapter.              *)
(*                                                                         *)
(* No lock protects the cache: the thread that generates tokens (Main) and *)
(* the pool's workers interleave between any two accesses to its two       *)
(* ordered dicts, so each access is a step.  An expert's value is a        *)
(* function of its key and is left out.                                    *)
(***************************************************************************)
EXTENDS Integers, SequencesExt

CONSTANTS
  Keys,                    \* experts, (layer, index) pairs
  Main, Workers,           \* the token thread; the prefetcher's pool
  Capacity,                \* ram_capacity_slots
  ProbationaryCapacity,
  Cuda,                    \* whether device is "cuda"
  VramCapacity, PromotionThreshold, PinCount, Warmup,
  Waits,                   \* whether await_partial gets a timeout above zero
  MaxCalls,                \* bound: calls made by Main
  MaxTasks,                \* bound: prefetch tasks submitted
  MaxCount                 \* bound: routing count of an expert in a session

Threads == Workers \union {Main}
ProtectedCapacity == Capacity - ProbationaryCapacity

ASSUME ExpertRuntimeAssumption ==
  /\ IsFiniteSet(Keys) /\ IsFiniteSet(Workers) /\ Main \notin Workers
  /\ Capacity \in Nat \ {0} /\ ProbationaryCapacity \in 1..Capacity
  /\ Cuda \in BOOLEAN /\ Waits \in BOOLEAN
  /\ {VramCapacity, PromotionThreshold, PinCount, Warmup} \subseteq Nat \ {0}
  /\ {MaxCalls, MaxTasks, MaxCount} \subseteq Nat

VARIABLES
  probationary, protected, \* the cache's partitions, least recently used first
  hot,                     \* vram_hot_tier
  freq,                    \* access_frequency, counted up to the threshold
  session,                 \* [token, freq, pinned, frozen]
  agenda,                  \* [order, next, last]: what pinning has left to do
  tasks, pending,          \* tasks submitted; pending_futures: key -> task or 0
  th,                      \* th[t]: the cache operation thread t is in
  raised,                  \* whether a fetch_expert ended with an exception
  hits,                    \* auxiliary: distinct keys in order of their last hit
  calls                    \* bound

cache == <<probationary, protected, hits>>
gpu   == <<hot, freq>>
pins  == <<session, agenda>>
pool  == <<tasks, pending>>
vars  == <<cache, gpu, pins, pool, th, raised, calls>>

Rest == [pc |-> "idle", key |-> Main, caller |-> "none", nested |-> FALSE,
         demoted |-> Main, task |-> 0, seen |-> 0]
FreshSession == [token |-> 0, freq |-> [k \in Keys |-> 0], pinned |-> {}, frozen |-> FALSE]
NoAgenda == [order |-> <<>>, next |-> 1, last |-> 0]

Init ==
  /\ probationary = <<>> /\ protected = <<>> /\ hits = <<>>
  /\ hot = {} /\ freq = [k \in Keys |-> 0]
  /\ session = FreshSession /\ agenda = NoAgenda
  /\ tasks = <<>> /\ pending = [k \in Keys |-> 0]
  /\ th = [t \in Threads |-> Rest]
  /\ raised = FALSE /\ calls = 0

-----------------------------------------------------------------------------
(* Ordered dicts: a new key goes to the end, an old one keeps its place.   *)

Has(dict, k) == k \in ToSet(dict)

Insert(dict, k) == IF Has(dict, k) THEN dict ELSE Append(dict, k)
Without(dict, k) == RemoveAt(dict, CHOOSE i \in DOMAIN dict : dict[i] = k)
MoveToEnd(dict, k) == Append(Without(dict, k), k)

At(t, pc) == th[t].pc = pc
Key(t) == th[t].key
Goto(t, pc) == th' = [th EXCEPT ![t].pc = pc]
Counted(k) == hits' = IF Has(hits, k) THEN MoveToEnd(hits, k) ELSE Append(hits, k)

\* An exception ends a worker's task and Main's fetch; the session adapter
\* swallows it and goes on with the next expert.
Raise(t) ==
  IF t # Main
    THEN /\ tasks' = [tasks EXCEPT ![th[t].task].st = "failed"]
         /\ th' = [th EXCEPT ![t] = Rest] /\ UNCHANGED <<agenda, raised>>
  ELSE IF th[t].caller = "fetch"
    THEN th' = [th EXCEPT ![t] = Rest] /\ raised' = TRUE /\ UNCHANGED <<tasks, agenda>>
    ELSE /\ agenda' = [agenda EXCEPT !.next = @ + 1]
         /\ th' = [th EXCEPT ![t] = [Rest EXCEPT !.pc = th[t].caller, !.caller = th[t].caller]]
         /\ UNCHANGED <<tasks, raised>>
NoRaise == UNCHANGED <<tasks, agenda, raised>>

\* Where a thread goes on when get returns to whoever called it.
AfterGet(t, found) ==
  IF th[t].nested THEN Goto(t, "store") /\ NoRaise
  ELSE IF th[t].caller = "pinRam"
    THEN /\ agenda' = [agenda EXCEPT !.next = @ + 1]
         /\ Goto(t, "pinRam") /\ UNCHANGED <<tasks, raised>>
  ELSE Goto(t, IF found THEN "promoted" ELSE "read") /\ NoRaise

-----------------------------------------------------------------------------
(* BoundedSLRUCache.get                                                    *)

LookProtected(t) ==
  /\ At(t, "get")
  /\ Goto(t, IF Has(protected, Key(t)) THEN "refresh" ELSE "lookCold")
  /\ UNCHANGED <<cache, gpu, pins, pool, raised, calls>>

\* Mutant: a hit in the protected partition does not move the key.
RefreshInPlace(t) ==
  /\ At(t, "refresh")
  /\ IF Has(protected, Key(t))
       THEN Counted(Key(t)) /\ Goto(t, "readWarm") /\ NoRaise
       ELSE Raise(t) /\ UNCHANGED hits
  /\ UNCHANGED <<probationary, protected, gpu, session, pending, calls>>

Refresh(t) ==
  /\ At(t, "refresh")
  /\ IF Has(protected, Key(t))
       THEN /\ protected' = MoveToEnd(protected, Key(t)) /\ Counted(Key(t))
            /\ Goto(t, "readWarm") /\ NoRaise
       ELSE Raise(t) /\ UNCHANGED <<protected, hits>>
  /\ UNCHANGED <<probationary, gpu, session, pending, calls>>

ReadWarm(t) ==
  /\ At(t, "readWarm")
  /\ IF Has(protected, Key(t)) THEN AfterGet(t, TRUE) ELSE Raise(t)
  /\ UNCHANGED <<cache, gpu, session, pending, calls>>

LookProbationary(t) ==
  /\ At(t, "lookCold")
  /\ IF Has(probationary, Key(t)) THEN Goto(t, "pop") /\ NoRaise ELSE AfterGet(t, FALSE)
  /\ UNCHANGED <<cache, gpu, session, pending, calls>>

PopHit(t) ==
  /\ At(t, "pop")
  /\ IF Has(probationary, Key(t))
       THEN /\ probationary' = Without(probationary, Key(t))
            /\ Goto(t, "room") /\ NoRaise
       ELSE Raise(t) /\ UNCHANGED probationary
  /\ UNCHANGED <<protected, hits, gpu, session, pending, calls>>

\* Mutant: one slot too many is taken for room.
CheckRoomLate(t) ==
  /\ At(t, "room")
  /\ Goto(t, IF Len(protected) > ProtectedCapacity THEN "demote" ELSE "promote")
  /\ UNCHANGED <<cache, gpu, pins, pool, raised, calls>>

\* Mutant: the comparison is turned around.
CheckRoomSwapped(t) ==
  /\ At(t, "room")
  /\ Goto(t, IF Len(protected) <= ProtectedCapacity THEN "demote" ELSE "promote")
  /\ UNCHANGED <<cache, gpu, pins, pool, raised, calls>>

CheckRoom(t) ==
  /\ At(t, "room")
  /\ Goto(t, IF Len(protected) >= ProtectedCapacity THEN "demote" ELSE "promote")
  /\ UNCHANGED <<cache, gpu, pins, pool, raised, calls>>

\* popitem raises when the partition is empty.
Demote(t) ==
  /\ At(t, "demote")
  /\ IF protected # <<>>
       THEN /\ protected' = Tail(protected)
            /\ th' = [th EXCEPT ![t].pc = "demoted", ![t].demoted = Head(protected)]
            /\ NoRaise
       ELSE Raise(t) /\ UNCHANGED protected
  /\ UNCHANGED <<probationary, hits, gpu, session, pending, calls>>

PutDemoted(t) ==
  /\ At(t, "demoted")
  /\ probationary' = Insert(probationary, th[t].demoted)
  /\ th' = [th EXCEPT ![t].pc = "promote", ![t].demoted = Main]
  /\ UNCHANGED <<protected, hits, gpu, pins, pool, raised, calls>>

PromoteHit(t) ==
  /\ At(t, "promote")
  /\ protected' = Insert(protected, Key(t)) /\ Counted(Key(t))
  /\ AfterGet(t, TRUE)
  /\ UNCHANGED <<probationary, gpu, session, pending, calls>>

Get(t) ==
  \/ LookProtected(t) \/ Refresh(t) \/ ReadWarm(t) \/ LookProbationary(t)
  \/ PopHit(t) \/ CheckRoom(t) \/ Demote(t) \/ PutDemoted(t) \/ PromoteHit(t)

-----------------------------------------------------------------------------
(* BoundedSLRUCache.put                                                    *)

\* contains looks at one partition and then the other.
LookForWarm(t) ==
  /\ At(t, "put")
  /\ th' = [th EXCEPT ![t].pc = IF Has(protected, Key(t)) THEN "get" ELSE "putCold",
                      ![t].nested = Has(protected, Key(t))]
  /\ UNCHANGED <<cache, gpu, pins, pool, raised, calls>>

\* A key that is there already is refreshed through get, then overwritten.
LookForCold(t) ==
  /\ At(t, "putCold")
  /\ th' = [th EXCEPT ![t].pc = IF Has(probationary, Key(t)) THEN "get" ELSE "full",
                      ![t].nested = Has(probationary, Key(t))]
  /\ UNCHANGED <<cache, gpu, pins, pool, raised, calls>>

\* put returns: to fetch_expert in Main, to the end of the task in a worker.
Return(t) ==
  IF t = Main
    THEN /\ th' = [th EXCEPT ![t].pc = "promoted", ![t].nested = FALSE, ![t].seen = 0]
         /\ UNCHANGED tasks
    ELSE /\ tasks' = [tasks EXCEPT ![th[t].task].st = "done"]
         /\ th' = [th EXCEPT ![t] = Rest]

LookToStore(t) ==
  /\ At(t, "store")
  /\ Goto(t, IF Has(protected, Key(t)) THEN "storeWarm" ELSE "storeCold")
  /\ UNCHANGED <<cache, gpu, pins, pool, raised, calls>>

StoreWarm(t) ==
  /\ At(t, "storeWarm")
  /\ protected' = Insert(protected, Key(t))
  /\ Return(t)
  /\ UNCHANGED <<probationary, hits, gpu, pins, pending, raised, calls>>

StoreCold(t) ==
  /\ At(t, "storeCold")
  /\ probationary' = Insert(probationary, Key(t))
  /\ Return(t)
  /\ UNCHANGED <<protected, hits, gpu, pins, pending, raised, calls>>

\* Mutant: a partition that a race has overfilled evicts nothing any more.
CheckFullExactly(t) ==
  /\ At(t, "full")
  /\ Goto(t, IF Len(probationary) = ProbationaryCapacity THEN "evict" ELSE "insert")
  /\ UNCHANGED <<cache, gpu, pins, pool, raised, calls>>

CheckFull(t) ==
  /\ At(t, "full")
  /\ Goto(t, IF Len(probationary) >= ProbationaryCapacity THEN "evict" ELSE "insert")
  /\ UNCHANGED <<cache, gpu, pins, pool, raised, calls>>

Evict(t) ==
  /\ At(t, "evict")
  /\ IF probationary # <<>>
       THEN probationary' = Tail(probationary) /\ Goto(t, "insert") /\ NoRaise
       ELSE Raise(t) /\ UNCHANGED probationary
  /\ UNCHANGED <<protected, hits, gpu, session, pending, calls>>

InsertCold(t) ==
  /\ At(t, "insert") /\ Goto(t, "assert")
  /\ probationary' = Insert(probationary, Key(t))
  /\ UNCHANGED <<protected, hits, gpu, pins, pool, raised, calls>>

\* total_resident reads one length and then the other.
CountCold(t) ==
  /\ At(t, "assert")
  /\ th' = [th EXCEPT ![t].pc = "sum", ![t].seen = Len(probationary)]
  /\ UNCHANGED <<cache, gpu, pins, pool, raised, calls>>

AssertBound(t) ==
  /\ At(t, "sum")
  /\ IF th[t].seen + Len(protected) <= Capacity
       THEN Return(t) /\ UNCHANGED <<agenda, raised>>
       ELSE Raise(t)
  /\ UNCHANGED <<cache, gpu, session, pending, calls>>

Put(t) ==
  \/ LookForWarm(t) \/ LookForCold(t) \/ LookToStore(t) \/ StoreWarm(t) \/ StoreCold(t)
  \/ CheckFull(t) \/ Evict(t) \/ InsertCold(t) \/ CountCold(t) \/ AssertBound(t)

-----------------------------------------------------------------------------
(* ExpertManager.fetch_expert                                              *)

MainCalls == At(Main, "idle") /\ calls < MaxCalls /\ calls' = calls + 1

\* The count and the test of the hot tier; an expert in VRAM is handed out.
Enter(k, caller) ==
  /\ freq' = [freq EXCEPT ![k] = Min({PromotionThreshold, @ + 1})]
  /\ th' = [th EXCEPT ![Main] = [Rest EXCEPT !.key = k, !.caller = caller,
              !.pc = IF k \notin hot THEN "get" ELSE IF caller = "fetch" THEN "idle" ELSE "promoted"]]

Fetch(k) ==
  /\ MainCalls /\ Enter(k, "fetch")
  /\ UNCHANGED <<cache, hot, pins, pool, raised>>

\* read_expert_record and decode_expert_payload, then put.
Read(t) ==
  /\ At(t, "read") /\ Goto(t, "put")
  /\ UNCHANGED <<cache, gpu, pins, pool, raised, calls>>

\* Promotion into VRAM; for the session adapter, which pins what it fetched
\* whether or not there is room.
Promote ==
  LET k == Key(Main)
      pinning == th[Main].caller = "pinVram"
      promotes == Cuda /\ freq[k] >= PromotionThreshold /\ Cardinality(hot) < VramCapacity
  IN
  /\ At(Main, "promoted")
  /\ hot' = IF promotes \/ pinning THEN hot \union {k} ELSE hot
  /\ IF pinning
       THEN /\ session' = [session EXCEPT !.pinned = @ \union {k}]
            /\ agenda' = [agenda EXCEPT !.next = @ + 1]
            /\ th' = [th EXCEPT ![Main] = [Rest EXCEPT !.pc = "pinVram", !.caller = "pinVram"]]
       ELSE th' = [th EXCEPT ![Main] = Rest] /\ UNCHANGED pins
  /\ UNCHANGED <<cache, freq, pool, raised, calls>>

-----------------------------------------------------------------------------
(* SpeculativePrefetcher                                                   *)

Live(k) == pending[k] # 0 /\ tasks[pending[k]].st \in {"queued", "running"}

\* issue_speculative_prefetch of one expert: it looks for it in VRAM and the
\* two partitions, then among the reads under way.
Predict(k) ==
  /\ MainCalls
  /\ IF k \in hot \/ Has(protected, k) THEN UNCHANGED th
     ELSE th' = [th EXCEPT ![Main] = [Rest EXCEPT !.pc = "issue", !.key = k, !.caller = "issue"]]
  /\ UNCHANGED <<cache, gpu, pins, pool, raised>>

Issue ==
  LET k == Key(Main) IN
  /\ At(Main, "issue")
  /\ IF ~Has(probationary, k) /\ ~Live(k) /\ Len(tasks) < MaxTasks
       THEN /\ tasks' = Append(tasks, [key |-> k, st |-> "queued"])
            /\ pending' = [pending EXCEPT ![k] = Len(tasks) + 1]
       ELSE UNCHANGED pool
  /\ th' = [th EXCEPT ![Main] = Rest]
  /\ UNCHANGED <<cache, gpu, pins, raised, calls>>

\* A worker takes the oldest queued task.
Take(w) ==
  /\ At(w, "idle")
  /\ \E i \in DOMAIN tasks :
       /\ tasks[i].st = "queued" /\ \A j \in 1..(i - 1) : tasks[j].st # "queued"
       /\ tasks' = [tasks EXCEPT ![i].st = "running"]
       /\ th' = [th EXCEPT ![w] = [Rest EXCEPT !.pc = "read", !.key = tasks[i].key,
                                              !.caller = "task", !.task = i]]
  /\ UNCHANGED <<cache, gpu, pins, pending, raised, calls>>

\* await_partial of one expert: its future is forgotten, and waited for only
\* when a timeout was given.
Await(k) ==
  /\ MainCalls /\ pending[k] # 0
  /\ pending' = [pending EXCEPT ![k] = 0]
  /\ IF Live(k) /\ Waits
       THEN th' = [th EXCEPT ![Main] = [Rest EXCEPT !.pc = "await", !.key = k,
                                                   !.caller = "await", !.task = pending[k]]]
       ELSE UNCHANGED th
  /\ UNCHANGED <<cache, gpu, pins, tasks, raised>>

\* Mutant: no timeout.
AwaitedForever ==
  /\ At(Main, "await") /\ tasks[th[Main].task].st \in {"done", "failed"}
  /\ th' = [th EXCEPT ![Main] = Rest]
  /\ UNCHANGED <<cache, gpu, pins, pool, raised, calls>>

\* The result arrives or the timeout passes.
Awaited ==
  /\ At(Main, "await")
  /\ th' = [th EXCEPT ![Main] = Rest]
  /\ UNCHANGED <<cache, gpu, pins, pool, raised, calls>>

-----------------------------------------------------------------------------
(* SessionAdapter                                                          *)

RecordRouting(k) ==
  /\ MainCalls /\ session.freq[k] < MaxCount
  /\ session' = [session EXCEPT !.freq[k] = @ + 1]
  /\ UNCHANGED <<cache, gpu, agenda, pool, th, raised>>

\* most_common: the experts counted, by falling count.
MostCommon ==
  LET f == session.freq IN
  {s \in SetToSeqs({k \in Keys : f[k] > 0}) :
     \A i, j \in DOMAIN s : i < j => f[s[i]] >= f[s[j]]}

\* The token that ends the warm-up pins the session's experts, unless none
\* was counted.
StepToken ==
  /\ MainCalls
  /\ session' = [session EXCEPT !.token = Min({Warmup, @ + 1})]
  /\ IF ~session.frozen /\ session'.token >= Warmup /\ \E k \in Keys : session.freq[k] > 0
       THEN /\ \E order \in MostCommon :
                 agenda' = [order |-> order, next |-> 1,
                            last |-> IF Cuda THEN Min({PinCount, Len(order)}) ELSE 0]
            /\ th' = [th EXCEPT ![Main] = [Rest EXCEPT !.pc = "pinVram", !.caller = "pinVram"]]
       ELSE UNCHANGED <<agenda, th>>
  /\ UNCHANGED <<cache, gpu, pool, raised>>

\* fetch_expert of each of the hottest; then the next hottest, as many as the
\* protected partition holds, are touched in RAM.
PinVram ==
  /\ At(Main, "pinVram") /\ agenda.next <= agenda.last
  /\ Enter(agenda.order[agenda.next], "pinVram")
  /\ UNCHANGED <<cache, hot, pins, pool, raised, calls>>

\* Mutant: the first expert behind the pinned ones is skipped.
PinVramDoneLate ==
  LET n == Cardinality(session.pinned) IN
  /\ At(Main, "pinVram") /\ agenda.next > agenda.last
  /\ agenda' = [agenda EXCEPT !.next = n + 2,
                              !.last = Min({Len(agenda.order), n + ProtectedCapacity})]
  /\ th' = [th EXCEPT ![Main] = [Rest EXCEPT !.pc = "pinRam", !.caller = "pinRam"]]
  /\ UNCHANGED <<cache, gpu, session, pool, raised, calls>>

PinVramDone ==
  LET n == Cardinality(session.pinned) IN
  /\ At(Main, "pinVram") /\ agenda.next > agenda.last
  /\ agenda' = [agenda EXCEPT !.next = n + 1,
                              !.last = Min({Len(agenda.order), n + ProtectedCapacity})]
  /\ th' = [th EXCEPT ![Main] = [Rest EXCEPT !.pc = "pinRam", !.caller = "pinRam"]]
  /\ UNCHANGED <<cache, gpu, session, pool, raised, calls>>

PinRam ==
  /\ At(Main, "pinRam") /\ agenda.next <= agenda.last
  /\ th' = [th EXCEPT ![Main].pc = "get", ![Main].key = agenda.order[agenda.next]]
  /\ UNCHANGED <<cache, gpu, pins, pool, raised, calls>>

PinRamDone ==
  /\ At(Main, "pinRam") /\ agenda.next > agenda.last
  /\ session' = [session EXCEPT !.frozen = TRUE]
  /\ agenda' = NoAgenda
  /\ th' = [th EXCEPT ![Main] = Rest]
  /\ UNCHANGED <<cache, gpu, pool, raised, calls>>

\* reset_session: what was pinned stays in VRAM.
ResetSession ==
  /\ MainCalls
  /\ session' = FreshSession
  /\ UNCHANGED <<cache, gpu, agenda, pool, th, raised>>

-----------------------------------------------------------------------------
Finished ==
  /\ calls = MaxCalls /\ \A t \in Threads : At(t, "idle")
  /\ \A i \in DOMAIN tasks : tasks[i].st # "queued"
  /\ UNCHANGED vars

\* What goes on inside a call Main has made.
MainWork ==
  \/ Get(Main) \/ Put(Main) \/ Read(Main) \/ Promote \/ Issue \/ Awaited
  \/ PinVram \/ PinVramDone \/ PinRam \/ PinRamDone

Worker(w) == Take(w) \/ Read(w) \/ Put(w) \/ Get(w)

Next ==
  \/ \E k \in Keys : Fetch(k) \/ Predict(k) \/ Await(k) \/ RecordRouting(k)
  \/ StepToken \/ ResetSession \/ MainWork
  \/ \E w \in Workers : Worker(w)
  \/ Finished

Spec == Init /\ [][Next]_vars

\* Main is scheduled; nothing is asked of the pool.
FairSpec == Spec /\ WF_vars(MainWork)

-----------------------------------------------------------------------------
(* Properties.                                                             *)

PCs == {"idle", "get", "refresh", "readWarm", "lookCold", "pop", "room", "demote",
        "demoted", "promote", "put", "putCold", "store", "storeWarm", "storeCold", "full",
        "evict", "insert", "assert", "sum", "read", "promoted", "issue", "await",
        "pinVram", "pinRam"}

\* Every variable stays in its type; the partitions repeat no key.
TypeOK ==
  /\ probationary \in Seq(Keys) /\ IsInjective(probationary)
  /\ protected \in Seq(Keys) /\ IsInjective(protected)
  /\ hits \in Seq(Keys) /\ IsInjective(hits)
  /\ hot \subseteq Keys /\ freq \in [Keys -> 0..PromotionThreshold]
  /\ session \in [token : 0..Warmup, freq : [Keys -> 0..MaxCount],
                  pinned : SUBSET Keys, frozen : BOOLEAN]
  /\ agenda.order \in Seq(Keys) /\ agenda.next \in Nat /\ agenda.last \in 0..Len(agenda.order)
  /\ tasks \in Seq([key : Keys, st : {"queued", "running", "done", "failed"}])
  /\ pending \in [Keys -> 0..Len(tasks)]
  /\ \A t \in Threads : th[t].pc \in PCs /\ th[t].key \in Keys \union {Main}
  /\ raised \in BOOLEAN /\ calls \in 0..MaxCalls

\* Slot counts are fixed: neither partition ever outgrows its share.
ResidencyBounded ==
  /\ Len(probationary) <= ProbationaryCapacity
  /\ Len(protected) <= ProtectedCapacity

\* An expert is in one partition only.
OnePartition == ToSet(probationary) \intersect ToSet(protected) = {}

\* Cold experts cannot push out warm ones: as many of the experts hit last as
\* the protected partition has slots are in it, however many were fetched once
\* in between.
WarmStays ==
  At(Main, "idle") =>
    \A i \in DOMAIN hits : i > Len(hits) - ProtectedCapacity => Has(protected, hits[i])

\* Pinning leaves none of the session's hottest experts on probation, where
\* the next cold expert would evict it.
PinnedAreProtected ==
  [][~session.frozen /\ session'.frozen =>
       \A i \in 1..agenda.last : agenda.order[i] \in hot \/ ~Has(probationary, agenda.order[i])]_vars

\* fetch_expert hands out an expert that is in the bank: no bookkeeping of the
\* cache makes it fail, in whatever order experts are fetched, touched and
\* demoted (the pops and moves of cache.py raise on a missing key).
FetchSucceeds == ~raised

\* Each prefetch task costs the probationary partition at most three slots more
\* than it has and the protected one two, whatever the races of the pool with
\* Main.  (One task may put back the expert it demoted, store its own again
\* after Main has demoted it, and take from Main the expert it is refreshing.)
OvershootBounded ==
  LET taken == Cardinality({i \in DOMAIN tasks : tasks[i].st # "queued"}) IN
  /\ Len(probationary) <= ProbationaryCapacity + 3 * taken
  /\ Len(protected) <= ProtectedCapacity + 2 * taken

\* A token never waits for the pool: Main gets out of every call although no
\* worker may ever take a step.
MainNeverWaits == ~At(Main, "idle") ~> At(Main, "idle")

\* The two partitions of a cache without prefetching: each within its slots, and
\* no expert in both (BoundedSLRUCache.get, put).
PartitionsSound == ResidencyBounded /\ OnePartition

\* The cache that pool threads race on: types, and a bounded overshoot.
PrefetchSound == TypeOK /\ OvershootBounded
==============================================================================
