--------------------------- MODULE CacheSimulation ---------------------------
(***************************************************************************)
(* The replay of a routing trace through simulated expert caches           *)
(* (sim/cache.py, sim/report.py) and the gate that decides from it whether *)
(* a cache of one's own is worth building (sim/oracle_gate.py).  A sweep   *)
(* replays the trace once for every capacity and policy, the Oracle, who   *)
(* knows the future, among them.                                           *)
(*                                                                         *)
(* A key stands for a pair of layer and expert.  Latencies, bandwidth and  *)
(* the statistics of the trace are left out.                               *)
(***************************************************************************)
EXTENDS Integers, Sequences, SequencesExt, FiniteSets

CONSTANTS Keys,         \* pairs of layer and expert
          Traces,       \* sequences of accesses, which name a token and a key
          Sweeps,       \* sequences of capacities, in slots
          SampleWindow  \* TinyLFU halves its frequencies after so many accesses

ASSUME SimulationAssumption ==
  /\ SampleWindow \in Nat \ {0}
  /\ \A t \in Traces : t \in Seq([token : Int, key : Keys])
  /\ \A s \in Sweeps : s \in Seq(Int) /\ s # <<>>

VARIABLES simPhase,   \* "idle" (not called), "replay", "over"
          trace,
          todo,       \* the replays left, <<policy, slots>>; the head is running
          cache,      \* keys held, least recent first; SLRU: the probationary ones
          protected,  \* SLRU: the protected keys, least recent first
          freqs,      \* TinyLFU: frequency of each key
          count,      \* TinyLFU: accesses since the last halving
          future,     \* Oracle: the accesses of each key it expects, in order
          step,       \* accesses replayed
          hits, misses, evictions,
          metrics,    \* the results of finished replays
          verdict     \* of the gate: [decision, winner]

simVars == <<simPhase, trace, todo, cache, protected, freqs, count, future, step,
             hits, misses, evictions, metrics, verdict>>
replayVars == <<simPhase, trace, todo, metrics, verdict>>

Policies == <<"Oracle", "OSPageCache", "SLRU", "TinyLFU", "LRU">>
NoVerdict == [decision |-> "none", winner |-> "none"]

\* run_capacity_sweep: every policy for every capacity.
Replays(capacities) ==
  FlattenSeq([c \in DOMAIN capacities |->
               [p \in DOMAIN Policies |-> <<Policies[p], capacities[c]>>]])

\* run_simulation groups the events by token and replays the groups in order
\* of their tokens; within a group the events keep their order.
Replayed(t) ==
  LET before(i, j) == t[i].token < t[j].token \/ (t[i].token = t[j].token /\ i < j)
      place(i) == 1 + Cardinality({j \in DOMAIN t : before(j, i)})
  IN  [n \in DOMAIN t |-> t[CHOOSE i \in DOMAIN t : place(i) = n].key]

\* The Oracle indexes the trace as it was given, not as it is replayed.
Future(t) ==
  [k \in Keys |-> SelectSeq([i \in DOMAIN t |-> i], LAMBDA i : t[i].key = k)]

\* A new policy object: empty, and its counters zero.
Fresh(t) ==
  /\ cache = <<>> /\ protected = <<>>
  /\ freqs = [k \in Keys |-> 0] /\ count = 0
  /\ future = Future(t)
  /\ step = 0 /\ hits = 0 /\ misses = 0 /\ evictions = 0

Renewed ==
  /\ cache' = <<>> /\ protected' = <<>>
  /\ freqs' = [k \in Keys |-> 0] /\ count' = 0
  /\ future' = Future(trace)
  /\ step' = 0 /\ hits' = 0 /\ misses' = 0 /\ evictions' = 0

SimInit ==
  /\ simPhase = "replay"
  /\ trace \in Traces
  /\ \E capacities \in Sweeps : todo = Replays(capacities)
  /\ Fresh(trace)
  /\ metrics = <<>> /\ verdict = NoVerdict

SimIdle ==
  /\ simPhase = "idle"
  /\ trace = <<>> /\ todo = <<>>
  /\ Fresh(<<>>)
  /\ metrics = <<>> /\ verdict = NoVerdict

-----------------------------------------------------------------------------
Policy == Head(todo)[1]
AtLeastOne(n) == IF n < 1 THEN 1 ELSE n
Slots == AtLeastOne(Head(todo)[2])
Replaying(policies) ==
  simPhase = "replay" /\ todo # <<>> /\ step < Len(trace) /\ Policy \in policies
Accessed == Replayed(trace)[step + 1]

\* A key is held once; without it the others keep their order.
Without(s, k) == RemoveAt(s, CHOOSE i \in DOMAIN s : s[i] = k)
Refreshed(s, k) == Append(Without(s, k), k)

Hit == hits' = hits + 1 /\ UNCHANGED <<misses, evictions>>
MissWith(evicted) ==
  /\ misses' = misses + 1
  /\ evictions' = evictions + evicted
  /\ UNCHANGED hits

\* LRUCache.access; OSPageCache inherits it.
AccessLRU ==
  /\ Replaying({"LRU", "OSPageCache"})
  /\ \/ /\ Contains(cache, Accessed)
        /\ cache' = Refreshed(cache, Accessed)
        /\ Hit
     \/ /\ ~Contains(cache, Accessed) /\ Len(cache) < Slots
        /\ cache' = Append(cache, Accessed)
        /\ MissWith(0)
     \/ /\ ~Contains(cache, Accessed) /\ Len(cache) >= Slots
        /\ cache' = Append(Tail(cache), Accessed)
        /\ MissWith(1)
  /\ step' = step + 1
  /\ UNCHANGED <<replayVars, protected, freqs, count, future>>

\* SLRU: four fifths of the slots are protected, and each tier has at least one.
ProtectedSlots == AtLeastOne((4 * Head(todo)[2]) \div 5)
ProbationarySlots == AtLeastOne(Head(todo)[2] - ProtectedSlots)

\* A key in the protected tier becomes its most recent one.
SLRUProtectedHit ==
  /\ Contains(protected, Accessed)
  /\ protected' = Refreshed(protected, Accessed)
  /\ Hit
  /\ UNCHANGED cache

\* Mutant: the demoted key is dropped.
PromoteDrops ==
  /\ ~Contains(protected, Accessed) /\ Contains(cache, Accessed)
  /\ cache' = Without(cache, Accessed)
  /\ protected' = Append(IF Len(protected) >= ProtectedSlots THEN Tail(protected) ELSE protected,
                         Accessed)
  /\ Hit

\* A probationary key hit again is promoted; a full protected tier demotes its
\* least recent key, which may push a probationary one out.
SLRUPromote ==
  /\ ~Contains(protected, Accessed) /\ Contains(cache, Accessed)
  /\ LET rest == Without(cache, Accessed)
         full == Len(protected) >= ProtectedSlots
         crowded == full /\ Len(rest) >= ProbationarySlots
     IN  /\ cache' = (IF crowded THEN Tail(rest) ELSE rest)
                       \o (IF full THEN <<Head(protected)>> ELSE <<>>)
         /\ protected' = Append(IF full THEN Tail(protected) ELSE protected, Accessed)
         /\ hits' = hits + 1
         /\ evictions' = evictions + IF crowded THEN 1 ELSE 0
         /\ UNCHANGED misses

SLRUMiss ==
  /\ ~Contains(protected, Accessed) /\ ~Contains(cache, Accessed)
  /\ LET full == Len(cache) >= ProbationarySlots
     IN  /\ cache' = Append(IF full THEN Tail(cache) ELSE cache, Accessed)
         /\ MissWith(IF full THEN 1 ELSE 0)
  /\ UNCHANGED protected

AccessSLRU ==
  /\ Replaying({"SLRU"})
  /\ SLRUProtectedHit \/ SLRUPromote \/ SLRUMiss
  /\ step' = step + 1
  /\ UNCHANGED <<replayVars, freqs, count, future>>

-----------------------------------------------------------------------------
\* _record_freq: count the access; at the end of a window all are halved.
Recorded ==
  LET counted == [freqs EXCEPT ![Accessed] = @ + 1]
  IN  IF count + 1 >= SampleWindow THEN [k \in Keys |-> counted[k] \div 2] ELSE counted

\* TinyLFUCache.access: a full cache admits a key at least as frequent as its
\* victim; a rejected key is counted as an eviction as well.
AccessTinyLFU ==
  /\ Replaying({"TinyLFU"})
  /\ freqs' = Recorded
  /\ count' = (count + 1) % SampleWindow
  /\ \/ /\ Contains(cache, Accessed)
        /\ cache' = Refreshed(cache, Accessed)
        /\ Hit
     \/ /\ ~Contains(cache, Accessed) /\ Len(cache) < Slots
        /\ cache' = Append(cache, Accessed)
        /\ MissWith(0)
     \/ /\ ~Contains(cache, Accessed) /\ Len(cache) >= Slots
        /\ cache' = IF Recorded[Accessed] >= Recorded[Head(cache)]
                      THEN Append(Tail(cache), Accessed) ELSE cache
        /\ MissWith(1)
  /\ step' = step + 1
  /\ UNCHANGED <<replayVars, protected, future>>

\* The Oracle drops the current access from the future, if it expected it now.
Seen ==
  IF future[Accessed] # <<>> /\ Head(future[Accessed]) = step + 1
    THEN [future EXCEPT ![Accessed] = Tail(@)] ELSE future

\* Mutant: the key needed soonest is evicted.
NearestVictims ==
  {k \in ToSet(cache) :
     \A other \in ToSet(cache) : Seen[other] # <<>> =>
        Seen[k] # <<>> /\ Head(Seen[k]) <= Head(Seen[other])}

\* The keys the Oracle may evict: any that is not needed again, the first one
\* its set yields; else the one needed latest.
Victims ==
  LET unneeded == {k \in ToSet(cache) : Seen[k] = <<>>}
  IN  IF unneeded # {} THEN unneeded
      ELSE {k \in ToSet(cache) : \A other \in ToSet(cache) : Head(Seen[k]) >= Head(Seen[other])}

AccessOracle ==
  /\ Replaying({"Oracle"})
  /\ future' = Seen
  /\ \/ Contains(cache, Accessed) /\ Hit /\ UNCHANGED cache
     \/ /\ ~Contains(cache, Accessed) /\ Len(cache) < Slots
        /\ cache' = Append(cache, Accessed)
        /\ MissWith(0)
     \/ /\ ~Contains(cache, Accessed) /\ Len(cache) >= Slots
        /\ \E victim \in Victims : cache' = Append(Without(cache, victim), Accessed)
        /\ MissWith(1)
  /\ step' = step + 1
  /\ UNCHANGED <<replayVars, protected, freqs, count>>

-----------------------------------------------------------------------------
\* The replay of one policy is over: its metrics are kept, the next one begins.
EndReplay ==
  /\ simPhase = "replay" /\ todo # <<>> /\ step = Len(trace)
  /\ metrics' = Append(metrics, [policy |-> Policy, slots |-> Head(todo)[2], hits |-> hits,
                                 misses |-> misses, evictions |-> evictions,
                                 held |-> Len(cache) + Len(protected)])
  /\ todo' = Tail(todo)
  /\ Renewed
  /\ UNCHANGED <<simPhase, trace, verdict>>

Of(policy) == CHOOSE m \in ToSet(metrics) : m.policy = policy

\* Is the hit rate of m at least so many percent?
Reaches(m, percent) == m.hits > 0 /\ 100 * m.hits >= percent * (m.hits + m.misses)

\* The first of the custom policies with the highest hit rate.
Winner ==
  LET best(p) == \A q \in {"SLRU", "TinyLFU", "LRU"} : Of(p).hits >= Of(q).hits
  IN  IF best("SLRU") THEN "SLRU" ELSE IF best("TinyLFU") THEN "TinyLFU" ELSE "LRU"

Decision ==
  IF Reaches(Of("Oracle"), 50) THEN "PROCEED_Q4E"
  ELSE IF Reaches(Of("Oracle"), 35) THEN "PROCEED_Q2E" ELSE "KILL_CUSTOM_CACHE"

\* evaluate_oracle_gate runs a sweep of one capacity and decides.
Decide ==
  /\ simPhase = "replay" /\ todo = <<>>
  /\ Len(metrics) = Len(Policies)
  /\ simPhase' = "over"
  /\ verdict' = [decision |-> Decision, winner |-> Winner]
  /\ UNCHANGED <<trace, todo, cache, protected, freqs, count, future, step,
                 hits, misses, evictions, metrics>>

\* run_capacity_sweep returns its metrics.
Report ==
  /\ simPhase = "replay" /\ todo = <<>>
  /\ simPhase' = "over"
  /\ UNCHANGED <<trace, todo, cache, protected, freqs, count, future, step,
                 hits, misses, evictions, metrics, verdict>>

SimNext ==
  \/ AccessLRU \/ AccessSLRU \/ AccessTinyLFU \/ AccessOracle
  \/ EndReplay \/ Decide \/ Report

SimSpec == SimInit /\ [][SimNext]_simVars

-----------------------------------------------------------------------------
Held == ToSet(cache) \cup ToSet(protected)

\* Types; no key is held twice, and the tiers keep to their slots.
SimTypeOK ==
  /\ simPhase \in {"idle", "replay", "over"}
  /\ step \in 0 .. Len(trace) /\ hits + misses = step
  /\ IsInjective(cache \o protected) /\ Held \subseteq Keys
  /\ todo # <<>> => /\ Len(cache) <= (IF Policy = "SLRU" THEN ProbationarySlots ELSE Slots)
                    /\ Len(protected) <= (IF Policy = "SLRU" THEN ProtectedSlots ELSE 0)
  /\ freqs \in [Keys -> 0 .. 2 * SampleWindow] /\ count \in 0 .. SampleWindow - 1

InTokenOrder == \A i, j \in DOMAIN trace : i < j => trace[i].token <= trace[j].token

\* No policy that keeps every key it misses has more hits than the Oracle, if
\* the trace is in token order and the policy has no more slots than it
\* (OracleCache: the upper bound).
OracleIsOptimal ==
  \A o, m \in ToSet(metrics) :
    (/\ InTokenOrder
     /\ o.policy = "Oracle" /\ m.policy \in {"LRU", "OSPageCache", "SLRU"}
     /\ o.slots = m.slots
     /\ m.policy = "SLRU" => m.slots >= 2)
    => m.hits <= o.hits

\* Every miss brings a key in, or turns one away; what came in and is not held
\* any more was counted as evicted: the metrics add up for every policy.
EvictionsAccount ==
  /\ misses = evictions + Cardinality(Held)
  /\ \A m \in ToSet(metrics) : m.misses = m.evictions + m.held

\* The gate kills a cache of one's own only if no policy that keeps what it
\* misses reaches the lower threshold (the rationale of evaluate_oracle_gate).
GateIsJustified ==
  (verdict.decision = "KILL_CUSTOM_CACHE" /\ InTokenOrder) =>
    \A m \in ToSet(metrics) :
       m.policy = "TinyLFU" \/ (m.policy = "SLRU" /\ m.slots < 2) \/ ~Reaches(m, 35)

\* Types, and the sums of the counters.
MetricsAccount == SimTypeOK /\ EvictionsAccount

\* The Oracle bounds the policies, and with it the decision taken on them.
OracleBounds == OracleIsOptimal /\ GateIsJustified
=============================================================================
