--------------------------- MODULE OfflineProofs ---------------------------
(***************************************************************************)
(* Proofs about the tools that work on a checkpoint offline.               *)
(*                                                                         *)
(* The quantization pipeline, for every list of tensors, staging limit and *)
(* number of faults: the shards and the index agree, a job without faults  *)
(* is whole, what the manifest calls completed stays so, and a finished    *)
(* job can be run again without effect.                                    *)
(*                                                                         *)
(* The scan of the shard headers, for every set of files, index and number *)
(* of threads: a scan that reports nothing has told the truth.             *)
(*                                                                         *)
(* The tiler, for every tensor, group, cap and workspace: the tiles of a   *)
(* tensor give what the whole would give, and each fits the memory cap.    *)
(*                                                                         *)
(* The simulated caches, for every trace and sweep of capacities: hits,    *)
(* misses and evictions add up to the trace and to what a cache holds.     *)
(***************************************************************************)
EXTENDS LayerPipeline, CheckpointScan, MatrixTiler, CacheSimulation, DataTheorems

-----------------------------------------------------------------------------
(* The invariant, in parts.                                                *)

\* The tensors a manifest calls completed.
Completed(m) == {t \in Tensors : m.status[t] = "completed"}

\* The manifest on the disk counts each completed tensor, and at most one more
\* for each fault; the process's copy is the one on the disk.
ManifestInv ==
  /\ disk \in Manifest \cup {Absent} /\ faults \in 0..MaxFaults
  /\ disk # Absent =>
       /\ Cardinality(Completed(disk)) <= disk.completed
       /\ disk.completed <= Cardinality(Completed(disk)) + faults
  /\ mem = (IF Running THEN disk ELSE Absent)
  /\ Running => disk # Absent

\* The loop has left only completed tensors behind; finalize starts when all are.
ProcessInv ==
  /\ pc \in {"off", "loop", "add", "mark", "rename", "done", "failed"}
  /\ pos \in 1 .. Len(Order) + 1
  /\ ~Running => pos = 1 /\ buffer = {} /\ written = 0 /\ weightMap = Empty
  /\ pc \in {"loop", "add", "mark"} => \A j \in 1..(pos - 1) : Order[j] \in Completed(mem)
  /\ pc \in {"add", "mark"} => pos <= Len(Order) /\ ~Finished(Current)
  /\ pc = "rename" => buffer = {} /\ pos <= written + 1 /\ Completed(mem) = Tensors

\* The shards with their first name, and those renamed.
Unnamed == IF pc = "rename" THEN pos..written ELSE 1..written
Renamed == IF pc = "rename" THEN 1..(pos - 1) ELSE {}

\* Every shard of the process is where the weight map says; it writes no more
\* shards than it has staged tensors.
ShardInv ==
  /\ files \in [DOMAIN files -> SUBSET Tensors] /\ DOMAIN files \subseteq Names
  /\ buffer \subseteq Tensors /\ written \in 0..Len(Order)
  /\ weightMap \in [DOMAIN weightMap -> Names] /\ DOMAIN weightMap \subseteq Tensors
  /\ \A k \in Unnamed : <<k, 0>> \in DOMAIN files
  /\ \A t \in DOMAIN weightMap :
       \/ \E k \in Unnamed : weightMap[t] = <<k, 0>>
       \/ \E k \in Renamed : weightMap[t] = FinalName(k)
  /\ FlushedIsKept
  /\ pc \in {"loop", "add", "mark"} =>
       written + (IF buffer = {} THEN 0 ELSE 1) <= pos - 1 + (IF pc = "mark" THEN 1 ELSE 0)

\* A set of tensors within the limit, or a single tensor.
Small(S) == TotalBytes(S) > MaxShardBytes => Cardinality(S) = 1

SizeInv == Small(buffer) /\ \A n \in DOMAIN files : Small(files[n])

\* There is an index only of completed jobs, which no later process disturbs.
IndexInv ==
  /\ index \in {Absent, Torn} \/ (index \in [DOMAIN index -> Names] /\ DOMAIN index \subseteq Tensors)
  /\ index # Absent =>
       /\ disk # Absent /\ Completed(disk) = Tensors
       /\ pc \in {"off", "loop", "done", "failed"} /\ buffer = {} /\ weightMap = Empty
  /\ IndexIsTrue
  /\ pc = "done" => IndexIsMap

\* Without a fault, what is completed is staged or flushed, and an index is whole.
FreshInv ==
  faults = 0 =>
    /\ index = Absent /\ ~Running => disk = Absent
    /\ index = Absent /\ Running =>
         DOMAIN weightMap \cup buffer
           = Completed(mem) \cup (IF pc = "mark" THEN {Current} ELSE {})
    /\ index # Absent => IndexIsMap /\ DOMAIN index = Tensors

Inv == ManifestInv /\ ProcessInv /\ ShardInv /\ SizeInv /\ IndexInv /\ FreshInv

-----------------------------------------------------------------------------
\* The tensors are the entries of the table, each once.
LEMMA OrderFacts ==
  /\ Len(Order) \in Nat /\ DOMAIN Order = 1..Len(Order)
  /\ \A i \in 1..Len(Order) : Order[i] \in Tensors
  /\ \A t \in Tensors : \E i \in 1..Len(Order) : Order[i] = t
  /\ IsFiniteSet(Tensors) /\ Cardinality(Tensors) = Len(Order)
<1>1. Len(Order) \in Nat /\ DOMAIN Order = 1..Len(Order) BY PipelineAssumption
<1>2. Tensors = {Order[i] : i \in 1..Len(Order)} BY <1>1 DEF Tensors, Range
<1>3. \A i \in 1..Len(Order) : Order[i] \in Tensors BY <1>2
<1>4. \A t \in Tensors : \E i \in 1..Len(Order) : Order[i] = t BY <1>2
<1>5. Order \in [1..Len(Order) -> Tensors] BY <1>1, PipelineAssumption
<1>6. Order \in Bijection(1..Len(Order), Tensors)
  <2>1. \A i, j \in 1..Len(Order) : Order[i] = Order[j] => i = j BY <1>1, PipelineAssumption
  <2>2. IsInjective(Order) BY <1>1, <2>1 DEF IsInjective
  <2> QED BY <1>4, <1>5, <2>2 DEF Bijection, Injection, Surjection
<1>7. IsFiniteSet(1..Len(Order)) /\ Cardinality(1..Len(Order)) = Len(Order)
  <2>1. IsFiniteSet(1..Len(Order))
        /\ Cardinality(1..Len(Order)) = IF 1 > Len(Order) THEN 0 ELSE Len(Order) - 1 + 1
    BY <1>1, FS_Interval
  <2> QED BY <1>1, <2>1
<1>8. ExistsBijection(1..Len(Order), Tensors) BY <1>6 DEF ExistsBijection
<1>9. IsFiniteSet(Tensors) /\ Cardinality(Tensors) = Len(Order)
  BY <1>7, <1>8, FS_Bijection
<1> QED BY <1>1, <1>3, <1>4, <1>9

\* Sets of tensors are finite; a full one is all tensors.
LEMMA CountFacts ==
  ASSUME NEW S \in SUBSET Tensors
  PROVE  /\ IsFiniteSet(S) /\ Cardinality(S) \in 0..Len(Order)
         /\ S = Tensors => Cardinality(S) = Len(Order)
         /\ S # Tensors => Cardinality(S) < Len(Order)
         /\ \A t \in Tensors \ S : Cardinality(S \cup {t}) = Cardinality(S) + 1
<1>1. IsFiniteSet(S) /\ Cardinality(S) <= Cardinality(Tensors)
      /\ (Cardinality(Tensors) = Cardinality(S) => Tensors = S)
  BY OrderFacts, FS_Subset
<1>2. Cardinality(S) \in Nat BY <1>1, FS_CardinalityType
<1>3. \A t \in Tensors \ S : Cardinality(S \cup {t}) = Cardinality(S) + 1
  BY <1>1, FS_AddElement
<1> QED BY <1>1, <1>2, <1>3, OrderFacts

\* The bytes of a set of tensors are a sum.
LEMMA TotalIsSum == ASSUME NEW S PROVE TotalBytes(S) = Sum(Bytes, S)
BY DEF TotalBytes, Sum, SumFunctionOnSet, FoldFunctionOnSet, MapThenSumSet

\* What is completed are tensors.
LEMMA CompletedIsTensors == ASSUME NEW m PROVE Completed(m) \in SUBSET Tensors
BY DEF Completed

\* An initial manifest.
LEMMA InitialFacts == InitialManifest \in Manifest /\ Completed(InitialManifest) = {}
                      /\ InitialManifest.completed = 0
BY OrderFacts, PipelineAssumption DEF InitialManifest, Manifest, Completed

\* Marking counts one tensor more.
LEMMA MarkedFacts ==
  ASSUME NEW m \in Manifest, NEW t \in Tensors \ Completed(m),
         m.completed < Len(Order) + MaxFaults
  PROVE  /\ Marked(m, t) \in Manifest
         /\ Completed(Marked(m, t)) = Completed(m) \cup {t}
         /\ Marked(m, t).completed = m.completed + 1
<1> DEFINE n == Marked(m, t)
<1>1. n.status = [m.status EXCEPT ![t] = "completed"] /\ n.completed = m.completed + 1
  BY DEF Marked
<1>2. m.status \in [Tensors -> {"pending", "completed", "failed"}]
      /\ m.completed \in 0 .. Len(Order) + MaxFaults
  BY DEF Manifest
<1>3. n.status \in [Tensors -> {"pending", "completed", "failed"}]
      /\ n.status[t] = "completed" /\ \A u \in Tensors \ {t} : n.status[u] = m.status[u]
  BY <1>1, <1>2
<1>4. n.completed \in 0 .. Len(Order) + MaxFaults
  BY <1>1, <1>2, OrderFacts, PipelineAssumption
<1>5. n = [status |-> n.status, completed |-> n.completed] BY DEF Marked
<1> HIDE DEF n
<1>6. n \in Manifest BY <1>3, <1>4, <1>5 DEF Manifest
<1>7. Completed(n) = Completed(m) \cup {t} BY <1>3 DEF Completed
<1> QED BY <1>1, <1>6, <1>7 DEF n

\* Recording a failure takes back the tensor of the loop alone.
LEMMA FailureFacts ==
  ASSUME NEW m \in Manifest, Current \in Tensors
  PROVE  /\ FailureRecord(m) \in Manifest
         /\ Completed(FailureRecord(m)) = Completed(m) \ {Current}
         /\ FailureRecord(m).completed = m.completed
<1> DEFINE n == FailureRecord(m)
<1>2. m.status \in [Tensors -> {"pending", "completed", "failed"}]
      /\ m.completed \in 0 .. Len(Order) + MaxFaults
  BY DEF Manifest
<1>1. n.status = [m.status EXCEPT ![Current] = "failed"] /\ n.completed = m.completed
  BY DEF FailureRecord, Manifest
<1>3. n.status \in [Tensors -> {"pending", "completed", "failed"}]
      /\ n.status[Current] = "failed" /\ \A u \in Tensors \ {Current} : n.status[u] = m.status[u]
  BY <1>1, <1>2
<1>5. n = [status |-> n.status, completed |-> n.completed] BY <1>1 DEF FailureRecord, Manifest
<1> HIDE DEF n
<1>6. n \in Manifest BY <1>1, <1>2, <1>3, <1>5 DEF Manifest
<1>7. Completed(n) = Completed(m) \ {Current} BY <1>3 DEF Completed
<1> QED BY <1>1, <1>6, <1>7 DEF n

-----------------------------------------------------------------------------
(* The first state, and the manifest and the process.                      *)

\* Before the first process there is nothing.
LEMMA InvInit == Init => Inv
<1> SUFFICES ASSUME Init PROVE Inv OBVIOUS
<1> USE DEF Init
<1>1. ~Running BY DEF Running
<1>2. MaxFaults \in Nat /\ MaxShardBytes \in Nat /\ Len(Order) \in Nat BY OrderFacts, PipelineAssumption
<1>3. ManifestInv BY <1>1, <1>2 DEF ManifestInv
<1>4. ProcessInv BY <1>1, <1>2 DEF ProcessInv
<1>5. DOMAIN Empty = {} /\ Empty \in [{} -> Names] /\ Empty \in [{} -> SUBSET Tensors] BY DEF Empty
<1>6. ShardInv
  <2>1. Unnamed = {} BY DEF Unnamed
  <2> QED BY <1>1, <1>2, <1>5, <2>1 DEF ShardInv, FlushedIsKept
<1>7. SizeInv
  <2>1. TotalBytes({}) = 0 BY TotalIsSum, SumRow, FS_EmptySet
  <2> QED BY <1>2, <1>5, <2>1 DEF SizeInv, Small
<1>8. IndexInv BY DEF IndexInv, IndexIsTrue, IndexIsMap
<1>9. FreshInv BY <1>1 DEF FreshInv
<1> QED BY <1>3, <1>4, <1>6, <1>7, <1>8, <1>9 DEF Inv

\* The tensor of the loop.
LEMMA CurrentFacts ==
  ASSUME ProcessInv, pos <= Len(Order)
  PROVE  Current \in Tensors /\ (Finished(Current) <=> Current \in Completed(mem))
BY OrderFacts DEF ProcessInv, Current, Finished, Completed

\* What is left by a process that ended.
LEMMA EndFacts ==
  ASSUME NEW how \in {"off", "done", "failed"}, Ends(how)
  PROVE  ~Running' /\ ProcessInv'
BY OrderFacts DEF Ends, Running, ProcessInv

\* The disk after an exception.
LEMMA FailedDisk ==
  ASSUME ManifestInv, ProcessInv, TensorFails \/ SaveFails
  PROVE  /\ disk \in Manifest /\ disk' \in Manifest
         /\ Completed(disk') = Completed(disk)
         /\ disk'.completed \in {disk.completed, disk.completed + 1}
<1>1. Running /\ mem = disk /\ disk \in Manifest /\ pos <= Len(Order)
  BY DEF TensorFails, SaveFails, Running, ManifestInv, ProcessInv
<1>2. ~Finished(Current) BY DEF TensorFails, SaveFails, ProcessInv
<1>3. Current \in Tensors \ Completed(disk) BY <1>1, <1>2, CurrentFacts
<1>4. CASE disk' = disk BY <1>1, <1>4
<1>5. CASE disk' = FailureRecord(mem)
  <2>1. /\ FailureRecord(disk) \in Manifest
        /\ Completed(FailureRecord(disk)) = Completed(disk) \ {Current}
        /\ FailureRecord(disk).completed = disk.completed
    BY <1>1, <1>3, FailureFacts
  <2> QED BY <1>1, <1>3, <1>5, <2>1
<1>6. CASE disk' = FailureRecord(Marked(mem, Current)) /\ faults < MaxFaults
  <2> DEFINE m == Marked(disk, Current)
  <2>1. Completed(disk) \in SUBSET Tensors /\ Completed(disk) # Tensors
    BY <1>3, CompletedIsTensors
  <2>2. disk.completed < Len(Order) + MaxFaults
    <3>1. Cardinality(Completed(disk)) \in Nat /\ Cardinality(Completed(disk)) < Len(Order)
      BY <2>1, CountFacts
    <3>2. disk.completed <= Cardinality(Completed(disk)) + faults /\ disk # Absent
          /\ faults \in Nat /\ disk.completed \in Nat
      BY <1>1, PipelineAssumption DEF ManifestInv, Manifest
    <3> QED BY <1>6, <3>1, <3>2, OrderFacts, PipelineAssumption
  <2>3. /\ m \in Manifest /\ Completed(m) = Completed(disk) \cup {Current}
        /\ m.completed = disk.completed + 1
    BY <1>1, <1>3, <2>2, MarkedFacts
  <2> HIDE DEF m
  <2>4. /\ FailureRecord(m) \in Manifest
        /\ Completed(FailureRecord(m)) = Completed(m) \ {Current}
        /\ FailureRecord(m).completed = m.completed
    BY <1>3, <2>3, FailureFacts
  <2>5. disk' = FailureRecord(m) BY <1>1, <1>6 DEF m
  <2>6. (Completed(disk) \cup {Current}) \ {Current} = Completed(disk) BY <1>3
  <2> QED BY <1>1, <2>3, <2>4, <2>5, <2>6
<1> QED BY <1>4, <1>5, <1>6 DEF TensorFails, SaveFails

\* The counter is ahead of the completed tensors by at most the faults.
LEMMA ManifestStep == ManifestInv /\ ProcessInv /\ [Next]_vars => ManifestInv'
<1> SUFFICES ASSUME ManifestInv, ProcessInv, [Next]_vars PROVE ManifestInv'
  OBVIOUS
<1>a. faults \in Nat /\ MaxFaults \in Nat /\ faults <= MaxFaults
  BY PipelineAssumption DEF ManifestInv
<1>b. ASSUME UNCHANGED <<disk, mem, faults>>, Running' = Running PROVE ManifestInv'
  BY <1>b DEF ManifestInv
<1>c. ASSUME NEW how \in {"off", "done", "failed"}, Ends(how), faults' = faults, disk' = disk
      PROVE  ManifestInv'
  <2>1. ~Running' /\ mem' = Absent BY <1>c, EndFacts DEF Ends
  <2> QED BY <1>c, <2>1 DEF ManifestInv
<1>1. CASE Start
  <2>1. /\ disk' = (IF disk = Absent THEN InitialManifest ELSE disk) /\ mem' = disk'
        /\ faults' = faults /\ Running'
    BY <1>1 DEF Start, Goto, Running
  <2>2. disk' \in Manifest BY <2>1, InitialFacts DEF ManifestInv
  <2>3. CASE disk = Absent
    <3>1. Completed(disk') = {} /\ disk'.completed = 0 BY <2>1, <2>3, InitialFacts
    <3>2. Cardinality({}) = 0 BY FS_EmptySet
    <3>3. /\ Cardinality(Completed(disk')) <= disk'.completed
          /\ disk'.completed <= Cardinality(Completed(disk')) + faults'
      BY <1>a, <2>1, <3>1, <3>2
    <3> QED BY <1>a, <2>1, <2>2, <3>3, PipelineAssumption DEF ManifestInv
  <2>4. CASE disk # Absent
    <3>1. disk' = disk BY <2>1, <2>4
    <3> QED BY <2>1, <2>2, <2>4, <3>1, PipelineAssumption DEF ManifestInv
  <2> QED BY <2>3, <2>4
<1>2. CASE Skip \/ Quantize \/ FlushFull \/ Stage \/ FinalFlush \/ BeginRename \/ RenameShard
  <2>1. UNCHANGED <<disk, mem, faults>> /\ Running /\ Running'
    BY <1>2 DEF Skip, Quantize, FlushFull, Stage, FinalFlush, BeginRename, RenameShard, LoopIsOver,
                Goto, Running
  <2> QED BY <1>b, <2>1
<1>3. CASE MarkCompleted
  <2>1. /\ pc = "mark" /\ mem' = Marked(mem, Current) /\ disk' = mem' /\ faults' = faults
        /\ Running /\ Running'
    BY <1>3 DEF MarkCompleted, Goto, Running
  <2>2. mem = disk /\ disk \in Manifest /\ pos <= Len(Order) /\ ~Finished(Current)
    BY <2>1 DEF ManifestInv, ProcessInv
  <2>3. Current \in Tensors \ Completed(disk) BY <2>2, CurrentFacts
  <2>4. Completed(disk) \in SUBSET Tensors /\ Completed(disk) # Tensors
    BY <2>3, CompletedIsTensors
  <2>5. /\ Cardinality(Completed(disk)) \in Nat /\ Cardinality(Completed(disk)) < Len(Order)
        /\ Cardinality(Completed(disk) \cup {Current}) = Cardinality(Completed(disk)) + 1
    BY <2>3, <2>4, CountFacts
  <2>6. /\ Cardinality(Completed(disk)) <= disk.completed
        /\ disk.completed <= Cardinality(Completed(disk)) + faults
        /\ disk.completed \in Nat
    BY <2>1, <2>2, PipelineAssumption DEF ManifestInv, Manifest
  <2>7. disk.completed < Len(Order) + MaxFaults BY <1>a, <2>5, <2>6, OrderFacts
  <2>8. /\ disk' \in Manifest /\ Completed(disk') = Completed(disk) \cup {Current}
        /\ disk'.completed = disk.completed + 1
    BY <2>1, <2>2, <2>3, <2>7, MarkedFacts
  <2>9. /\ Cardinality(Completed(disk')) <= disk'.completed
        /\ disk'.completed <= Cardinality(Completed(disk')) + faults
    BY <1>a, <2>5, <2>6, <2>8
  <2> QED BY <1>a, <2>1, <2>8, <2>9, PipelineAssumption DEF ManifestInv
<1>4. CASE KeepIndex
  <2>1. PICK how \in {"done", "failed"} : Ends(how) BY <1>4 DEF KeepIndex
  <2> QED BY <1>c, <1>4, <2>1 DEF KeepIndex, onDisk
<1>5. CASE WriteIndex BY <1>c, <1>5 DEF WriteIndex
<1>6. CASE TensorFails \/ SaveFails
  <2>1. Ends("failed") /\ faults' = faults + 1 /\ faults < MaxFaults
    BY <1>6 DEF TensorFails, SaveFails
  <2>2. ~Running' /\ mem' = Absent BY <2>1, EndFacts DEF Ends
  <2>3. /\ disk \in Manifest /\ disk' \in Manifest
        /\ Completed(disk') = Completed(disk)
        /\ disk'.completed \in {disk.completed, disk.completed + 1}
    BY <1>6, FailedDisk
  <2>4. /\ Cardinality(Completed(disk)) <= disk.completed
        /\ disk.completed <= Cardinality(Completed(disk)) + faults
        /\ disk.completed \in Nat
    BY <2>3, PipelineAssumption DEF ManifestInv, Manifest
  <2>5. Cardinality(Completed(disk)) \in Nat
    BY CompletedIsTensors, CountFacts, OrderFacts
  <2>6. /\ Cardinality(Completed(disk')) <= disk'.completed
        /\ disk'.completed <= Cardinality(Completed(disk')) + faults'
    BY <1>a, <2>1, <2>3, <2>4, <2>5
  <2> QED BY <1>a, <2>1, <2>2, <2>3, <2>6 DEF ManifestInv
<1>7. CASE Killed
  <2>1. Ends("off") /\ faults' = faults + 1 /\ faults < MaxFaults /\ disk' = disk
    BY <1>7 DEF Killed
  <2>2. ~Running' /\ mem' = Absent BY <2>1, EndFacts DEF Ends
  <2>3. Cardinality(Completed(disk)) \in Nat
    BY CompletedIsTensors, CountFacts, OrderFacts
  <2>4. disk # Absent => disk.completed \in Nat BY DEF ManifestInv, Manifest
  <2>5. disk # Absent => disk.completed <= Cardinality(Completed(disk)) + (faults + 1)
    BY <1>a, <2>3, <2>4 DEF ManifestInv
  <2> QED BY <1>a, <2>1, <2>2, <2>5 DEF ManifestInv
<1>8. CASE UNCHANGED vars BY <1>b, <1>8 DEF vars, Running
<1> QED BY <1>1, <1>2, <1>3, <1>4, <1>5, <1>6, <1>7, <1>8 DEF Next

\* The loop passes a tensor when it is completed.
LEMMA ProcessStep == ManifestInv /\ ProcessInv /\ written \in 0..Len(Order) /\ [Next]_vars => ProcessInv'
<1> SUFFICES ASSUME ManifestInv, ProcessInv, written \in 0..Len(Order), [Next]_vars PROVE ProcessInv'
  OBVIOUS
<1>a. pos \in Nat \ {0} /\ written \in Nat /\ Len(Order) \in Nat BY OrderFacts DEF ProcessInv
<1>1. CASE Start
  BY <1>1, <1>a DEF Start, Goto, writer, ProcessInv, Running
<1>2. CASE Skip
  <2>1. /\ pc = "loop" /\ pos <= Len(Order) /\ Finished(Current) /\ pos' = pos + 1
        /\ UNCHANGED <<pc, mem, writer>>
    BY <1>2 DEF Skip
  <2>2. Order[pos] \in Completed(mem) BY <2>1, CurrentFacts DEF Current
  <2>3. \A j \in 1..(pos' - 1) : Order[j] \in Completed(mem)
    <3>1. TAKE j \in 1..(pos' - 1)
    <3>2. CASE j = pos BY <2>2, <3>2
    <3>3. CASE j # pos
      <4>1. j \in 1..(pos - 1) BY <1>a, <2>1, <3>3
      <4> QED BY <2>1, <4>1 DEF ProcessInv
    <3> QED BY <3>2, <3>3
  <2>4. Completed(mem)' = Completed(mem) BY <2>1 DEF Completed
  <2>5. Running' = Running BY <2>1 DEF Running
  <2>6. pos' \in 1 .. Len(Order) + 1 BY <1>a, <2>1
  <2> QED BY <2>1, <2>3, <2>4, <2>5, <2>6 DEF ProcessInv, Running
<1>3. CASE Quantize \/ Stage
  <2>1. /\ pc \in {"loop", "add"} /\ pc' \in {"add", "mark"} /\ pos <= Len(Order) /\ ~Finished(Current)
        /\ UNCHANGED <<mem, pos, written, weightMap>>
    BY <1>3 DEF Quantize, Stage, Goto, writer, ProcessInv
  <2>2. Finished(Current)' = Finished(Current) /\ Completed(mem)' = Completed(mem)
    BY <2>1 DEF Finished, Current, Completed
  <2> QED BY <2>1, <2>2 DEF ProcessInv, Running
<1>4. CASE FlushFull \/ FinalFlush
  <2>1. pc \in {"loop", "add"} /\ UNCHANGED <<pc, mem, pos>>
    BY <1>4 DEF FlushFull, FinalFlush
  <2>2. Finished(Current)' = Finished(Current) /\ Completed(mem)' = Completed(mem)
    BY <2>1 DEF Finished, Current, Completed
  <2> QED BY <2>1, <2>2 DEF ProcessInv, Running
<1>5. CASE MarkCompleted
  <2>1. /\ pc = "mark" /\ pc' = "loop" /\ mem' = Marked(mem, Current) /\ pos' = pos + 1
    BY <1>5 DEF MarkCompleted, Goto
  <2>2. pos <= Len(Order) /\ Current \in Tensors BY <2>1, CurrentFacts DEF ProcessInv
  <2>3. mem \in Manifest BY <2>1 DEF ManifestInv, Running
  <2>4. Completed(mem') = Completed(mem) \cup {Current}
    BY <2>1, <2>2, <2>3 DEF Completed, Marked, Manifest
  <2>5. \A j \in 1..(pos' - 1) : Order[j] \in Completed(mem')
    <3>1. TAKE j \in 1..(pos' - 1)
    <3>2. CASE j = pos BY <2>4, <3>2 DEF Current
    <3>3. CASE j # pos
      <4>1. j \in 1..(pos - 1) BY <1>a, <2>1, <3>3
      <4> QED BY <2>1, <2>4, <4>1 DEF ProcessInv
    <3> QED BY <3>2, <3>3
  <2>6. pos' \in 1 .. Len(Order) + 1 BY <1>a, <2>1, <2>2
  <2>7. Completed(mem)' = Completed(mem') BY DEF Completed
  <2> QED BY <2>1, <2>5, <2>6, <2>7 DEF ProcessInv, Running
<1>6. CASE BeginRename
  <2>1. /\ pc = "loop" /\ pc' = "rename" /\ pos > Len(Order) /\ buffer = {} /\ pos' = 1
        /\ UNCHANGED <<mem, buffer, written, weightMap>>
    BY <1>6 DEF BeginRename, LoopIsOver, Goto, writer
  <2>2. \A t \in Tensors : t \in Completed(mem)
    <3>1. TAKE t \in Tensors
    <3>2. PICK i \in 1..Len(Order) : Order[i] = t BY OrderFacts
    <3>3. i \in 1..(pos - 1) BY <1>a, <2>1
    <3> QED BY <2>1, <3>2, <3>3 DEF ProcessInv
  <2>3. Completed(mem)' = Tensors BY <2>1, <2>2, CompletedIsTensors DEF Completed
  <2>4. pos' <= written' + 1 /\ pos' \in 1 .. Len(Order) + 1 BY <1>a, <2>1
  <2> QED BY <2>1, <2>3, <2>4 DEF ProcessInv, Running
<1>7. CASE RenameShard
  <2>1. pc = "rename" /\ pos <= written /\ pos' = pos + 1 /\ UNCHANGED <<pc, mem, buffer, written>>
    BY <1>7 DEF RenameShard
  <2>2. Completed(mem)' = Completed(mem) BY <2>1 DEF Completed
  <2>3. pos' <= written' + 1 /\ pos' \in 1 .. Len(Order) + 1 BY <1>a, <2>1
  <2> QED BY <2>1, <2>2, <2>3 DEF ProcessInv, Running
<1>8. CASE KeepIndex \/ WriteIndex \/ TensorFails \/ SaveFails \/ Killed
  <2>1. \E how \in {"off", "done", "failed"} : Ends(how)
    BY <1>8 DEF KeepIndex, WriteIndex, TensorFails, SaveFails, Killed
  <2> QED BY <2>1, EndFacts
<1>9. CASE UNCHANGED vars
  BY <1>9 DEF vars, ProcessInv, Running, Completed, Finished, Current
<1> QED BY <1>1, <1>2, <1>3, <1>4, <1>5, <1>6, <1>7, <1>8, <1>9 DEF Next

-----------------------------------------------------------------------------
(* The shards.                                                             *)

\* Saving a file leaves the others alone.
LEMMA SavedFacts ==
  ASSUME NEW f, f \in [DOMAIN f -> SUBSET Tensors], NEW n, NEW S \in SUBSET Tensors
  PROVE  /\ DOMAIN Saved(f, n, S) = DOMAIN f \cup {n}
         /\ Saved(f, n, S) \in [DOMAIN Saved(f, n, S) -> SUBSET Tensors]
         /\ Saved(f, n, S)[n] = S
         /\ \A m \in DOMAIN f : m # n => Saved(f, n, S)[m] = f[m]
BY DEF Saved

\* A process that flushes has a name for the shard.
LEMMA FlushingFacts ==
  ASSUME ProcessInv, ShardInv, Flushing
  PROVE  /\ pc \in {"loop", "add"} /\ buffer # {}
         /\ written + 1 \in 1..Len(Order) /\ ShardName \in Names
         /\ written + 1 <= pos - 1
<1>1. pc \in {"loop", "add"} /\ buffer # {} BY DEF Flushing, MustFlush
<1>2. written \in Nat /\ pos \in Nat \ {0} /\ Len(Order) \in Nat /\ pos <= Len(Order) + 1
  BY OrderFacts DEF ShardInv, ProcessInv
<1>3. written + 1 <= pos - 1 + 0 BY <1>1 DEF ShardInv
<1>4. written + 1 \in 1..Len(Order) BY <1>2, <1>3
<1>5. ShardName \in Names BY <1>2, <1>4 DEF ShardName, Names
<1> QED BY <1>1, <1>2, <1>3, <1>4, <1>5

\* A torn shard leaves files.
LEMMA TornFacts ==
  ASSUME ProcessInv, ShardInv, Flushing, TearsShard
  PROVE  files' \in [DOMAIN files' -> SUBSET Tensors] /\ DOMAIN files' \subseteq Names
<1>1. files \in [DOMAIN files -> SUBSET Tensors] /\ DOMAIN files \subseteq Names BY DEF ShardInv
<1>2. {} \in SUBSET Tensors OBVIOUS
<1>3. /\ DOMAIN Saved(files, ShardName, {}) = DOMAIN files \cup {ShardName}
      /\ Saved(files, ShardName, {}) \in [DOMAIN Saved(files, ShardName, {}) -> SUBSET Tensors]
  BY <1>1, <1>2, SavedFacts
<1> QED BY <1>1, <1>3, FlushingFacts DEF TearsShard

\* When a process ends only its files are left.
LEMMA EndedShards ==
  ASSUME NEW how \in {"off", "done", "failed"}, Ends(how),
         files' \in [DOMAIN files' -> SUBSET Tensors], DOMAIN files' \subseteq Names
  PROVE  ShardInv'
<1>1. /\ pc' = how /\ pos' = 1 /\ buffer' = {} /\ written' = 0 /\ weightMap' = Empty
  BY DEF Ends
<1>2. DOMAIN Empty = {} /\ Empty \in [DOMAIN Empty -> Names] BY DEF Empty
<1>3. Unnamed' = {} BY <1>1 DEF Unnamed
<1>4. FlushedIsKept' BY <1>1, <1>2 DEF FlushedIsKept
<1> QED BY <1>1, <1>2, <1>3, <1>4, OrderFacts DEF ShardInv

\* A flush puts the buffer into a new file and names it for each of its tensors.
LEMMA FlushKeeps ==
  ASSUME ProcessInv, ShardInv, Flushing, Flush, pc' = pc, pos' = pos
  PROVE  ShardInv'
<1>1. /\ files \in [DOMAIN files -> SUBSET Tensors] /\ DOMAIN files \subseteq Names
      /\ buffer \in SUBSET Tensors /\ written \in Nat
      /\ weightMap \in [DOMAIN weightMap -> Names] /\ DOMAIN weightMap \subseteq Tensors
  BY OrderFacts DEF ShardInv
<1>2. /\ pc \in {"loop", "add"} /\ buffer # {} /\ written + 1 \in 1..Len(Order)
      /\ ShardName \in Names /\ written + 1 <= pos - 1
  BY FlushingFacts
<1>3. /\ files' = Saved(files, ShardName, buffer)
      /\ weightMap' = [t \in DOMAIN weightMap \cup buffer |->
                         IF t \in buffer THEN ShardName ELSE weightMap[t]]
      /\ written' = written + 1 /\ buffer' = {}
  BY DEF Flush
<1>4. /\ DOMAIN files' = DOMAIN files \cup {ShardName}
      /\ files' \in [DOMAIN files' -> SUBSET Tensors]
      /\ files'[ShardName] = buffer
      /\ \A m \in DOMAIN files : m # ShardName => files'[m] = files[m]
  <2>1. files' = [m \in DOMAIN files \cup {ShardName} |-> IF m = ShardName THEN buffer ELSE files[m]]
    BY <1>3 DEF Saved
  <2> QED BY <1>1, <2>1
<1>5. /\ DOMAIN weightMap' = DOMAIN weightMap \cup buffer
      /\ \A t \in buffer : weightMap'[t] = ShardName
      /\ \A t \in DOMAIN weightMap : t \notin buffer => weightMap'[t] = weightMap[t]
      /\ weightMap' \in [DOMAIN weightMap' -> Names]
  BY <1>1, <1>2, <1>3
<1>6. Unnamed = 1..written /\ Unnamed' = 1..(written + 1) /\ Renamed = {} /\ Renamed' = {}
  BY <1>2, <1>3 DEF Unnamed, Renamed
<1>7. ShardName = <<written + 1, 0>> BY DEF ShardName
<1> HIDE DEF Flush
<1>8. \A k \in Unnamed' : <<k, 0>> \in DOMAIN files'
  <2>1. TAKE k \in Unnamed'
  <2>2. CASE k = written + 1 BY <2>2, <1>4, <1>7
  <2>3. CASE k # written + 1
    <3>1. k \in Unnamed BY <1>1, <1>6, <2>3
    <3> QED BY <3>1, <1>4 DEF ShardInv
  <2> QED BY <2>2, <2>3
<1>9. ASSUME NEW t \in DOMAIN weightMap, t \notin buffer
      PROVE  \E k \in Unnamed' : weightMap'[t] = <<k, 0>> /\ k # written + 1
  <2>1. PICK k \in Unnamed : weightMap[t] = <<k, 0>> BY <1>6 DEF ShardInv
  <2>2. k \in Unnamed' /\ k # written + 1 BY <1>1, <1>6, <2>1
  <2> QED BY <1>5, <1>9, <2>1, <2>2
<1>10. ASSUME NEW t \in buffer
       PROVE  \E k \in Unnamed' : weightMap'[t] = <<k, 0>>
  <2>1. written + 1 \in Unnamed' BY <1>1, <1>6
  <2> QED BY <1>5, <1>7, <2>1
<1>11. FlushedIsKept'
  <2>1. ASSUME NEW t \in DOMAIN weightMap'
        PROVE  weightMap'[t] \in DOMAIN files' /\ t \in files'[weightMap'[t]]
    <3>1. CASE t \in buffer BY <3>1, <1>4, <1>5
    <3>2. CASE t \notin buffer
      <4>1. t \in DOMAIN weightMap BY <1>5, <3>2
      <4>2. weightMap'[t] = weightMap[t] /\ weightMap[t] # ShardName
        <5>1. PICK k \in Unnamed' : weightMap'[t] = <<k, 0>> /\ k # written + 1
          BY <1>9, <3>2, <4>1
        <5> QED BY <1>5, <1>7, <3>2, <4>1, <5>1
      <4>3. weightMap[t] \in DOMAIN files /\ t \in files[weightMap[t]]
        BY <4>1 DEF ShardInv, FlushedIsKept
      <4> QED BY <1>4, <4>2, <4>3
    <3> QED BY <3>1, <3>2
  <2> QED BY <2>1 DEF FlushedIsKept
<1>12. written' + 0 <= pos' - 1 + (IF pc' = "mark" THEN 1 ELSE 0)
  BY <1>2, <1>3 DEF ProcessInv
<1>13. written' \in 0..Len(Order) /\ buffer' \subseteq Tensors BY <1>1, <1>2, <1>3
<1>14. DOMAIN files' \subseteq Names /\ DOMAIN weightMap' \subseteq Tensors BY <1>1, <1>2, <1>4, <1>5
<1>15. \A t \in DOMAIN weightMap' : \E k \in Unnamed' : weightMap'[t] = <<k, 0>>
  BY <1>5, <1>9, <1>10
<1> QED BY <1>3, <1>4, <1>5, <1>8, <1>11, <1>12, <1>13, <1>14, <1>15 DEF ShardInv

\* A rename moves a shard's file and, for each of its tensors, the name.
LEMMA RenameKeeps ==
  ASSUME ProcessInv, ShardInv, RenameShard
  PROVE  ShardInv'
<1> DEFINE old == <<pos, 0>>  new == FinalName(pos)
           rest == [n \in DOMAIN files \ {old} |-> files[n]]
<1>1. /\ files \in [DOMAIN files -> SUBSET Tensors] /\ DOMAIN files \subseteq Names
      /\ weightMap \in [DOMAIN weightMap -> Names] /\ DOMAIN weightMap \subseteq Tensors
      /\ written \in Nat /\ written <= Len(Order) /\ Len(Order) \in Nat
      /\ pos \in Nat \ {0}
  BY OrderFacts DEF ShardInv, ProcessInv
<1>2. /\ pc = "rename" /\ pc' = "rename" /\ pos <= written /\ pos' = pos + 1
      /\ UNCHANGED <<buffer, written>>
      /\ files' = Saved(rest, new, files[old])
      /\ weightMap' = [t \in DOMAIN weightMap |-> IF weightMap[t] = old THEN new ELSE weightMap[t]]
  BY DEF RenameShard
<1>3. Total \in 1..Len(Order) /\ Total' = Total BY <1>1, <1>2 DEF Total
<1>4. \A k : FinalName(k) = <<k, Total>> /\ FinalName(k)' = FinalName(k)
  BY <1>3 DEF FinalName
<1>5. new \in Names /\ old # new /\ \A k : <<k, 0>> # new
  BY <1>1, <1>2, <1>3, <1>4 DEF Names
<1>6. Unnamed = pos..written /\ Unnamed' = (pos + 1)..written
      /\ Renamed = 1..(pos - 1) /\ Renamed' = 1..pos
  BY <1>1, <1>2 DEF Unnamed, Renamed
<1>7. old \in DOMAIN files
  <2>1. pos \in Unnamed BY <1>1, <1>2, <1>6
  <2> QED BY <2>1 DEF ShardInv
<1>8. DOMAIN rest = DOMAIN files \ {old} /\ rest \in [DOMAIN rest -> SUBSET Tensors]
      /\ \A m \in DOMAIN files : m # old => rest[m] = files[m]
  BY <1>1
<1>9. files[old] \in SUBSET Tensors BY <1>1, <1>7
<1> HIDE DEF rest, old, new
<1>10. /\ DOMAIN files' = (DOMAIN files \ {old}) \cup {new}
       /\ files' \in [DOMAIN files' -> SUBSET Tensors]
       /\ files'[new] = files[old]
       /\ \A m \in DOMAIN files : m # old /\ m # new => files'[m] = files[m]
  <2> DEFINE moved == files[old]
  <2>1. files' = [m \in DOMAIN rest \cup {new} |-> IF m = new THEN moved ELSE rest[m]]
    BY <1>2 DEF Saved
  <2>2. moved \in SUBSET Tensors BY <1>9
  <2> HIDE DEF moved
  <2>3. /\ DOMAIN files' = DOMAIN rest \cup {new} /\ files' \in [DOMAIN files' -> SUBSET Tensors]
        /\ files'[new] = moved /\ \A m \in DOMAIN rest : m # new => files'[m] = rest[m]
    BY <1>8, <2>1, <2>2
  <2> QED BY <1>8, <2>3 DEF moved
<1>11. /\ DOMAIN weightMap' = DOMAIN weightMap
       /\ \A t \in DOMAIN weightMap : weightMap'[t] = IF weightMap[t] = old THEN new ELSE weightMap[t]
       /\ weightMap' \in [DOMAIN weightMap' -> Names]
  BY <1>1, <1>2, <1>5
<1>12. \A k \in Unnamed' : <<k, 0>> \in DOMAIN files'
  <2>1. TAKE k \in Unnamed'
  <2>2. k \in Unnamed /\ k # pos BY <1>1, <1>6
  <2>3. <<k, 0>> \in DOMAIN files BY <2>2 DEF ShardInv
  <2>4. <<k, 0>> # old BY <2>2 DEF old
  <2> QED BY <1>10, <2>3, <2>4
<1>13. ASSUME NEW t \in DOMAIN weightMap, weightMap[t] # old
       PROVE  /\ weightMap[t] # new
              /\ \/ \E k \in Unnamed' : weightMap[t] = <<k, 0>>
                 \/ \E k \in Renamed' : weightMap[t] = FinalName(k)
  <2>1. CASE \E k \in Unnamed : weightMap[t] = <<k, 0>>
    <3>1. PICK k \in Unnamed : weightMap[t] = <<k, 0>> BY <2>1
    <3>2. k # pos BY <1>13, <3>1 DEF old
    <3>3. k \in Unnamed' BY <1>1, <1>6, <3>1, <3>2
    <3> QED BY <1>5, <3>1, <3>3
  <2>2. CASE \E k \in Renamed : weightMap[t] = FinalName(k)
    <3>1. PICK k \in Renamed : weightMap[t] = FinalName(k) BY <2>2
    <3>2. k # pos /\ k \in Renamed' BY <1>1, <1>6, <3>1
    <3>3. FinalName(k) # new BY <1>4, <3>2 DEF new
    <3> QED BY <3>1, <3>2, <3>3
  <2> QED BY <2>1, <2>2 DEF ShardInv
<1>14. \A t \in DOMAIN weightMap' :
          \/ \E k \in Unnamed' : weightMap'[t] = <<k, 0>>
          \/ \E k \in Renamed' : weightMap'[t] = FinalName(k)'
  <2>1. TAKE t \in DOMAIN weightMap'
  <2>2. t \in DOMAIN weightMap BY <1>11
  <2>3. CASE weightMap[t] = old
    <3>1. PICK k : k = pos OBVIOUS
    <3>2. k \in Renamed' BY <1>1, <1>6, <3>1
    <3>3. weightMap'[t] = FinalName(k)' BY <1>4, <1>11, <2>2, <2>3, <3>1 DEF new
    <3> QED BY <3>2, <3>3
  <2>4. CASE weightMap[t] # old BY <1>4, <1>11, <1>13, <2>2, <2>4
  <2> QED BY <2>3, <2>4
<1>15. FlushedIsKept'
  <2>1. ASSUME NEW t \in DOMAIN weightMap'
        PROVE  weightMap'[t] \in DOMAIN files' /\ t \in files'[weightMap'[t]]
    <3>1. t \in DOMAIN weightMap BY <1>11
    <3>2. weightMap[t] \in DOMAIN files /\ t \in files[weightMap[t]]
      BY <3>1 DEF ShardInv, FlushedIsKept
    <3>3. CASE weightMap[t] = old BY <1>10, <1>11, <3>1, <3>2, <3>3
    <3>4. CASE weightMap[t] # old
      <4>1. weightMap[t] # new BY <1>13, <3>1, <3>4
      <4> QED BY <1>10, <1>11, <3>1, <3>2, <3>4, <4>1
    <3> QED BY <3>3, <3>4
  <2> QED BY <2>1 DEF FlushedIsKept
<1>16. /\ DOMAIN files' \subseteq Names /\ DOMAIN weightMap' \subseteq Tensors
       /\ written' \in 0..Len(Order) /\ buffer' \subseteq Tensors
  BY <1>1, <1>2, <1>5, <1>10, <1>11 DEF ShardInv
<1> QED BY <1>2, <1>10, <1>11, <1>12, <1>14, <1>15, <1>16 DEF ShardInv

\* Each step keeps tensors and shards together.
LEMMA ShardStep == ManifestInv /\ ProcessInv /\ ShardInv /\ [Next]_vars => ShardInv'
<1> SUFFICES ASSUME ManifestInv, ProcessInv, ShardInv, [Next]_vars PROVE ShardInv'
  OBVIOUS
<1>a. pos \in Nat \ {0} /\ written \in Nat /\ Len(Order) \in Nat
      /\ files \in [DOMAIN files -> SUBSET Tensors] /\ DOMAIN files \subseteq Names
  BY OrderFacts DEF ProcessInv, ShardInv
<1>b. ASSUME UNCHANGED <<files, buffer, written, weightMap>>, pc # "rename", pc' # "rename",
             pc' \in {"loop", "add", "mark"} =>
               written + (IF buffer = {} THEN 0 ELSE 1) <= pos' - 1 + (IF pc' = "mark" THEN 1 ELSE 0)
      PROVE  ShardInv'
  <2>1. Unnamed' = Unnamed /\ Renamed' = Renamed /\ Renamed = {}
    BY <1>b DEF Unnamed, Renamed
  <2>2. FlushedIsKept' BY <1>b DEF ShardInv, FlushedIsKept
  <2> QED BY <1>b, <2>1, <2>2 DEF ShardInv
<1>1. CASE Start
  <2>1. /\ UNCHANGED <<files, buffer, written, weightMap>> /\ ~Running /\ pc' = "loop" /\ pos' = 1
        /\ buffer = {} /\ written = 0
    BY <1>1 DEF Start, writer, Goto, ProcessInv
  <2>2. pc # "rename" BY <2>1 DEF Running
  <2> QED BY <1>b, <2>1, <2>2
<1>2. CASE Skip \/ Quantize \/ MarkCompleted
  <2>1. /\ UNCHANGED <<files, buffer, written, weightMap>>
        /\ \/ pc = "loop" /\ pc' = "loop" /\ pos' = pos + 1
           \/ pc = "loop" /\ pc' = "add" /\ pos' = pos
           \/ pc = "mark" /\ pc' = "loop" /\ pos' = pos + 1
    BY <1>2 DEF Skip, Quantize, MarkCompleted, writer, Goto
  <2>2. written + (IF buffer = {} THEN 0 ELSE 1) <= pos - 1 + (IF pc = "mark" THEN 1 ELSE 0)
    BY <2>1 DEF ShardInv
  <2> DEFINE w == written + (IF buffer = {} THEN 0 ELSE 1)
  <2>3. w \in Nat BY <1>a
  <2> HIDE DEF w
  <2>4. w <= pos' - 1 + (IF pc' = "mark" THEN 1 ELSE 0) BY <1>a, <2>1, <2>2, <2>3 DEF w
  <2> QED BY <1>b, <2>1, <2>4 DEF w
<1>3. CASE FlushFull \/ FinalFlush
  <2>1. Flushing /\ Flush /\ pc' = pc /\ pos' = pos
    BY <1>3 DEF FlushFull, FinalFlush, Flushing
  <2> QED BY <2>1, FlushKeeps
<1>4. CASE Stage
  <2>1. /\ pc = "add" /\ pc' = "mark" /\ buffer' = buffer \cup {Current}
        /\ UNCHANGED <<files, pos, written, weightMap>>
    BY <1>4 DEF Stage, Goto
  <2>2. Current \in Tensors BY <2>1, CurrentFacts DEF ProcessInv
  <2>3. Unnamed' = Unnamed /\ Renamed' = Renamed /\ Renamed = {} BY <2>1 DEF Unnamed, Renamed
  <2>4. FlushedIsKept' BY <2>1 DEF ShardInv, FlushedIsKept
  <2>5. written' + (IF buffer' = {} THEN 0 ELSE 1) <= pos' - 1 + 1
    <3>1. written <= pos - 1
      <4>1. written + (IF buffer = {} THEN 0 ELSE 1) <= pos - 1 + 0 BY <2>1 DEF ShardInv
      <4> QED BY <1>a, <4>1
    <3> QED BY <1>a, <2>1, <3>1
  <2> QED BY <2>1, <2>2, <2>3, <2>4, <2>5 DEF ShardInv
<1>5. CASE BeginRename
  <2>1. /\ pc = "loop" /\ pc' = "rename" /\ pos' = 1 /\ UNCHANGED <<files, buffer, written, weightMap>>
    BY <1>5 DEF BeginRename, LoopIsOver, Goto, writer
  <2>2. Unnamed' = Unnamed /\ Renamed = {} /\ Renamed' = {}
    BY <2>1 DEF Unnamed, Renamed
  <2>3. FlushedIsKept' BY <2>1 DEF ShardInv, FlushedIsKept
  <2> QED BY <2>1, <2>2, <2>3 DEF ShardInv
<1>6. CASE RenameShard BY <1>6, RenameKeeps
<1>7. CASE KeepIndex \/ WriteIndex \/ TensorFails \/ SaveFails \/ Killed
  <2>1. \E how \in {"off", "done", "failed"} : Ends(how)
    BY <1>7 DEF KeepIndex, WriteIndex, TensorFails, SaveFails, Killed
  <2>2. files' = files \/ (Flushing /\ TearsShard)
    BY <1>7 DEF KeepIndex, WriteIndex, TensorFails, SaveFails, Killed, Flushing, onDisk
  <2>3. files' \in [DOMAIN files' -> SUBSET Tensors] /\ DOMAIN files' \subseteq Names
    BY <1>a, <2>2, TornFacts
  <2> QED BY <2>1, <2>3, EndedShards
<1>8. CASE UNCHANGED vars
  <2>1. UNCHANGED <<files, buffer, written, weightMap, pc, pos>> BY <1>8 DEF vars
  <2>2. Unnamed' = Unnamed /\ Renamed' = Renamed BY <2>1 DEF Unnamed, Renamed
  <2>3. FlushedIsKept' BY <2>1 DEF ShardInv, FlushedIsKept
  <2>4. \A k : FinalName(k)' = FinalName(k) BY <2>1 DEF FinalName, Total
  <2> QED BY <2>1, <2>2, <2>3, <2>4 DEF ShardInv
<1> QED BY <1>1, <1>2, <1>3, <1>4, <1>5, <1>6, <1>7, <1>8 DEF Next

-----------------------------------------------------------------------------
(* Sizes, the index, and jobs without faults.                              *)

\* Nothing, or a single tensor, is within the limit or alone.
LEMMA SmallFacts ==
  /\ TotalBytes({}) = 0 /\ Small({})
  /\ \A t : Small({t})
<1>1. TotalBytes({}) = 0 BY TotalIsSum, SumRow, FS_EmptySet
<1>2. MaxShardBytes \in Nat BY PipelineAssumption
<1>3. \A t : Cardinality({t}) = 1 BY FS_Singleton
<1>4. Small({}) BY <1>1, <1>2 DEF Small
<1>5. \A t : Small({t}) BY <1>3 DEF Small
<1> QED BY <1>1, <1>4, <1>5

\* A tensor is staged only where the sum allows it, or alone.
LEMMA SizeStep == ProcessInv /\ ShardInv /\ SizeInv /\ [Next]_vars => SizeInv'
<1> SUFFICES ASSUME ProcessInv, ShardInv, SizeInv, [Next]_vars PROVE SizeInv'
  OBVIOUS
<1>a. ASSUME \/ files' = files
             \/ files' = Saved(files, ShardName, buffer)
             \/ files' = Saved(files, ShardName, {})
      PROVE  \A n \in DOMAIN files' : Small(files'[n])
  <2>1. ASSUME NEW S, Small(S), files' = Saved(files, ShardName, S)
        PROVE  \A n \in DOMAIN files' : Small(files'[n])
    <3>1. files' = [m \in DOMAIN files \cup {ShardName} |-> IF m = ShardName THEN S ELSE files[m]]
      BY <2>1 DEF Saved
    <3> QED BY <2>1, <3>1 DEF SizeInv
  <2> QED BY <1>a, <2>1, SmallFacts DEF SizeInv
<1>b. ASSUME \A n \in DOMAIN files' : Small(files'[n]), Small(buffer') PROVE SizeInv'
  BY <1>b DEF SizeInv
<1>1. CASE Start \/ Skip \/ Quantize \/ MarkCompleted \/ BeginRename \/ UNCHANGED vars
  <2>1. files' = files /\ buffer' = buffer
    BY <1>1 DEF Start, Skip, Quantize, MarkCompleted, BeginRename, writer, vars
  <2> QED BY <1>a, <1>b, <2>1 DEF SizeInv
<1>2. CASE FlushFull \/ FinalFlush
  <2>1. files' = Saved(files, ShardName, buffer) /\ buffer' = {}
    BY <1>2 DEF FlushFull, FinalFlush, Flush
  <2> QED BY <1>a, <1>b, <2>1, SmallFacts
<1>3. CASE Stage
  <2>1. pc = "add" /\ ~MustFlush(Current) /\ buffer' = buffer \cup {Current} /\ files' = files
    BY <1>3 DEF Stage
  <2>2. Current \in Tensors BY <2>1, CurrentFacts DEF ProcessInv
  <2>3. CASE buffer = {}
    <3>1. buffer' = {Current} BY <2>1, <2>3
    <3> QED BY <1>a, <1>b, <2>1, <3>1, SmallFacts
  <2>4. CASE buffer # {} /\ Current \in buffer
    <3>1. buffer' = buffer BY <2>1, <2>4
    <3> QED BY <1>a, <1>b, <2>1, <3>1 DEF SizeInv
  <2>5. CASE buffer # {} /\ Current \notin buffer
    <3>1. ~(TotalBytes(buffer) + Bytes[Current] > MaxShardBytes) BY <2>1, <2>5 DEF MustFlush
    <3>2. buffer \in SUBSET Tensors /\ IsFiniteSet(buffer) BY CountFacts DEF ShardInv
    <3>3. Bytes \in [Tensors -> Nat] BY PipelineAssumption
    <3>4. Sum(Bytes, buffer \union {Current}) = Bytes[Current] + Sum(Bytes, buffer)
          /\ Sum(Bytes, buffer) \in Nat
      BY <2>2, <2>5, <3>2, <3>3, SumPutIn, SumIsNat
    <3>5. Bytes[Current] \in Nat /\ MaxShardBytes \in Nat BY <2>2, <3>3, PipelineAssumption
    <3>6. ~(TotalBytes(buffer') > MaxShardBytes)
      <4>1. TotalBytes(buffer') = Bytes[Current] + Sum(Bytes, buffer) BY <2>1, <3>4, TotalIsSum
      <4>2. TotalBytes(buffer) = Sum(Bytes, buffer) BY TotalIsSum
      <4> QED BY <3>1, <3>4, <3>5, <4>1, <4>2
    <3>7. Small(buffer') BY <3>6 DEF Small
    <3> QED BY <1>a, <1>b, <2>1, <3>7
  <2> QED BY <2>3, <2>4, <2>5
<1>4. CASE RenameShard
  <2> DEFINE old == <<pos, 0>>  new == FinalName(pos)
             rest == [n \in DOMAIN files \ {old} |-> files[n]]
  <2>1. pc = "rename" /\ pos <= written /\ files' = Saved(rest, new, files[old]) /\ buffer' = buffer
    BY <1>4 DEF RenameShard
  <2>2. old \in DOMAIN files
    <3>1. pos \in Nat /\ written \in Nat BY OrderFacts DEF ProcessInv, ShardInv
    <3>2. pos \in Unnamed BY <2>1, <3>1 DEF Unnamed
    <3> QED BY <3>2 DEF ShardInv
  <2>3. files' = [m \in DOMAIN rest \cup {new} |-> IF m = new THEN files[old] ELSE rest[m]]
    BY <2>1 DEF Saved
  <2>4. \A n \in DOMAIN files' : \E m \in DOMAIN files : files'[n] = files[m]
    BY <2>2, <2>3
  <2> HIDE DEF old, new, rest
  <2>5. \A n \in DOMAIN files' : Small(files'[n]) BY <2>4 DEF SizeInv
  <2> QED BY <1>b, <2>1, <2>5 DEF SizeInv
<1>5. CASE KeepIndex \/ WriteIndex \/ TensorFails \/ SaveFails \/ Killed
  <2>1. buffer' = {}
    BY <1>5 DEF KeepIndex, WriteIndex, TensorFails, SaveFails, Killed, Ends
  <2>2. files' = files \/ files' = Saved(files, ShardName, {})
    BY <1>5 DEF KeepIndex, WriteIndex, TensorFails, SaveFails, Killed, TearsShard, onDisk
  <2> QED BY <1>a, <1>b, <2>1, <2>2, SmallFacts
<1> QED BY <1>1, <1>2, <1>3, <1>4, <1>5 DEF Next

\* While there is an index no tensor is left to quantize.
LEMMA NothingIsLeft ==
  ASSUME ManifestInv, ProcessInv, IndexInv, Running, index # Absent
  PROVE  /\ pc = "loop" /\ buffer = {} /\ weightMap = Empty /\ NothingWritten
         /\ pos <= Len(Order) => Finished(Current)
<1>1. pc = "loop" /\ buffer = {} /\ weightMap = Empty /\ Completed(disk) = Tensors
  BY DEF IndexInv, Running
<1>2. mem = disk BY DEF ManifestInv
<1>3. DOMAIN Empty = {} BY DEF Empty
<1> QED BY <1>1, <1>2, <1>3, CurrentFacts DEF NothingWritten

\* A map of names is neither of the marks of an unreadable index.
LEMMA MapsAreReadable ==
  ASSUME NEW f, f \in [DOMAIN f -> Names], DOMAIN f \subseteq Tensors
  PROVE  f # Absent /\ f # Torn
<1> DEFINE D == DOMAIN f
<1>1. D \in SUBSET Tensors /\ f \in [D -> Names] OBVIOUS
<1>2. \A S \in SUBSET Tensors : Absent \notin [S -> Names] /\ Torn \notin [S -> Names]
  BY PipelineAssumption
<1> HIDE DEF D
<1> QED BY <1>1, <1>2

\* The index appears when every shard has its name, and stays true.
LEMMA IndexStep ==
  ManifestInv /\ ProcessInv /\ ShardInv /\ IndexInv /\ [Next]_vars => IndexInv'
<1> SUFFICES ASSUME ManifestInv, ProcessInv, ShardInv, IndexInv, [Next]_vars PROVE IndexInv'
  OBVIOUS
<1>a. ASSUME index' = Absent, pc' # "done" PROVE IndexInv'
  BY <1>a DEF IndexInv, IndexIsTrue, IndexIsMap
<1>b. ASSUME index' = index, files' = files, disk' = disk, pc' \in {"off", "loop", "failed"},
             buffer' = {}, weightMap' = Empty
      PROVE  IndexInv'
  BY <1>b DEF IndexInv, IndexIsTrue, IndexIsMap, Completed
<1>1. CASE Start
  <2>1. ~Running /\ index' = index /\ files' = files /\ pc' = "loop"
        /\ UNCHANGED <<buffer, weightMap>> /\ (disk # Absent => disk' = disk)
    BY <1>1 DEF Start, Goto, writer
  <2>2. CASE index = Absent BY <1>a, <2>1, <2>2
  <2>3. CASE index # Absent
    <3>1. disk # Absent /\ buffer = {} /\ weightMap = Empty BY <2>3 DEF IndexInv
    <3> QED BY <1>b, <2>1, <3>1
  <2> QED BY <2>2, <2>3
<1>2. CASE Skip
  <2>1. Running /\ pc = "loop" /\ pc' = "loop" /\ UNCHANGED <<index, files, disk, buffer, weightMap>>
    BY <1>2 DEF Skip, writer, Running
  <2>2. CASE index = Absent BY <1>a, <2>1, <2>2
  <2>3. CASE index # Absent BY <1>b, <2>1, <2>3, NothingIsLeft
  <2> QED BY <2>2, <2>3
<1>3. CASE Quantize \/ FlushFull \/ Stage \/ MarkCompleted \/ FinalFlush \/ BeginRename \/ RenameShard
  <2>1. Running /\ index' = index /\ pc' # "done"
    BY <1>3 DEF Quantize, FlushFull, Stage, MarkCompleted, FinalFlush, BeginRename, RenameShard,
                LoopIsOver, Goto, writer, Running
  <2>2. index = Absent
    <3> SUFFICES ASSUME index # Absent PROVE FALSE OBVIOUS
    <3> QED BY <1>3, <2>1, NothingIsLeft DEF Quantize, FlushFull, Stage, MarkCompleted, FinalFlush,
               BeginRename, RenameShard
  <2> QED BY <1>a, <2>1, <2>2
<1>4. CASE KeepIndex
  <2>1. /\ pc = "loop" /\ index # Absent /\ UNCHANGED <<disk, files, index>>
        /\ pc' = (IF index = Torn THEN "failed" ELSE "done") /\ buffer' = {} /\ weightMap' = Empty
    BY <1>4 DEF KeepIndex, LoopIsOver, onDisk, Ends
  <2>2. Completed(disk)' = Completed(disk) BY <2>1 DEF Completed
  <2>3. IndexIsTrue' BY <2>1 DEF IndexInv, IndexIsTrue, IndexIsMap
  <2> QED BY <2>1, <2>2, <2>3 DEF IndexInv, IndexIsMap
<1>5. CASE WriteIndex
  <2>1. /\ pc = "rename" /\ index' = weightMap /\ UNCHANGED <<disk, files>>
        /\ pc' = "done" /\ buffer' = {} /\ weightMap' = Empty
    BY <1>5 DEF WriteIndex, Ends
  <2>2. disk # Absent /\ Completed(disk) = Tensors
    BY <2>1 DEF ManifestInv, ProcessInv, Running
  <2>3. weightMap \in [DOMAIN weightMap -> Names] /\ DOMAIN weightMap \subseteq Tensors
    BY DEF ShardInv
  <2>4. IndexIsMap' BY <2>1, <2>3, MapsAreReadable DEF IndexIsMap
  <2>5. IndexIsTrue' BY <2>1 DEF ShardInv, FlushedIsKept, IndexIsTrue
  <2>6. Completed(disk)' = Completed(disk) BY <2>1 DEF Completed
  <2> QED BY <2>1, <2>2, <2>3, <2>4, <2>5, <2>6 DEF IndexInv
<1>6. CASE TensorFails \/ SaveFails
  <2>1. Running /\ index' = index /\ pc' = "failed"
    BY <1>6 DEF TensorFails, SaveFails, Ends, Running
  <2>2. index = Absent
    <3> SUFFICES ASSUME index # Absent PROVE FALSE OBVIOUS
    <3> QED BY <1>6, <2>1, NothingIsLeft DEF TensorFails, SaveFails
  <2> QED BY <1>a, <2>1, <2>2
<1>7. CASE Killed
  <2>1. Running /\ pc' = "off" /\ disk' = disk /\ buffer' = {} /\ weightMap' = Empty
    BY <1>7 DEF Killed, Ends
  <2>2. CASE files' = files /\ index' = index BY <1>b, <2>1, <2>2
  <2>3. CASE Flushing /\ index' = index
    <3>1. index = Absent
      <4> SUFFICES ASSUME index # Absent PROVE FALSE OBVIOUS
      <4> QED BY <2>1, <2>3, NothingIsLeft DEF Flushing
    <3> QED BY <1>a, <2>1, <2>3, <3>1
  <2>4. CASE pc = "rename" /\ index' = Torn
    <3>1. disk # Absent /\ Completed(disk) = Tensors
      BY <2>4 DEF ManifestInv, ProcessInv, Running
    <3>2. Completed(disk)' = Completed(disk) BY <2>1 DEF Completed
    <3>3. ~IndexIsMap' BY <2>4 DEF IndexIsMap
    <3> QED BY <2>1, <2>4, <3>1, <3>2, <3>3 DEF IndexInv, IndexIsTrue
  <2> QED BY <1>7, <2>2, <2>3, <2>4 DEF Killed
<1>8. CASE UNCHANGED vars
  <2>1. UNCHANGED <<disk, files, index, pc, buffer, weightMap>> BY <1>8 DEF vars
  <2>2. Completed(disk)' = Completed(disk) BY <2>1 DEF Completed
  <2> QED BY <2>1, <2>2 DEF IndexInv, IndexIsTrue, IndexIsMap
<1> QED BY <1>1, <1>2, <1>3, <1>4, <1>5, <1>6, <1>7, <1>8 DEF Next

\* Without a fault every completed tensor is on its way into the index.
LEMMA FreshStep ==
  ManifestInv /\ ProcessInv /\ ShardInv /\ IndexInv /\ FreshInv /\ IndexInv' /\ [Next]_vars => FreshInv'
<1> SUFFICES ASSUME ManifestInv, ProcessInv, ShardInv, IndexInv, FreshInv, IndexInv', [Next]_vars,
                    faults' = 0
             PROVE  FreshInv'
  BY DEF FreshInv
<1>a. faults \in Nat /\ faults = 0 /\ (faults' = faults \/ faults' = faults + 1)
  <2>1. faults \in Nat BY PipelineAssumption DEF ManifestInv
  <2>2. faults' = faults \/ faults' = faults + 1
    BY DEF Next, Start, Skip, Quantize, FlushFull, Stage, MarkCompleted, FinalFlush, KeepIndex,
           BeginRename, RenameShard, WriteIndex, TensorFails, SaveFails, Killed, vars
  <2> QED BY <2>1, <2>2
<1>b. /\ index = Absent /\ ~Running => disk = Absent
      /\ index = Absent /\ Running =>
           DOMAIN weightMap \cup buffer = Completed(mem) \cup (IF pc = "mark" THEN {Current} ELSE {})
      /\ index # Absent => IndexIsMap /\ DOMAIN index = Tensors
  BY <1>a DEF FreshInv
<1>c. ASSUME index' = index, Running',
             index = Absent =>
               DOMAIN weightMap' \cup buffer'
                 = Completed(mem') \cup (IF pc' = "mark" THEN {Current'} ELSE {})
      PROVE  FreshInv'
  <2>1. Completed(mem)' = Completed(mem') BY DEF Completed
  <2>2. IndexIsMap' = IndexIsMap BY <1>c DEF IndexIsMap
  <2> QED BY <1>b, <1>c, <2>1, <2>2 DEF FreshInv
<1>1. CASE Start
  <2>1. /\ ~Running /\ index' = index /\ pc' = "loop" /\ UNCHANGED <<buffer, weightMap>>
        /\ mem' = (IF disk = Absent THEN InitialManifest ELSE disk)
    BY <1>1 DEF Start, Goto, writer
  <2>2. Running' BY <2>1 DEF Running
  <2>3. index = Absent => Completed(mem') = {} /\ buffer' = {} /\ DOMAIN weightMap' = {}
    BY <1>b, <2>1, InitialFacts DEF ProcessInv, Empty
  <2> QED BY <1>c, <2>1, <2>2, <2>3
<1>2. CASE Skip \/ Quantize \/ BeginRename \/ RenameShard
  <2>1. /\ Running /\ Running' /\ index' = index /\ pc # "mark" /\ pc' # "mark"
        /\ UNCHANGED <<buffer, mem>> /\ DOMAIN weightMap' = DOMAIN weightMap
    BY <1>2 DEF Skip, Quantize, BeginRename, RenameShard, LoopIsOver, Goto, writer, Running
  <2> QED BY <1>b, <1>c, <2>1
<1>3. CASE FlushFull \/ FinalFlush
  <2>1. /\ Running /\ Running' /\ index' = index /\ pc # "mark" /\ pc' # "mark" /\ mem' = mem
        /\ DOMAIN weightMap' = DOMAIN weightMap \cup buffer /\ buffer' = {}
    BY <1>3 DEF FlushFull, FinalFlush, Flush, Running
  <2> QED BY <1>b, <1>c, <2>1
<1>4. CASE Stage
  <2>1. /\ pc = "add" /\ pc' = "mark" /\ UNCHANGED <<index, mem, pos, weightMap>>
        /\ buffer' = buffer \cup {Current}
    BY <1>4 DEF Stage, Goto
  <2>2. Running /\ Running' /\ Current' = Current BY <2>1 DEF Running, Current
  <2> QED BY <1>b, <1>c, <2>1, <2>2
<1>5. CASE MarkCompleted
  <2>1. /\ pc = "mark" /\ pc' = "loop" /\ UNCHANGED <<index, buffer, weightMap>>
        /\ mem' = Marked(mem, Current)
    BY <1>5 DEF MarkCompleted, Goto, writer
  <2>2. Running /\ Running' BY <2>1 DEF Running
  <2>3. Current \in Tensors BY <2>1, CurrentFacts DEF ProcessInv
  <2>4. mem \in Manifest BY <2>2 DEF ManifestInv
  <2>5. Completed(mem') = Completed(mem) \cup {Current}
    BY <2>1, <2>3, <2>4 DEF Completed, Marked, Manifest
  <2> QED BY <1>b, <1>c, <2>1, <2>2, <2>5
<1>6. CASE KeepIndex
  <2>1. index' = index /\ index # Absent BY <1>6 DEF KeepIndex, onDisk
  <2>2. IndexIsMap' = IndexIsMap BY <2>1 DEF IndexIsMap
  <2> QED BY <1>b, <2>1, <2>2 DEF FreshInv
<1>7. CASE WriteIndex
  <2>1. pc = "rename" /\ pc' = "done" /\ index' = weightMap BY <1>7 DEF WriteIndex, Ends
  <2>2. Running /\ buffer = {} /\ Completed(mem) = Tensors BY <2>1 DEF Running, ProcessInv
  <2>3. index = Absent BY <2>1, <2>2, NothingIsLeft
  <2>4. DOMAIN index' = Tensors BY <1>b, <2>1, <2>2, <2>3
  <2>5. IndexIsMap' BY <2>1 DEF IndexInv
  <2> QED BY <2>4, <2>5 DEF FreshInv, IndexIsMap
<1>8. CASE TensorFails \/ SaveFails \/ Killed
  <2>1. faults' = faults + 1 BY <1>8 DEF TensorFails, SaveFails, Killed
  <2> QED BY <1>a, <2>1
<1>9. CASE UNCHANGED vars
  <2>1. UNCHANGED <<index, disk, weightMap, buffer, mem, pc, pos>> BY <1>9 DEF vars
  <2> QED BY <1>a, <1>9, <2>1 DEF FreshInv, Running, Completed, Current, IndexIsMap
<1> QED BY <1>1, <1>2, <1>3, <1>4, <1>5, <1>6, <1>7, <1>8, <1>9 DEF Next

-----------------------------------------------------------------------------
(* What follows.                                                           *)

\* Every reachable state satisfies the invariant.
LEMMA InvHolds == Spec => []Inv
<1>1. Inv /\ [Next]_vars => Inv'
  <2> SUFFICES ASSUME Inv, [Next]_vars PROVE Inv' OBVIOUS
  <2> USE DEF Inv
  <2>1. ManifestInv' BY ManifestStep
  <2>2. ProcessInv'
    <3>1. written \in 0..Len(Order) BY DEF ShardInv
    <3> QED BY <3>1, ProcessStep
  <2>3. ShardInv' BY ShardStep
  <2>4. SizeInv' BY SizeStep
  <2>5. IndexInv' BY IndexStep
  <2>6. FreshInv' BY <2>5, FreshStep
  <2> QED BY <2>1, <2>2, <2>3, <2>4, <2>5, <2>6
<1> QED BY <1>1, InvInit, PTL DEF Spec

\* After any kills, exceptions and resumed runs, each entry of an index that
\* can be read names a shard that holds the tensor; until then what a process
\* has flushed is where its weight map says; and no shard of several tensors
\* exceeds the staging limit (ShardWriter.flush, finalize).
THEOREM IndexIsSound == Spec => []IndexSound
<1>1. Inv => IndexSound
  <2> SUFFICES ASSUME Inv PROVE IndexSound OBVIOUS
  <2> USE DEF Inv
  <2>1. TypeOK
    <3>1. disk \in Manifest \cup {Absent} /\ faults \in 0..MaxFaults /\ mem \in Manifest \cup {Absent}
      BY DEF ManifestInv
    <3>2. /\ pc \in {"off", "loop", "add", "mark", "rename", "done", "failed"}
          /\ pos \in 1 .. Len(Order) + 1
      BY DEF ProcessInv
    <3>3. /\ DOMAIN files \subseteq Names /\ \A n \in DOMAIN files : files[n] \subseteq Tensors
          /\ buffer \subseteq Tensors /\ written \in 0..Len(Order)
          /\ DOMAIN weightMap \subseteq Tensors /\ Range(weightMap) \subseteq Names
      BY DEF ShardInv, Range
    <3>4. index \in {Absent, Torn} \/ (DOMAIN index \subseteq Tensors /\ Range(index) \subseteq Names)
      BY DEF IndexInv, Range
    <3> QED BY <3>1, <3>2, <3>3, <3>4 DEF TypeOK
  <2>2. FlushedIsKept BY DEF ShardInv
  <2>3. IndexIsTrue BY DEF IndexInv
  <2>4. ShardIsBounded BY DEF SizeInv, Small, ShardIsBounded
  <2> QED BY <2>1, <2>2, <2>3, <2>4 DEF IndexSound
<1> QED BY <1>1, InvHolds, PTL

\* A job that no fault interrupted leaves an index of all its tensors and a
\* manifest that counts each of them (QuantizationPipeline.run, is_complete).
THEOREM FreshRunsAreWhole == Spec => []FreshRunIsWhole
<1>1. Inv => FreshRunIsWhole
  <2> SUFFICES ASSUME Inv, pc = "done", faults = 0
               PROVE  IndexIsMap /\ DOMAIN index = Tensors /\ disk.completed = Len(Order)
    BY DEF FreshRunIsWhole
  <2>1. IndexIsMap /\ index # Absent BY DEF Inv, IndexInv, IndexIsMap
  <2>2. DOMAIN index = Tensors BY <2>1 DEF Inv, FreshInv
  <2>3. disk # Absent /\ Completed(disk) = Tensors BY <2>1 DEF Inv, IndexInv
  <2>4. /\ Cardinality(Tensors) <= disk.completed /\ disk.completed <= Cardinality(Tensors) + 0
        /\ disk.completed \in Nat
    BY <2>3, PipelineAssumption DEF Inv, ManifestInv, Manifest
  <2> QED BY <2>1, <2>2, <2>4, OrderFacts
<1> QED BY <1>1, InvHolds, PTL

\* Neither the handler of an exception nor a resumed run takes back a tensor
\* that the saved manifest calls completed (PipelineManifest.mark_failed).
THEOREM CompletedIsForGood == Spec => CompletedStays
<1>1. Inv /\ [Next]_vars =>
        (disk # Absent =>
           /\ disk' # Absent
           /\ \A t \in Tensors : disk.status[t] = "completed" => disk'.status[t] = "completed")
  <2> SUFFICES ASSUME Inv, [Next]_vars, disk # Absent
               PROVE  /\ disk' # Absent
                      /\ \A t \in Tensors : disk.status[t] = "completed" => disk'.status[t] = "completed"
    OBVIOUS
  <2> USE DEF Inv
  <2>1. CASE disk' = disk BY <2>1
  <2>2. CASE Start BY <2>2 DEF Start
  <2>3. CASE MarkCompleted
    <3>1. pc = "mark" /\ mem = disk /\ disk' = Marked(mem, Current) /\ disk \in Manifest
      BY <2>3 DEF MarkCompleted, ManifestInv, Running
    <3>2. Current \in Tensors BY <3>1, CurrentFacts DEF ProcessInv
    <3>3. \A t \in Tensors : disk.status[t] = "completed" => disk'.status[t] = "completed"
      BY <3>1, <3>2 DEF Marked, Manifest
    <3>4. disk' # Absent
      <4>1. ManifestInv' BY ManifestStep
      <4>2. Running' BY <2>3 DEF MarkCompleted, Goto, Running
      <4> QED BY <4>1, <4>2 DEF ManifestInv
    <3> QED BY <3>3, <3>4
  <2>4. CASE TensorFails \/ SaveFails
    <3>1. disk' \in Manifest /\ Completed(disk') = Completed(disk) BY <2>4, FailedDisk
    <3>2. disk' # Absent BY <3>1, PipelineAssumption
    <3> QED BY <3>1, <3>2 DEF Completed
  <2>5. disk' = disk \/ Start \/ MarkCompleted \/ TensorFails \/ SaveFails
    BY DEF Next, Skip, Quantize, FlushFull, Stage, FinalFlush, KeepIndex, BeginRename, RenameShard,
           WriteIndex, Killed, vars, onDisk
  <2> QED BY <2>1, <2>2, <2>3, <2>4, <2>5
<1> QED BY <1>1, InvHolds, PTL DEF Spec, CompletedStays

\* Once the index is there, running the job again changes neither the shards
\* nor the index: nothing is quantized, and finalize returns early.
THEOREM RerunsChangeNothing == Spec => RerunChangesNothing
<1>1. Inv /\ [Next]_vars => (IndexIsMap => UNCHANGED <<files, index>>)
  <2> SUFFICES ASSUME Inv, [Next]_vars, IndexIsMap PROVE UNCHANGED <<files, index>>
    OBVIOUS
  <2>1. index # Absent BY DEF IndexIsMap
  <2>2. Running => /\ pc = "loop" /\ buffer = {} /\ NothingWritten
                   /\ pos <= Len(Order) => Finished(Current)
    BY <2>1, NothingIsLeft DEF Inv
  <2>3. CASE Start \/ Skip \/ KeepIndex \/ UNCHANGED vars
    BY <2>3 DEF Start, Skip, KeepIndex, onDisk, vars
  <2>4. CASE Quantize \/ FlushFull \/ Stage \/ MarkCompleted \/ FinalFlush \/ BeginRename
             \/ RenameShard \/ WriteIndex \/ TensorFails \/ SaveFails
    BY <2>1, <2>2, <2>4 DEF Quantize, FlushFull, Stage, MarkCompleted, FinalFlush, BeginRename,
       LoopIsOver, RenameShard, WriteIndex, TensorFails, SaveFails, Running
  <2>5. CASE Killed BY <2>2, <2>5 DEF Killed, Flushing
  <2> QED BY <2>3, <2>4, <2>5 DEF Next
<1> QED BY <1>1, InvHolds, PTL DEF Spec, RerunChangesNothing

-----------------------------------------------------------------------------
(* The scan of the headers.                                                *)

Done(i) == tasks[i].state \in {"done", "taken"}
Taken(i, result) == tasks[i].state = "taken" /\ tasks[i].result = result

\* One task for every shard, no more than the pool has threads for at work.
TasksInv ==
  /\ tasks \in [DOMAIN shards -> [state : {"queued", "running", "done", "taken"},
                                  tries : Int, result : {"none", "header", "empty", "error"}]]
  /\ \A i \in DOMAIN shards : tasks[i].tries < Attempts
  /\ IsFiniteSet({i \in DOMAIN tasks : Fetching(i)})
  /\ Cardinality({i \in DOMAIN tasks : Fetching(i)}) <= MaxWorkers

\* What a thread brings: a header of a file that is there; nothing, where a table
\* does not mind.
ResultsInv ==
  \A i \in DOMAIN shards :
    /\ Done(i) => tasks[i].result # "none"
    /\ tasks[i].result = "header" => shards[i] \in DOMAIN Files
    /\ tasks[i].result = "empty" => scanJob.table /\ (scanJob.local \/ ~scanJob.strict)

\* What the caller has taken is in the inventory, or among the failures, or ends
\* the call.
TakenInv ==
  /\ \A i \in DOMAIN shards :
       /\ Taken(i, "header") => DOMAIN Files[shards[i]].tensors \subseteq DOMAIN inventory
       /\ Taken(i, "error") => IF scanJob.table THEN scanPhase \in {"leave", "raised"}
                                ELSE shards[i] \in failures
  /\ failures \subseteq ToSet(shards)
  /\ scanPhase = "returned" =>
       /\ \A i \in DOMAIN shards : tasks[i].state = "taken"
       /\ ~(~scanJob.table /\ scanJob.strict /\ failures # {})

\* An address is that of a tensor of a header.
Found(s, n) == s \in DOMAIN Files /\ n \in DOMAIN Files[s].tensors
InventoryInv ==
  \A n \in DOMAIN inventory :
    Found(inventory[n].shard, n) /\ inventory[n] = Address(inventory[n].shard, n)

CallInv ==
  /\ scanJob \in ScanJobs
  /\ scanPhase \in {"start", "collect", "leave", "returned", "raised"}
  /\ DOMAIN published.map \subseteq Nat
  /\ scanPhase = "start" => shards = <<>> /\ read = NoRead

ScanInv ==
  /\ CallInv /\ TasksInv /\ ResultsInv /\ TakenInv /\ InventoryInv
  /\ CleanScanIsTrue /\ ReadBytesAreExact

\* The empty sequence has no index and no member.
LEMMA EmptyDomain == DOMAIN <<>> = {} /\ ToSet(<<>>) = {}
<1>1. <<>> \in Seq({}) /\ Len(<<>>) = 0 OBVIOUS
<1>2. DOMAIN <<>> = 1..0 BY <1>1
<1>3. 1..0 = {} OBVIOUS
<1> QED BY <1>2, <1>3 DEF ToSet

\* A scan starts in the invariant: nothing is submitted and nothing is read.
LEMMA ScanInvInit == ScanInit => ScanInv
<1> SUFFICES ASSUME ScanInit PROVE ScanInv OBVIOUS
<1>0. /\ scanPhase = "start" /\ scanJob \in ScanJobs /\ published = NoIndex /\ shards = <<>>
      /\ tasks = <<>> /\ inventory = <<>> /\ failures = {} /\ report = {} /\ read = NoRead
  BY DEF ScanInit, ScanBlank
<1>1. CallInv BY <1>0, EmptyDomain DEF CallInv, NoIndex
<1>2. TasksInv
  <2>1. {i \in DOMAIN tasks : Fetching(i)} = {} BY <1>0, EmptyDomain
  <2>2. IsFiniteSet({}) /\ Cardinality({}) = 0 BY FS_EmptySet
  <2>3. 0 <= MaxWorkers BY ScanAssumption
  <2>4. tasks \in [{} -> [state : {"queued", "running", "done", "taken"},
                          tries : Int, result : {"none", "header", "empty", "error"}]]
    <3>1. <<>> = [i \in {} |-> 0] BY EmptyDomain
    <3> QED BY <1>0, <3>1
  <2> QED BY <1>0, <2>1, <2>2, <2>3, <2>4, EmptyDomain DEF TasksInv
<1>3. ResultsInv /\ TakenInv /\ InventoryInv
  BY <1>0, EmptyDomain DEF ResultsInv, TakenInv, InventoryInv
<1>4. CleanScanIsTrue /\ ReadBytesAreExact BY <1>0 DEF CleanScanIsTrue, ReadBytesAreExact
<1> QED BY <1>1, <1>2, <1>3, <1>4 DEF ScanInv

TaskType == [state : {"queued", "running", "done", "taken"}, tries : Int,
             result : {"none", "header", "empty", "error"}]

\* What the invariant says of the tasks and of the files they read.
LEMMA ScanFacts ==
  ASSUME ScanInv
  PROVE  /\ tasks \in [DOMAIN shards -> TaskType] /\ DOMAIN tasks = DOMAIN shards
         /\ MaxWorkers \in Nat \ {0} /\ DetailLimit \in Nat \ {0} /\ Attempts \in Int
         /\ scanJob \in ScanJobs
         /\ \A s \in DOMAIN Files :
              /\ Files[s].header \in Nat
              /\ \A n \in DOMAIN Files[s].tensors : n \in Nat /\ Files[s].tensors[n] \in Declared
<1>1. scanJob \in ScanJobs BY DEF ScanInv, CallInv
<1>2. tasks \in [DOMAIN shards -> TaskType] BY DEF ScanInv, TasksInv, TaskType
<1>3. scanJob.retries \in Int BY <1>1, ScanAssumption
<1>4. Attempts \in Int BY <1>3 DEF Attempts
<1>5. \A s \in DOMAIN Files :
        /\ Files[s].header \in Nat
        /\ \A n \in DOMAIN Files[s].tensors : n \in Nat /\ Files[s].tensors[n] \in Declared
  BY <1>1, ScanAssumption DEF Files
<1> QED BY <1>1, <1>2, <1>4, <1>5, ScanAssumption

\* A pool with nothing to do yet.
LEMMA SubmitKeeps ==
  ASSUME ScanInv, scanPhase = "start", NEW chosen, Submit(chosen),
         DOMAIN published'.map \subseteq Nat
  PROVE  ScanInv'
<1>0. /\ shards' = chosen /\ scanPhase' = "collect"
      /\ tasks' = [i \in DOMAIN chosen |-> [state |-> "queued", tries |-> 0, result |-> "none"]]
      /\ UNCHANGED <<scanJob, inventory, failures, report, read>>
  BY DEF Submit
<1>1. CallInv' BY <1>0 DEF ScanInv, CallInv
<1>2. \A i \in DOMAIN shards' : tasks'[i] = [state |-> "queued", tries |-> 0, result |-> "none"]
  BY <1>0
<1>3. TasksInv'
  <2>1. tasks' \in [DOMAIN shards' -> TaskType] BY <1>0 DEF TaskType
  <2>2. {i \in DOMAIN tasks' : Fetching(i)'} = {} BY <1>0, <1>2 DEF Fetching
  <2>3. IsFiniteSet({}) /\ Cardinality({}) = 0 /\ 0 <= MaxWorkers BY FS_EmptySet, ScanFacts
  <2>4. scanJob.retries \in Int BY ScanFacts, ScanAssumption
  <2>5. 0 < Attempts' BY <1>0, <2>4 DEF Attempts
  <2> QED BY <1>2, <2>1, <2>2, <2>3, <2>5 DEF TasksInv, TaskType
<1>4. ResultsInv' BY <1>0, <1>2 DEF ResultsInv, Done
<1>5. TakenInv'
  <2>1. shards = <<>> /\ failures \subseteq ToSet(shards) BY DEF ScanInv, CallInv, TakenInv
  <2>2. failures' \subseteq ToSet(shards') BY <1>0, <2>1, EmptyDomain
  <2> QED BY <1>0, <1>2, <2>2 DEF TakenInv, Taken
<1>6. InventoryInv'
  <2>1. InventoryInv BY DEF ScanInv
  <2> QED BY <1>0, <2>1 DEF InventoryInv, Found, Files, Address
<1>7. CleanScanIsTrue' BY <1>0 DEF CleanScanIsTrue
<1>8. ReadBytesAreExact'
  <2>1. read' = NoRead BY <1>0 DEF ScanInv, CallInv
  <2> QED BY <2>1 DEF ReadBytesAreExact, NoRead
<1> QED BY <1>1, <1>3, <1>4, <1>5, <1>6, <1>7, <1>8 DEF ScanInv

\* The published index, or none, names tensors.
LEMMA FetchedMaps ==
  ASSUME ScanInv, published' \in Fetched
  PROVE  DOMAIN published'.map \subseteq Nat
<1>1. scanJob \in ScanJobs BY ScanFacts
<1>2. DOMAIN scanJob.map \subseteq Nat BY <1>1, ScanAssumption
<1>3. published' = [map |-> scanJob.map, total |-> scanJob.total] \/ published' = NoIndex BY DEF Fetched
<1> QED BY <1>2, <1>3, EmptyDomain DEF NoIndex

\* Nothing was read that would have to be true: what the call does next leaves
\* the repository, the index, the inventory and the failures alone.
LEMMA InvFrame ==
  ASSUME ScanInv, UNCHANGED <<scanJob, published, shards, inventory, failures, report, read>>,
         TasksInv', ResultsInv', TakenInv',
         scanPhase' \in {"collect", "leave", "returned", "raised"},
         scanPhase' = "returned" => scanPhase = "returned"
  PROVE  ScanInv'
<1>1. CallInv' BY DEF ScanInv, CallInv
<1>2. InventoryInv'
  <2>1. InventoryInv BY DEF ScanInv
  <2> QED BY <2>1 DEF InventoryInv, Found, Files, Address
<1>3. CleanScanIsTrue'
  <2>1. CleanScanIsTrue BY DEF ScanInv
  <2> QED BY <2>1 DEF CleanScanIsTrue, Files, Address
<1>4. ReadBytesAreExact'
  <2>1. ReadBytesAreExact BY DEF ScanInv
  <2> QED BY <2>1 DEF ReadBytesAreExact, Files
<1> QED BY <1>1, <1>2, <1>3, <1>4 DEF ScanInv

\* A task goes on, but is not taken.
LEMMA TaskKeeps ==
  ASSUME ScanInv, scanPhase \in {"collect", "leave", "raised"}, NEW i \in DOMAIN tasks, NEW r \in TaskType,
         tasks' = [tasks EXCEPT ![i] = r],
         UNCHANGED <<scanPhase, scanJob, published, shards, inventory, failures, report, read>>,
         r.state # "taken", r.tries < Attempts,
         r.state = "done" => r.result # "none",
         r.result = "header" => Present(i),
         r.result = "empty" => scanJob.table /\ (scanJob.local \/ ~scanJob.strict),
         r.state = "running" =>
           Fetching(i) \/ Cardinality({j \in DOMAIN tasks : Fetching(j)}) < MaxWorkers
  PROVE  ScanInv'
<1>0. /\ tasks \in [DOMAIN shards -> TaskType] /\ DOMAIN tasks = DOMAIN shards /\ i \in DOMAIN shards
      /\ tasks' \in [DOMAIN shards -> TaskType] /\ tasks'[i] = r
      /\ \A j \in DOMAIN shards : j # i => tasks'[j] = tasks[j]
      /\ DOMAIN tasks' = DOMAIN shards
  BY ScanFacts
<1>1. Attempts' = Attempts BY DEF Attempts
<1>2. TasksInv'
  <2> DEFINE R == {j \in DOMAIN tasks : Fetching(j)}
             S == {j \in DOMAIN tasks' : Fetching(j)'}
  <2>1. IsFiniteSet(R) /\ Cardinality(R) <= MaxWorkers /\ MaxWorkers \in Nat
        /\ \A j \in DOMAIN shards : tasks[j].tries < Attempts
    BY ScanFacts DEF ScanInv, TasksInv
  <2>2. Cardinality(R) \in Nat BY <2>1, FS_CardinalityType
  <2>3. S \subseteq R \union {i} BY <1>0 DEF Fetching
  <2>4. IsFiniteSet(S) /\ Cardinality(S) <= MaxWorkers
    <3>1. CASE i \in R \/ r.state # "running"
      <4>1. S \subseteq R BY <1>0, <3>1, <2>3 DEF Fetching
      <4>2. IsFiniteSet(S) /\ Cardinality(S) <= Cardinality(R) BY <4>1, <2>1, FS_Subset
      <4>3. Cardinality(S) \in Nat BY <4>2, FS_CardinalityType
      <4> QED BY <4>2, <4>3, <2>1, <2>2
    <3>2. CASE i \notin R /\ r.state = "running"
      <4>1. Cardinality(R) < MaxWorkers BY <3>2
      <4>2. IsFiniteSet(R \union {i}) /\ Cardinality(R \union {i}) = Cardinality(R) + 1
        BY <3>2, <2>1, FS_AddElement
      <4>3. IsFiniteSet(S) /\ Cardinality(S) <= Cardinality(R \union {i}) BY <4>2, <2>3, FS_Subset
      <4>4. Cardinality(S) \in Nat BY <4>3, FS_CardinalityType
      <4> QED BY <4>1, <4>2, <4>3, <4>4, <2>1, <2>2
    <3> QED BY <3>1, <3>2
  <2>5. \A j \in DOMAIN shards' : tasks'[j].tries < Attempts' BY <1>0, <1>1, <2>1
  <2> QED BY <1>0, <2>4, <2>5 DEF TasksInv, TaskType
<1>3. ResultsInv'
  <2>1. ResultsInv BY DEF ScanInv
  <2>2. ASSUME NEW j \in DOMAIN shards
        PROVE  /\ Done(j)' => tasks'[j].result # "none"
               /\ tasks'[j].result = "header" => shards[j] \in DOMAIN Files
               /\ tasks'[j].result = "empty" => scanJob.table /\ (scanJob.local \/ ~scanJob.strict)
    <3>1. CASE j = i BY <1>0, <3>1 DEF Done, Present
    <3>2. CASE j # i
      <4>1. tasks'[j] = tasks[j] BY <1>0, <3>2
      <4> QED BY <4>1, <2>1 DEF ResultsInv, Done
    <3> QED BY <3>1, <3>2
  <2> QED BY <2>2 DEF ResultsInv, Files
<1>4. TakenInv'
  <2>1. TakenInv BY DEF ScanInv
  <2>2. ASSUME NEW j \in DOMAIN shards, NEW result, Taken(j, result)' PROVE Taken(j, result)
    <3>1. j # i BY <1>0, <2>2 DEF Taken
    <3> QED BY <3>1, <1>0, <2>2 DEF Taken
  <2> QED BY <2>1, <2>2 DEF TakenInv, Files
<1> QED BY <1>2, <1>3, <1>4, InvFrame

\* A step of a thread: it begins, reads, fails, tries again or gives up. What
\* it brings is a result the invariant allows; nothing else changes.
LEMMA WorkKeeps ==
  ASSUME ScanInv, NEW i \in DOMAIN tasks, Work(i)
  PROVE  ScanInv'
<1> DEFINE t == tasks[i]
           Rest == <<scanPhase, scanJob, published, shards, inventory, failures, report, read>>
<1>0. /\ tasks \in [DOMAIN shards -> TaskType] /\ DOMAIN tasks = DOMAIN shards /\ i \in DOMAIN shards
      /\ t \in TaskType /\ t.tries \in Int /\ Attempts \in Int
  BY ScanFacts DEF TaskType
<1>1. /\ t.tries < Attempts
      /\ t.result = "header" => Present(i)
      /\ t.result = "empty" => scanJob.table /\ (scanJob.local \/ ~scanJob.strict)
  BY <1>0 DEF ScanInv, TasksInv, ResultsInv, Present
<1>2. t.state # "taken" => scanPhase \in {"collect", "leave", "raised"}
  <2>1. scanPhase = "start" => DOMAIN shards = {} BY EmptyDomain DEF ScanInv, CallInv
  <2> QED BY <1>0, <2>1 DEF ScanInv, CallInv, TakenInv
<1>e. ASSUME NEW result \in {"header", "empty", "error"}, Fetching(i), Ended(i, result),
             result = "header" => Present(i),
             result = "empty" => scanJob.table /\ (scanJob.local \/ ~scanJob.strict)
      PROVE  ScanInv'
  <2> DEFINE r == [t EXCEPT !.state = "done", !.result = result]
  <2>1. r \in TaskType /\ r.state = "done" /\ r.tries = t.tries /\ r.result = result
    BY <1>0 DEF TaskType
  <2>2. tasks' = [tasks EXCEPT ![i] = r] /\ UNCHANGED Rest BY <1>0, <1>e DEF Ended
  <2>3. scanPhase \in {"collect", "leave", "raised"} BY <1>2, <1>e DEF Fetching
  <2> HIDE DEF r
  <2> QED BY <1>1, <1>e, <2>1, <2>2, <2>3, TaskKeeps
<1>3. CASE Begin(i)
  <2> DEFINE r == [t EXCEPT !.state = "running"]
  <2>1. r \in TaskType /\ r.state = "running" /\ r.tries = t.tries /\ r.result = t.result
    BY <1>0 DEF TaskType
  <2>2. /\ scanPhase \in {"collect", "leave"} /\ tasks' = [tasks EXCEPT ![i] = r]
        /\ Cardinality({j \in DOMAIN tasks : Fetching(j)}) < MaxWorkers /\ UNCHANGED Rest
    BY <1>0, <1>3 DEF Begin
  <2> HIDE DEF r
  <2> QED BY <1>1, <2>1, <2>2, TaskKeeps
<1>4. CASE ReadsHeader(i)
  <2>1. Present(i) BY <1>4 DEF ReadsHeader, Readable, RemotelyReadable, LocallyReadable
  <2> QED BY <1>4, <1>e, <2>1 DEF ReadsHeader
<1>5. CASE LocalMissing(i) BY <1>5, <1>e DEF LocalMissing
<1>6. CASE Retry(i)
  <2> DEFINE r == [t EXCEPT !.tries = t.tries + 1]
  <2>1. r \in TaskType /\ r.state = t.state /\ r.tries = t.tries + 1 /\ r.result = t.result
    BY <1>0 DEF TaskType
  <2>2. /\ Fetching(i) /\ t.tries + 1 < Attempts /\ tasks' = [tasks EXCEPT ![i] = r] /\ UNCHANGED Rest
    BY <1>0, <1>6 DEF Retry, MayRaise
  <2>3. t.state = "running" /\ scanPhase \in {"collect", "leave", "raised"}
    BY <1>2, <2>2 DEF Fetching
  <2> HIDE DEF r
  <2> QED BY <1>1, <2>1, <2>2, <2>3, TaskKeeps
<1>7. CASE GiveUp(i) BY <1>7, <1>e DEF GiveUp, MayRaise
<1>8. CASE TableRaises(i) BY <1>8, <1>e DEF TableRaises, MayRaise
<1> QED BY <1>3, <1>4, <1>5, <1>6, <1>7, <1>8 DEF Work

\* Of all tasks only the one taken changes, and it is taken.
LEMMA TakeFacts ==
  ASSUME ScanInv, NEW i \in DOMAIN tasks, Take(i), UNCHANGED <<scanJob, shards>>
  PROVE  /\ TasksInv' /\ ResultsInv' /\ scanPhase = "collect" /\ i \in DOMAIN shards
         /\ \A j \in DOMAIN shards : \A result : Taken(j, result)' =>
              Taken(j, result) \/ (j = i /\ tasks[i].result = result)
<1> DEFINE r == [tasks[i] EXCEPT !.state = "taken"]
<1>0. /\ tasks \in [DOMAIN shards -> TaskType] /\ DOMAIN tasks = DOMAIN shards /\ i \in DOMAIN shards
      /\ tasks[i] \in TaskType
  BY ScanFacts
<1>1. scanPhase = "collect" /\ tasks[i].state = "done" /\ tasks' = [tasks EXCEPT ![i] = r]
  BY <1>0 DEF Take
<1>2. r \in TaskType /\ r.state = "taken" /\ r.tries = tasks[i].tries /\ r.result = tasks[i].result
  BY <1>0 DEF TaskType
<1> HIDE DEF r
<1>3. /\ tasks' \in [DOMAIN shards -> TaskType] /\ tasks'[i] = r /\ DOMAIN tasks' = DOMAIN shards
      /\ \A j \in DOMAIN shards : j # i => tasks'[j] = tasks[j]
  BY <1>0, <1>1, <1>2
<1>4. TasksInv'
  <2>1. TasksInv /\ Attempts' = Attempts BY DEF ScanInv, Attempts
  <2>2. {j \in DOMAIN tasks' : Fetching(j)'} = {j \in DOMAIN tasks : Fetching(j)}
    BY <1>0, <1>1, <1>2, <1>3 DEF Fetching
  <2>3. \A j \in DOMAIN shards : tasks'[j].tries < Attempts
    BY <1>2, <1>3, <2>1 DEF TasksInv
  <2> QED BY <1>3, <2>1, <2>2, <2>3 DEF TasksInv, TaskType
<1>5. ResultsInv'
  <2>1. ResultsInv BY DEF ScanInv
  <2>2. \A j \in DOMAIN shards : tasks'[j].result = tasks[j].result /\ (Done(j)' => Done(j))
    BY <1>1, <1>2, <1>3 DEF Done
  <2> QED BY <2>1, <2>2 DEF ResultsInv, Files
<1>6. ASSUME NEW j \in DOMAIN shards, NEW result, Taken(j, result)'
      PROVE  Taken(j, result) \/ (j = i /\ tasks[i].result = result)
  BY <1>2, <1>3, <1>6 DEF Taken
<1> QED BY <1>0, <1>1, <1>4, <1>5, <1>6

\* What a header says joins the inventory; where two speak of a tensor, the later wins.
LEMMA MergeKeeps ==
  ASSUME ScanInv, NEW s \in DOMAIN Files, inventory' = Merged(s), UNCHANGED scanJob
  PROVE  /\ InventoryInv'
         /\ DOMAIN inventory' = DOMAIN inventory \union DOMAIN Files[s].tensors
<1>0. InventoryInv BY DEF ScanInv
<1>1. DOMAIN inventory' = DOMAIN inventory \union DOMAIN Files[s].tensors BY DEF Merged
<1>2. ASSUME NEW n \in DOMAIN inventory'
      PROVE  Found(inventory'[n].shard, n) /\ inventory'[n] = Address(inventory'[n].shard, n)
  <2>1. CASE n \in DOMAIN Files[s].tensors
    <3>1. inventory'[n] = Address(s, n) BY <1>1, <1>2, <2>1 DEF Merged
    <3>2. inventory'[n].shard = s BY <3>1 DEF Address
    <3> QED BY <2>1, <3>1, <3>2 DEF Found
  <2>2. CASE n \notin DOMAIN Files[s].tensors
    <3>1. inventory'[n] = inventory[n] /\ n \in DOMAIN inventory BY <1>1, <1>2, <2>2 DEF Merged
    <3> QED BY <3>1, <1>0 DEF InventoryInv
  <2> QED BY <2>1, <2>2
<1> QED BY <1>1, <1>2 DEF InventoryInv, Found, Files, Address

\* The caller takes a result: a header goes into the inventory, a failure among
\* the failures, an exception ends the call.
LEMMA TakeKeeps ==
  ASSUME ScanInv, NEW i \in DOMAIN tasks, TakeHeader(i) \/ TakeFailure(i) \/ TakeException(i)
  PROVE  ScanInv'
<1>0. /\ Take(i) /\ UNCHANGED <<scanJob, shards, published, report, read>>
  BY DEF TakeHeader, TakeFailure, TakeException
<1>1. /\ TasksInv' /\ ResultsInv' /\ scanPhase = "collect" /\ i \in DOMAIN shards
      /\ \A j \in DOMAIN shards : \A result : Taken(j, result)' =>
           Taken(j, result) \/ (j = i /\ tasks[i].result = result)
  BY <1>0, TakeFacts
<1>2. TakenInv /\ ResultsInv /\ InventoryInv BY DEF ScanInv
<1>3. CASE TakeFailure(i)
  <2>1. /\ failures' = failures \union {shards[i]} /\ UNCHANGED <<scanPhase, inventory>>
        /\ ~scanJob.table /\ tasks[i].result = "error"
    BY <1>3 DEF TakeFailure
  <2>2. TakenInv' BY <1>0, <1>1, <1>2, <2>1 DEF TakenInv, ToSet, Files
  <2>3. CallInv' /\ InventoryInv' /\ CleanScanIsTrue' /\ ReadBytesAreExact'
    BY <1>0, <1>1, <2>1
       DEF ScanInv, CallInv, InventoryInv, Found, Files, Address, CleanScanIsTrue, ReadBytesAreExact
  <2> QED BY <1>1, <2>2, <2>3 DEF ScanInv
<1>4. CASE TakeException(i)
  <2>1. /\ scanPhase' = "leave" /\ UNCHANGED <<inventory, failures>>
        /\ scanJob.table /\ tasks[i].result = "error"
    BY <1>4 DEF TakeException
  <2>2. TakenInv' BY <1>0, <1>1, <1>2, <2>1 DEF TakenInv, Files
  <2> QED BY <1>0, <1>1, <2>1, <2>2, InvFrame
<1>5. CASE TakeHeader(i)
  <2>1. /\ UNCHANGED <<scanPhase, failures>> /\ tasks[i].result \in {"header", "empty"}
        /\ inventory' = IF tasks[i].result = "header" THEN Merged(shards[i]) ELSE inventory
    BY <1>5 DEF TakeHeader
  <2>2. tasks[i].result = "header" => shards[i] \in DOMAIN Files BY <1>1, <1>2 DEF ResultsInv
  <2>3. /\ InventoryInv'
        /\ DOMAIN inventory \subseteq DOMAIN inventory'
        /\ tasks[i].result = "header" => DOMAIN Files[shards[i]].tensors \subseteq DOMAIN inventory'
    <3>1. CASE tasks[i].result = "header" BY <1>0, <2>1, <2>2, <3>1, MergeKeeps
    <3>2. CASE tasks[i].result # "header"
      BY <1>0, <1>2, <2>1, <3>2 DEF InventoryInv, Found, Files, Address
    <3> QED BY <3>1, <3>2
  <2>4. TakenInv'
    <3>1. Files' = Files BY <1>0 DEF Files
    <3>2. ASSUME NEW j \in DOMAIN shards
          PROVE  /\ Taken(j, "header")' => DOMAIN Files[shards[j]].tensors \subseteq DOMAIN inventory'
                 /\ Taken(j, "error")' => IF scanJob.table THEN scanPhase \in {"leave", "raised"}
                                          ELSE shards[j] \in failures
      <4>1. ASSUME Taken(j, "header")' PROVE DOMAIN Files[shards[j]].tensors \subseteq DOMAIN inventory'
        <5>1. Taken(j, "header") \/ (j = i /\ tasks[i].result = "header") BY <1>1, <4>1
        <5>2. Taken(j, "header") => DOMAIN Files[shards[j]].tensors \subseteq DOMAIN inventory
          BY <1>2 DEF TakenInv
        <5> QED BY <5>1, <5>2, <2>3
      <4>2. ASSUME Taken(j, "error")' PROVE Taken(j, "error") BY <1>1, <2>1, <4>2
      <4> QED BY <1>2, <4>1, <4>2 DEF TakenInv
    <3> QED BY <1>0, <1>1, <1>2, <2>1, <3>1, <3>2 DEF TakenInv
  <2>5. CallInv' /\ CleanScanIsTrue' /\ ReadBytesAreExact'
    BY <1>0, <1>1, <2>1 DEF ScanInv, CallInv, Files, CleanScanIsTrue, ReadBytesAreExact
  <2> QED BY <1>1, <2>3, <2>4, <2>5 DEF ScanInv
<1> QED BY <1>3, <1>4, <1>5

\* Of a set of names that is not empty, at least one is listed.
LEMMA ListedFirst ==
  ASSUME NEW S \in SUBSET Nat, Listed(S) = {}
  PROVE  S = {}
<1> SUFFICES ASSUME S # {} PROVE FALSE OBVIOUS
<1>1. PICK n \in S : \A m \in S : n <= m BY LeastNumber
<1>2. {y \in S : y < n} = {}
  <2>1. ASSUME NEW y \in S PROVE ~(y < n) BY <1>1
  <2> QED BY <2>1
<1>3. Cardinality({y \in S : y < n}) = 0 BY <1>2, FS_EmptySet
<1>4. n \in Listed(S) BY <1>3, ScanAssumption DEF Listed
<1> QED BY <1>4

\* What is not reported is not there to report.
LEMMA CleanFinish ==
  ASSUME ScanInv, FinishScan, report' = {}, DOMAIN published.map # {}
  PROVE  /\ DOMAIN inventory = DOMAIN published.map
         /\ \A n \in DOMAIN inventory : inventory[n] = Address(published.map[n], n)
<1>1. /\ DOMAIN published.map \subseteq Nat
      /\ \A n \in DOMAIN inventory :
           Found(inventory[n].shard, n) /\ inventory[n] = Address(inventory[n].shard, n)
  BY DEF ScanInv, CallInv, InventoryInv
<1>2. DOMAIN inventory \subseteq Nat BY <1>1, ScanFacts DEF Found
<1>3. PICK misplaced \in Misplaced : report' = Compared \union misplaced BY DEF FinishScan
<1>4. Compared = {} /\ misplaced = {} BY <1>3
<1>5. /\ Finding("missing_tensor", Listed(DOMAIN published.map \ DOMAIN inventory)) = {}
      /\ Finding("extra_tensor", Listed(DOMAIN inventory \ DOMAIN published.map)) = {}
  BY <1>4 DEF Compared
<1>6. ASSUME NEW kind, NEW S, Finding(kind, S) = {} PROVE S = {} BY <1>6 DEF Finding
<1>7. DOMAIN published.map \ DOMAIN inventory = {} /\ DOMAIN inventory \ DOMAIN published.map = {}
  <2>1. /\ Listed(DOMAIN published.map \ DOMAIN inventory) = {}
        /\ Listed(DOMAIN inventory \ DOMAIN published.map) = {}
    BY <1>5, <1>6
  <2> QED BY <1>1, <1>2, <2>1, ListedFirst
<1>8. ASSUME NEW n \in DOMAIN inventory PROVE inventory[n].shard = published.map[n]
  <2> DEFINE wrong == {m \in DOMAIN published.map \cap DOMAIN inventory : inventory[m].shard # published.map[m]}
  <2>1. SUFFICES ASSUME wrong # {} PROVE FALSE BY <1>7
  <2>2. Misplaced = {Finding("shard_mismatch", {m}) : m \in wrong} BY <2>1 DEF Misplaced
  <2>3. PICK m \in wrong : misplaced = Finding("shard_mismatch", {m}) BY <1>3, <2>2
  <2> QED BY <1>4, <1>6, <2>3
<1> QED BY <1>1, <1>7, <1>8

\* The call ends when every task is taken: what it reports is all there is.
LEMMA FinishKeeps ==
  ASSUME ScanInv, FinishScan \/ StrictRaises \/ FinishTable
  PROVE  ScanInv'
<1>0. /\ UNCHANGED <<scanJob, published, shards, tasks, inventory, failures, read>>
      /\ \A i \in DOMAIN tasks : tasks[i].state = "taken"
      /\ scanPhase = "collect" /\ scanPhase' \in {"returned", "raised"}
  BY DEF FinishScan, StrictRaises, FinishTable, AllTaken
<1>1. TasksInv' /\ ResultsInv' /\ InventoryInv' /\ CallInv'
  <2>1. TasksInv /\ ResultsInv /\ InventoryInv /\ CallInv BY DEF ScanInv
  <2>2. Files' = Files /\ Attempts' = Attempts BY <1>0 DEF Files, Attempts
  <2>3. TasksInv' BY <1>0, <2>1, <2>2 DEF TasksInv, Fetching
  <2>4. ResultsInv' BY <1>0, <2>1, <2>2 DEF ResultsInv, Done
  <2>5. InventoryInv' BY <1>0, <2>1, <2>2 DEF InventoryInv, Found, Address
  <2>6. CallInv' BY <1>0, <2>1 DEF CallInv
  <2> QED BY <2>3, <2>4, <2>5, <2>6
<1>2. TakenInv'
  <2>1. TakenInv /\ DOMAIN tasks = DOMAIN shards BY ScanFacts DEF ScanInv
  <2>2. scanPhase' = "returned" => ~(~scanJob.table /\ scanJob.strict /\ failures # {})
    BY DEF FinishScan, StrictRaises, FinishTable
  <2>3. \A i \in DOMAIN shards :
          /\ Taken(i, "header") => DOMAIN Files[shards[i]].tensors \subseteq DOMAIN inventory
          /\ Taken(i, "error") => ~scanJob.table /\ shards[i] \in failures
    BY <1>0, <2>1 DEF TakenInv
  <2>4. \A i \in DOMAIN shards : \A result : Taken(i, result)' = Taken(i, result) BY <1>0 DEF Taken
  <2>5. Files' = Files BY <1>0 DEF Files
  <2>6. failures \subseteq ToSet(shards) BY <2>1 DEF TakenInv
  <2> QED BY <1>0, <2>1, <2>2, <2>3, <2>4, <2>5, <2>6 DEF TakenInv
<1>3. CleanScanIsTrue'
  <2>1. ASSUME scanPhase' = "returned", ~scanJob.table, report' = {}, DOMAIN published.map # {}
        PROVE  /\ DOMAIN inventory = DOMAIN published.map
               /\ \A n \in DOMAIN inventory : inventory[n] = Address(published.map[n], n)
    <3>1. FinishScan BY <2>1 DEF StrictRaises, FinishTable
    <3> QED BY <2>1, <3>1, CleanFinish
  <2> QED BY <1>0, <2>1 DEF CleanScanIsTrue, Files, Address
<1>4. ReadBytesAreExact'
  <2>1. ReadBytesAreExact BY DEF ScanInv
  <2> QED BY <1>0, <2>1 DEF ReadBytesAreExact, Files
<1> QED BY <1>1, <1>2, <1>3, <1>4 DEF ScanInv

\* The elements of a shape are the product of its dimensions.
LEMMA ElementsAreNat == ASSUME NEW shape \in Seq(Nat) PROVE Elements(shape) \in Nat
BY ProductIsNat DEF Elements, Product

\* A read that is exact leaves all as it was.
LEMMA ReadsKeep ==
  ASSUME ScanInv, scanPhase = "returned", NEW n \in DOMAIN inventory, NEW from, NEW to,
         NEW first \in Int, NEW amount \in Int, Reads(n, from, to, first, amount),
         from = inventory[n].start + first * inventory[n].width,
         to = inventory[n].start + (first + amount) * inventory[n].width
  PROVE  ScanInv'
<1> DEFINE a == inventory[n]  s == a.shard  t == Files[s].tensors[n]
<1>0. UNCHANGED <<scanPhase, scanJob, published, shards, tasks, inventory, failures, report>>
      /\ read' = [tensor |-> n, shard |-> s, from |-> from, to |-> to,
                  first |-> first, count |-> amount]
  BY DEF Reads
<1>1. a = Address(s, n) BY DEF ScanInv, InventoryInv
<1>2. /\ from = (Files[s].header + t.at) + first * t.width
      /\ to = (Files[s].header + t.at) + (first + amount) * t.width
  <2>1. a.start = Files[s].header + t.at /\ a.width = t.width BY <1>1 DEF Address
  <2>2. from = a.start + first * a.width /\ to = a.start + (first + amount) * a.width OBVIOUS
  <2> QED BY <2>1, <2>2
<1>3. Files' = Files /\ Attempts' = Attempts BY <1>0 DEF Files, Attempts
<1>4. ReadBytesAreExact'
  <2>1. /\ read'.tensor = n /\ read'.shard = s /\ read'.from = from /\ read'.to = to
        /\ read'.first = first /\ read'.count = amount
    BY <1>0
  <2> HIDE DEF a, s
  <2> QED BY <1>2, <1>3, <2>1 DEF ReadBytesAreExact
<1>5. TasksInv' /\ ResultsInv' /\ InventoryInv' /\ CallInv' /\ TakenInv' /\ CleanScanIsTrue'
  <2>1. TasksInv /\ ResultsInv /\ InventoryInv /\ CallInv /\ TakenInv /\ CleanScanIsTrue
    BY DEF ScanInv
  <2>3. TasksInv' BY <1>0, <1>3, <2>1 DEF TasksInv, Fetching
  <2>4. ResultsInv' BY <1>0, <1>3, <2>1 DEF ResultsInv, Done
  <2>5. InventoryInv' BY <1>0, <1>3, <2>1 DEF InventoryInv, Found, Address
  <2>6. CallInv' BY <1>0, <2>1 DEF CallInv
  <2>7. TakenInv' BY <1>0, <1>3, <2>1 DEF TakenInv, Taken
  <2>8. CleanScanIsTrue' BY <1>0, <1>3, <2>1 DEF CleanScanIsTrue, Address
  <2> QED BY <2>3, <2>4, <2>5, <2>6, <2>7, <2>8
<1> QED BY <1>4, <1>5 DEF ScanInv

\* A range as long as its elements has their stride.
LEMMA StrideIsExact ==
  ASSUME NEW k \in Nat \ {0}, NEW stride \in Int, NEW size \in Int, k * stride = k * size
  PROVE  stride = size
<1>1. k * (stride - size) = 0 OBVIOUS
<1> QED BY <1>1

\* The length of a part is a number, whatever the header declared.
LEMMA StrideIsInt == ASSUME NEW len \in Int, NEW parts \in Nat PROVE Stride(len, parts) \in Int
BY DEF Stride

\* Multiplication associates.
LEMMA Associates ==
  ASSUME NEW x \in Int, NEW y \in Int, NEW z \in Int
  PROVE  x * (y * z) = (x * y) * z
OBVIOUS

\* Reading a tensor, some of its rows or an expert of it asks for the bytes
\* from its first element to its last.
LEMMA ReadingKeeps ==
  ASSUME ScanInv, NEW n \in DOMAIN inventory, ReadTensor(n) \/ ReadSlice(n) \/ ReadExpert(n)
  PROVE  ScanInv'
<1> DEFINE a == inventory[n]
           w == a.width
           p == Elements(a.shape)
           q == Elements(Tail(a.shape))
<1>0. /\ scanPhase = "returned"
      /\ a = Address(a.shard, n) /\ Files[a.shard].tensors[n] \in Declared
      /\ Files[a.shard].header \in Nat
  BY ScanFacts DEF ReadTensor, ReadSlice, ReadExpert, Reading, ScanInv, InventoryInv, Found
<1>1. /\ a.shape \in Seq(Nat) /\ w \in Nat /\ a.start \in Int /\ a.end \in Int
  <2> DEFINE t == Files[a.shard].tensors[n]
  <2>1. t.shape \in Seq(Nat) /\ t.at \in Nat /\ t.len \in Int /\ t.width \in Nat
    BY <1>0 DEF Declared
  <2>2. /\ a.shape = t.shape /\ w = t.width
        /\ a.start = Files[a.shard].header + t.at /\ a.end = Files[a.shard].header + t.at + t.len
    <3> HIDE DEF t
    <3>1. Address(a.shard, n) = [shard |-> a.shard, shape |-> t.shape, width |-> t.width,
                                 start |-> Files[a.shard].header + t.at,
                                 end |-> Files[a.shard].header + t.at + t.len]
      BY DEF Address, t
    <3> QED BY <1>0, <3>1
  <2> HIDE DEF t
  <2> QED BY <1>0, <2>1, <2>2
<1>2. p \in Nat BY <1>1, ElementsAreNat
<1>3. a.shape # <<>> => q \in Nat /\ a.shape[1] \in Nat
  <2>1. a.shape # <<>> => Tail(a.shape) \in Seq(Nat) /\ a.shape[1] \in Nat BY <1>1
  <2> QED BY <2>1, ElementsAreNat
<1>l. ASSUME NEW first \in Int, NEW amount \in Int, LocalElements(n, first, amount) PROVE ScanInv'
  <2>1. Reads(n, a.start + first * w, a.start + (first + amount) * w, first, amount)
    BY <1>0, <1>l DEF LocalElements
  <2> QED BY <1>0, <2>1, ReadsKeep
<1>4. CASE ReadTensor(n)
  <2>1. CASE LocalElements(n, 0, p) BY <1>2, <1>l, <2>1
  <2>2. CASE RemoteRange(n, a.start, a.end, p) /\ Reads(n, a.start, a.end, 0, p)
    <3>1. a.end - a.start = p * w BY <2>2 DEF RemoteRange
    <3>2. a.start = a.start + 0 * w /\ a.end = a.start + (0 + p) * w
      BY <1>1, <1>2, <3>1
    <3> QED BY <1>0, <1>2, <2>2, <3>2, ReadsKeep
  <2> QED BY <1>4, <2>1, <2>2 DEF ReadTensor
<1>5. CASE ReadSlice(n)
  <2>1. q \in Nat /\ a.shape[1] \in Nat BY <1>3, <1>5 DEF ReadSlice
  <2> DEFINE stride == Stride(a.end - a.start, a.shape[1])
  <2>2. PICK from \in 0 .. a.shape[1] - 1, to \in 1 .. a.shape[1] :
          /\ from < to
          /\ \/ /\ RemoteRange(n, a.start + from * stride, a.start + to * stride, (to - from) * q)
                /\ Reads(n, a.start + from * stride, a.start + to * stride, from * q, (to - from) * q)
             \/ Reads(n, a.start + from * q * w, a.start + to * q * w, from * q, (to - from) * q)
             \/ LocalElements(n, from * q, (to - from) * q)
    BY <1>5 DEF ReadSlice
  <2>3. /\ from \in Nat /\ to \in Nat /\ to - from \in Nat \ {0}
    BY <2>1, <2>2
  <2>4. /\ from * q \in Int /\ (to - from) * q \in Int /\ q * w \in Int BY <1>1, <2>1, <2>3
  <2>5. /\ from * (q * w) = (from * q) * w
        /\ to * (q * w) = (from * q + (to - from) * q) * w
        /\ from * q * w = (from * q) * w
        /\ to * q * w = (from * q + (to - from) * q) * w
    <3> HIDE DEF q, w
    <3>1. from * q + (to - from) * q = to * q BY <1>1, <2>1, <2>3
    <3>2. from \in Int /\ to \in Int /\ q \in Int /\ w \in Int BY <1>1, <2>1, <2>3
    <3>3. from * (q * w) = (from * q) * w /\ to * (q * w) = (to * q) * w BY <3>2, Associates
    <3> QED BY <3>1, <3>3
  <2>6. CASE LocalElements(n, from * q, (to - from) * q) BY <1>l, <2>4, <2>6
  <2>7. CASE Reads(n, a.start + from * q * w, a.start + to * q * w, from * q, (to - from) * q)
    BY <1>0, <2>4, <2>5, <2>7, ReadsKeep
  <2>8. CASE /\ RemoteRange(n, a.start + from * stride, a.start + to * stride, (to - from) * q)
             /\ Reads(n, a.start + from * stride, a.start + to * stride, from * q, (to - from) * q)
    <3>1. stride \in Int
      <4>1. a.end - a.start \in Int BY <1>1
      <4> QED BY <2>1, <4>1, StrideIsInt
    <3>2. (a.start + to * stride) - (a.start + from * stride) = ((to - from) * q) * w
      BY <2>8 DEF RemoteRange
    <3>3. (to - from) * stride = (to - from) * (q * w)
      <4> HIDE DEF q, w, stride
      <4>1. (to - from) * stride = (a.start + to * stride) - (a.start + from * stride)
        BY <1>1, <2>3, <3>1
      <4>2. ((to - from) * q) * w = (to - from) * (q * w) BY <1>1, <2>1, <2>3
      <4> QED BY <3>2, <4>1, <4>2
    <3>4. stride = q * w BY <2>3, <2>4, <3>1, <3>3, StrideIsExact
    <3> QED BY <1>0, <2>4, <2>5, <2>8, <3>4, ReadsKeep
  <2> QED BY <2>2, <2>6, <2>7, <2>8
<1>6. CASE ReadExpert(n)
  <2>1. q \in Nat /\ a.shape[1] \in Nat
    <3>1. Len(a.shape) = 3 BY <1>6 DEF ReadExpert
    <3> QED BY <1>3, <3>1
  <2> DEFINE stride == Stride(a.end - a.start, a.shape[1])
  <2>2. PICK expert \in 0 .. a.shape[1] - 1 :
          \/ /\ RemoteRange(n, a.start + expert * stride, a.start + expert * stride + stride, q)
             /\ Reads(n, a.start + expert * stride, a.start + expert * stride + stride, expert * q, q)
          \/ LocalElements(n, expert * q, q)
    BY <1>6 DEF ReadExpert
  <2>3. expert \in Nat /\ expert * q \in Int /\ q * w \in Int BY <1>1, <2>1, <2>2
  <2>4. CASE LocalElements(n, expert * q, q) BY <1>l, <2>1, <2>3, <2>4
  <2>5. CASE /\ RemoteRange(n, a.start + expert * stride, a.start + expert * stride + stride, q)
             /\ Reads(n, a.start + expert * stride, a.start + expert * stride + stride, expert * q, q)
    <3>1. stride \in Int
      <4>1. a.end - a.start \in Int BY <1>1
      <4> QED BY <2>1, <4>1, StrideIsInt
    <3>2. (a.start + expert * stride + stride) - (a.start + expert * stride) = q * w
      BY <2>5 DEF RemoteRange
    <3>3. stride = q * w
      <4> HIDE DEF q, w, stride
      <4>1. expert * stride \in Int BY <2>3, <3>1
      <4> QED BY <1>1, <2>3, <3>1, <3>2, <4>1
    <3>4. expert * stride = (expert * q) * w /\ (expert * q) * w + q * w = (expert * q + q) * w
      <4> HIDE DEF q, w, stride
      <4> QED BY <1>1, <2>1, <2>3, <3>3
    <3>5. a.start + expert * stride + stride = a.start + (expert * q + q) * w
      <4>1. (expert * q) * w \in Int
        <5> HIDE DEF q, w
        <5> QED BY <1>1, <2>3
      <4> HIDE DEF q, w, stride
      <4> QED BY <1>1, <2>3, <3>3, <3>4, <4>1
    <3>6. Reads(n, a.start + (expert * q) * w, a.start + (expert * q + q) * w, expert * q, q)
      BY <2>5, <3>4, <3>5
    <3>7. q \in Int BY <2>1
    <3> HIDE DEF q
    <3> QED BY <1>0, <2>3, <3>6, <3>7, ReadsKeep
  <2> QED BY <2>2, <2>4, <2>5
<1> QED BY <1>4, <1>5, <1>6

\* Every step of a scan, and every reading after it, keeps the invariant.
LEMMA ScanInvNext == ScanInv /\ [ScanNext]_scanVars => ScanInv'
<1> SUFFICES ASSUME ScanInv, [ScanNext]_scanVars PROVE ScanInv' OBVIOUS
<1>0. TasksInv /\ ResultsInv /\ TakenInv BY DEF ScanInv
<1>1. CASE StartScan BY <1>1, FetchedMaps, SubmitKeeps DEF StartScan
<1>2. CASE StartTable BY <1>2, FetchedMaps, SubmitKeeps DEF StartTable
<1>3. CASE NothingToScan
  <2>1. /\ UNCHANGED <<scanJob, shards, tasks, inventory, failures, report, read>>
        /\ scanPhase = "start" /\ scanPhase' = "raised" /\ DOMAIN published'.map \subseteq Nat
    BY <1>3, FetchedMaps DEF NothingToScan
  <2>2. shards = <<>> /\ read = NoRead BY <2>1 DEF ScanInv, CallInv
  <2>3. CallInv' BY <2>1 DEF ScanInv, CallInv
  <2>4. TasksInv' BY <1>0, <2>1 DEF TasksInv, Fetching, Attempts
  <2>5. ResultsInv' BY <1>0, <2>1 DEF ResultsInv, Done, Files
  <2>6. TakenInv' BY <1>0, <2>1, <2>2, EmptyDomain DEF TakenInv, Taken
  <2>7. InventoryInv' BY <2>1 DEF ScanInv, InventoryInv, Found, Files, Address
  <2>8. CleanScanIsTrue' /\ ReadBytesAreExact' BY <2>1, <2>2 DEF CleanScanIsTrue, ReadBytesAreExact, NoRead
  <2> QED BY <2>3, <2>4, <2>5, <2>6, <2>7, <2>8 DEF ScanInv
<1>4. CASE \E i \in DOMAIN tasks : Work(i) BY <1>4, WorkKeeps
<1>5. CASE Collect BY <1>5, TakeKeeps DEF Collect
<1>6. CASE LeavePool
  <2>1. /\ UNCHANGED <<scanJob, published, shards, tasks, inventory, failures, report, read>>
        /\ scanPhase' = "raised" /\ scanPhase = "leave"
    BY <1>6 DEF LeavePool
  <2>2. TasksInv' BY <1>0, <2>1 DEF TasksInv, Fetching, Attempts
  <2>3. ResultsInv' BY <1>0, <2>1 DEF ResultsInv, Done, Files
  <2>4. TakenInv' BY <1>0, <2>1 DEF TakenInv, Taken, Files
  <2> QED BY <2>1, <2>2, <2>3, <2>4, InvFrame
<1>7. CASE FinishScan \/ StrictRaises \/ FinishTable BY <1>7, FinishKeeps
<1>8. CASE \E n \in DOMAIN inventory : ReadTensor(n) \/ ReadSlice(n) \/ ReadExpert(n)
  BY <1>8, ReadingKeeps
<1>9. CASE UNCHANGED scanVars
  <2>1. UNCHANGED <<scanPhase, scanJob, published, shards, tasks, inventory, failures, report, read>>
    BY <1>9 DEF scanVars
  <2>2. Files' = Files BY <2>1 DEF Files
  <2>3. TasksInv' BY <1>0, <2>1 DEF TasksInv, Fetching, Attempts
  <2>4. ResultsInv' BY <1>0, <2>1, <2>2 DEF ResultsInv, Done
  <2>5. TakenInv' BY <1>0, <2>1, <2>2 DEF TakenInv, Taken
  <2>6. CallInv' BY <2>1 DEF ScanInv, CallInv
  <2>7. InventoryInv' BY <2>1, <2>2 DEF ScanInv, InventoryInv, Found, Address
  <2>8. CleanScanIsTrue' BY <2>1, <2>2 DEF ScanInv, CleanScanIsTrue, Address
  <2>9. ReadBytesAreExact' BY <2>1, <2>2 DEF ScanInv, ReadBytesAreExact
  <2> QED BY <2>3, <2>4, <2>5, <2>6, <2>7, <2>8, <2>9 DEF ScanInv
<1> QED BY <1>1, <1>2, <1>3, <1>4, <1>5, <1>6, <1>7, <1>8, <1>9 DEF ScanNext, ScanRun

\* The invariant holds of every scan.
LEMMA ScanInvHolds == ScanSpec => []ScanInv
BY ScanInvInit, ScanInvNext, PTL DEF ScanSpec

\* What is whole or true follows from what was taken.
LEMMA ScanInvImplies == ScanInv => ScansAreTrue
<1> SUFFICES ASSUME ScanInv PROVE ScansAreTrue OBVIOUS
<1>0. TasksInv /\ ResultsInv /\ TakenInv /\ CallInv /\ DOMAIN tasks = DOMAIN shards
  BY ScanFacts DEF ScanInv
<1>1. ScanTypeOK
  <2>1. ASSUME NEW i \in DOMAIN tasks
        PROVE  /\ tasks[i].state \in {"queued", "running", "done", "taken"}
               /\ tasks[i].tries < Attempts
               /\ tasks[i].result \in {"none", "header", "empty", "error"}
    BY <1>0 DEF TasksInv
  <2> QED BY <1>0, <2>1 DEF ScanTypeOK, CallInv, TasksInv, TakenInv
<1>2. StrictIsWhole
  <2>1. SUFFICES ASSUME scanPhase = "returned", scanJob.strict, ~(scanJob.table /\ scanJob.local),
                        NEW s \in ToSet(shards)
                 PROVE  s \in DOMAIN Files /\ DOMAIN Files[s].tensors \subseteq DOMAIN inventory
    BY DEF StrictIsWhole
  <2>2. PICK i \in DOMAIN shards : s = shards[i] BY DEF ToSet
  <2>3. tasks[i].state = "taken" /\ (~scanJob.table => failures = {}) BY <1>0, <2>1 DEF TakenInv
  <2>4. tasks[i].result \in {"none", "header", "empty", "error"} BY <1>0 DEF TasksInv
  <2>5. tasks[i].result # "none" BY <1>0, <2>3 DEF ResultsInv, Done
  <2>6. tasks[i].result # "empty" BY <1>0, <2>1 DEF ResultsInv
  <2>7. tasks[i].result # "error" BY <1>0, <2>1, <2>3 DEF TakenInv, Taken
  <2>8. tasks[i].result = "header" BY <2>4, <2>5, <2>6, <2>7
  <2> QED BY <1>0, <2>2, <2>3, <2>8 DEF ResultsInv, TakenInv, Taken
<1> QED BY <1>1, <1>2 DEF ScansAreTrue, ScanInv

\* For every set of files, published index and number of threads: a scan that
\* returns with an index and reports nothing has found every tensor of it, and no
\* other, where the header of its shard says; a strict one has every tensor of
\* every shard; the pool is never larger than it may be; and what is read then is
\* exactly the bytes of the elements asked for (audit/headers.py,
\* metadata/tensor_index.py, streaming/reader.py).
THEOREM ScansStayTrue == ScanSpec => []ScansAreTrue
BY ScanInvHolds, ScanInvImplies, PTL

-----------------------------------------------------------------------------
(* The tiles of a tensor. First quotients that are rounded up.             *)

\* The quotient rounded up is enough, and less than one too many.
LEMMA CeilFacts ==
  ASSUME NEW a \in Nat, NEW b \in Nat \ {0}
  PROVE  /\ L!CeilDiv(a, b) \in Nat
         /\ a <= b * L!CeilDiv(a, b)
         /\ b * L!CeilDiv(a, b) <= a + b - 1
         /\ a > 0 => L!CeilDiv(a, b) > 0
BY RoundedUp, Zenon DEF L!CeilDiv

\* A quotient that is not exact is rounded up; whole parts in front raise it.
LEMMA CeilOfSum ==
  ASSUME NEW b \in Nat \ {0}, NEW n \in Nat, NEW k \in Nat
  PROVE  L!CeilDiv(b * n + k, b) = n + L!CeilDiv(k, b)
<1> DEFINE c == k + b - 1
<1>1. c \in Int OBVIOUS
<1> HIDE DEF c
<1>2. (b * n + c) \div b = n + (c \div b) BY <1>1, DivOfSum
<1>3. b * n \in Int BY TimesType
<1>4. (b * n + k) + b - 1 = b * n + c BY <1>3 DEF c
<1> QED BY <1>2, <1>4 DEF L!CeilDiv, c

-----------------------------------------------------------------------------
(* What a quantizer makes of some rows, and of some more below them.       *)

\* Rows that fill bytes, of codes of any width.
WholeBytes(rows) == rows % 8 = 0

Matrices == [rows : Nat, cols : Nat \ {0}, bits : 1 .. 8, sym : BOOLEAN, group : Nat \ {0}]
WithRows(m, r) == [m EXCEPT !.rows = r]

\* The first weight below so many rows.
Below(first, rows, m) == first + rows * m.cols

Groups(m) == L!CeilDiv(m.cols, m.group)
PaddedRow(m) == Groups(m) * m.group

\* The rows of a matrix: padded to whole groups, the same however many there are.
LEMMA RowFacts ==
  ASSUME NEW m \in Matrices
  PROVE  /\ Groups(m) \in Nat \ {0} /\ PaddedRow(m) \in Nat \ {0}
         /\ m.cols \in Nat \ {0} /\ m.group \in Nat \ {0}
         /\ \A r \in Nat : /\ WithRows(m, r) \in Matrices
                           /\ WithRows(m, r).rows = r /\ WithRows(m, r).cols = m.cols
                           /\ WithRows(m, r).bits = m.bits /\ WithRows(m, r).sym = m.sym
                           /\ WithRows(m, r).group = m.group
                           /\ Groups(WithRows(m, r)) = Groups(m)
                           /\ PaddedRow(WithRows(m, r)) = PaddedRow(m)
<1>1. m.cols \in Nat \ {0} /\ m.group \in Nat \ {0} BY DEF Matrices
<1>2. Groups(m) \in Nat \ {0} /\ m.cols <= m.group * Groups(m)
  <2>1. ASSUME NEW c \in Nat \ {0}, NEW g \in Nat \ {0}
        PROVE  L!CeilDiv(c, g) \in Nat \ {0} /\ c <= g * L!CeilDiv(c, g)
    BY CeilFacts
  <2> QED BY <1>1, <2>1 DEF Groups
<1>3. PaddedRow(m) \in Nat /\ PaddedRow(m) >= m.cols BY <1>1, <1>2, TimesNat, TimesType DEF PaddedRow
<1>4. ASSUME NEW r \in Nat
      PROVE  /\ WithRows(m, r) \in Matrices
             /\ WithRows(m, r).rows = r /\ WithRows(m, r).cols = m.cols
             /\ WithRows(m, r).bits = m.bits /\ WithRows(m, r).sym = m.sym
             /\ WithRows(m, r).group = m.group
  BY DEF Matrices, WithRows
<1>5. ASSUME NEW r \in Nat
      PROVE  /\ Groups(WithRows(m, r)) = Groups(m)
             /\ PaddedRow(WithRows(m, r)) = PaddedRow(m)
  BY <1>4 DEF Groups, PaddedRow
<1> QED BY <1>1, <1>2, <1>3, <1>4, <1>5

\* The weights of a matrix in the order of its codes; padding is nobody's.
LEMMA FlatFacts ==
  ASSUME NEW m \in Matrices, NEW k \in Nat
  PROVE  /\ L!Flat(m, k) \in Nat \cup {-1}
         /\ L!Flat(m, k) = IF k >= PaddedRow(m) * m.rows \/ k % PaddedRow(m) >= m.cols THEN -1
                           ELSE (k \div PaddedRow(m)) * m.cols + (k % PaddedRow(m))
<1> DEFINE P == PaddedRow(m)
<1>1. P \in Nat \ {0} /\ m.cols \in Nat /\ m.rows \in Nat BY RowFacts DEF Matrices
<1>2. P * m.rows = m.rows * P BY <1>1, TimesType
<1>3. L!Flat(m, k) = IF k >= m.rows * P \/ k % P >= m.cols THEN -1
                     ELSE (k \div P) * m.cols + (k % P)
  BY DEF L!Flat, PaddedRow, Groups
<1> HIDE DEF P
<1>4. k \div P \in Nat /\ k % P \in Nat BY <1>1, DivIsNat
<1>5. (k \div P) * m.cols \in Nat BY <1>1, <1>4, TimesNat
<1>6. L!Flat(m, k) \in Nat \cup {-1} BY <1>3, <1>4, <1>5
<1> QED BY <1>2, <1>3, <1>6 DEF P

\* The element behind a place of some rows is that of its row and column, none
\* in the padding and below the last row.
LEMMA FlatOfRows ==
  ASSUME NEW m \in Matrices, NEW r \in Nat, NEW k \in Nat
  PROVE  L!Flat(WithRows(m, r), k) =
           IF k >= PaddedRow(m) * r \/ k % PaddedRow(m) >= m.cols THEN -1
           ELSE (k \div PaddedRow(m)) * m.cols + (k % PaddedRow(m))
<1> DEFINE w == WithRows(m, r)
<1>1. /\ w \in Matrices /\ w.rows = r /\ w.cols = m.cols /\ PaddedRow(w) = PaddedRow(m)
  BY RowFacts
<1> HIDE DEF w
<1>2. L!Flat(w, k) = IF k >= PaddedRow(w) * w.rows \/ k % PaddedRow(w) >= w.cols THEN -1
                     ELSE (k \div PaddedRow(w)) * w.cols + (k % PaddedRow(w))
  BY <1>1, FlatFacts
<1> QED BY <1>1, <1>2 DEF w

\* Rows below do not move the weights of those above.
LEMMA FlatAbove ==
  ASSUME NEW m \in Matrices, NEW a \in Nat, NEW b \in Nat, NEW k \in Nat, k < PaddedRow(m) * a
  PROVE  L!Flat(WithRows(m, a + b), k) = L!Flat(WithRows(m, a), k)
<1> DEFINE P == PaddedRow(m)
<1>1. P \in Nat \ {0} /\ P * a \in Nat /\ P * (a + b) \in Nat /\ P * a <= P * (a + b)
  <2>1. P \in Nat \ {0} BY RowFacts
  <2> HIDE DEF P
  <2>2. P * a \in Nat /\ P * (a + b) \in Nat BY <2>1, TimesNat
  <2> QED BY <2>1, <2>2, TimesMonotone
<1>2. a + b \in Nat OBVIOUS
<1>3. ASSUME NEW r \in Nat
      PROVE  L!Flat(WithRows(m, r), k) = IF k >= P * r \/ k % P >= m.cols THEN -1
                                         ELSE (k \div P) * m.cols + (k % P)
  BY FlatOfRows
<1> HIDE DEF P
<1>4. ~(k >= P * a) /\ ~(k >= P * (a + b)) BY <1>1 DEF P
<1> QED BY <1>2, <1>3, <1>4

\* The weights of the rows below follow those of the rows above.
LEMMA FlatBelow ==
  ASSUME NEW m \in Matrices, NEW a \in Nat, NEW b \in Nat, NEW k \in Nat, NEW first \in Int
  PROVE  L!Weight(0, first, L!Flat(WithRows(m, a + b), PaddedRow(m) * a + k))
         = L!Weight(0, first + a * m.cols, L!Flat(WithRows(m, b), k))
<1> DEFINE P == PaddedRow(m)
           c == m.cols
           K == P * a + k
<1>1. P \in Nat \ {0} /\ c \in Nat /\ P * a \in Nat /\ P * b \in Nat
  BY RowFacts, TimesNat
<1>2. K \in Nat /\ a + b \in Nat BY <1>1
<1>3. ASSUME NEW r \in Nat, NEW n \in Nat
      PROVE  L!Flat(WithRows(m, r), n) = IF n >= P * r \/ n % P >= c THEN -1
                                         ELSE (n \div P) * c + (n % P)
  BY <1>3, FlatOfRows
<1>4. K \div P = a + (k \div P) /\ K % P = k % P
  <2> HIDE DEF P
  <2> QED BY <1>1, DivOfSum
<1>5. K >= P * (a + b) <=> k >= P * b
  <2>1. P * (a + b) = P * a + P * b BY <1>1
  <2> QED BY <1>1, <2>1
<1>6. k \div P \in Nat /\ k % P \in Nat BY <1>1, DivIsNat
<1>7. (a + (k \div P)) * c = a * c + (k \div P) * c
  <2> DEFINE d == k \div P
  <2>1. d \in Nat BY <1>6
  <2> HIDE DEF d
  <2>2. (a + d) * c = a * c + d * c BY <1>1, <2>1
  <2> QED BY <2>2 DEF d
<1>8. a * c \in Nat /\ (k \div P) * c \in Nat BY <1>1, <1>6, TimesNat
<1>9. L!Flat(WithRows(m, a + b), K) = IF K >= P * (a + b) \/ K % P >= c THEN -1
                                      ELSE (K \div P) * c + (K % P)
  BY <1>2, <1>3
<1>10. L!Flat(WithRows(m, b), k) = IF k >= P * b \/ k % P >= c THEN -1
                                   ELSE (k \div P) * c + (k % P)
  BY <1>3
<1> HIDE DEF P, c, K
<1>11. CASE k >= P * b \/ k % P >= c
  <2>1. L!Flat(WithRows(m, a + b), K) = -1 /\ L!Flat(WithRows(m, b), k) = -1
    BY <1>4, <1>5, <1>9, <1>10, <1>11
  <2> QED BY <2>1 DEF L!Weight, K, P
<1>12. CASE ~(k >= P * b \/ k % P >= c)
  <2> DEFINE x == (k \div P) * c
             y == k % P
             z == a * c
  <2>1. x \in Nat /\ y \in Nat /\ z \in Nat BY <1>6, <1>8
  <2>2. L!Flat(WithRows(m, a + b), K) = z + x + y
    <3>1. L!Flat(WithRows(m, a + b), K) = (K \div P) * c + (K % P) BY <1>4, <1>5, <1>9, <1>12
    <3>2. (K \div P) * c = z + x BY <1>4, <1>7
    <3> HIDE DEF x, y, z
    <3> QED BY <1>4, <3>1, <3>2 DEF y
  <2>3. L!Flat(WithRows(m, b), k) = x + y BY <1>10, <1>12
  <2> HIDE DEF x, y, z
  <2>4. first + (z + x + y) = (first + z) + (x + y) /\ z + x + y >= 0 /\ x + y >= 0 BY <2>1
  <2>5. L!Weight(0, first, z + x + y) = L!Weight(0, first + z, x + y)
    <3>1. ASSUME NEW f \in Int, NEW n \in Nat PROVE L!Weight(0, f, n) = <<0, f + n>>
      BY DEF L!Weight
    <3>2. z + x + y \in Nat /\ x + y \in Nat /\ first + z \in Int BY <2>1
    <3> QED BY <2>4, <3>1, <3>2
  <2> QED BY <2>2, <2>3, <2>5 DEF z, c, K, P
<1> QED BY <1>11, <1>12

PerByteOf(m) == L!PerByte(m.bits)
CodeCells(m) == {"codes"} \X [1 .. PerByteOf(m) -> Int \X Int] \X {0}
CodeCell(first, m, j) ==
  <<"codes", [i \in 1 .. PerByteOf(m) |->
                L!Weight(0, first, L!Flat(m, ((j - 1) * PerByteOf(m)) + i - 1))], 0>>

\* Eight rows are a whole number of bytes, whatever their width.
LEMMA PerByteFacts ==
  ASSUME NEW m \in Matrices
  PROVE  /\ PerByteOf(m) \in {1, 2, 4, 8} /\ PerByteOf(m) \in Nat \ {0}
         /\ \A r \in Nat : PerByteOf(WithRows(m, r)) = PerByteOf(m)
         /\ L!CeilDiv(0, PerByteOf(m)) = 0
         /\ \A n \in Nat : L!PackedBytes(n, m.bits) = L!CeilDiv(n, PerByteOf(m))
<1>1. m.bits \in 1 .. 8 BY DEF Matrices
<1>2. \A x \in 1 .. 8 : x = 1 \/ x = 2 \/ x = 3 \/ x = 4 \/ x = 5 \/ x = 6 \/ x = 7 \/ x = 8
  OBVIOUS
<1>3. \A x \in 1 .. 8 : 8 \div x \in {1, 2, 4, 8} BY <1>2
<1>4. PerByteOf(m) \in {1, 2, 4, 8} BY <1>1, <1>3 DEF PerByteOf, L!PerByte
<1>5. \A r \in Nat : PerByteOf(WithRows(m, r)) = PerByteOf(m) BY RowFacts DEF PerByteOf
<1>6. L!CeilDiv(0, PerByteOf(m)) = 0
  <2>1. \A x \in {1, 2, 4, 8} : (0 + x - 1) \div x = 0 OBVIOUS
  <2> QED BY <1>4, <2>1 DEF L!CeilDiv
<1>7. ASSUME NEW n \in Nat PROVE L!PackedBytes(n, m.bits) = L!CeilDiv(n, PerByteOf(m))
  <2>1. CASE m.bits = 8
    <3>1. PerByteOf(m) = 1 BY <2>1 DEF PerByteOf, L!PerByte
    <3>2. L!PackedBytes(n, m.bits) = n
      <4>1. (n * 8 + 8 - 1) \div 8 = n OBVIOUS
      <4> QED BY <2>1, <4>1 DEF L!PackedBytes, L!CeilDiv
    <3>3. L!CeilDiv(n, 1) = n BY DEF L!CeilDiv
    <3> QED BY <3>1, <3>2, <3>3
  <2>2. CASE m.bits # 8
    <3>1. ~(m.bits >= 8) BY <1>1, <2>2
    <3> QED BY <3>1 DEF L!PackedBytes, PerByteOf
  <2> QED BY <2>1, <2>2
<1> QED BY <1>4, <1>5, <1>6, <1>7

\* What a place takes its value from is a pair of numbers.
LEMMA WeightType ==
  ASSUME NEW m \in Matrices, NEW k \in Nat, NEW first \in Int
  PROVE  L!Weight(0, first, L!Flat(m, k)) \in Int \X Int
<1>1. L!Flat(m, k) \in Nat \cup {-1} BY FlatFacts
<1>2. ASSUME NEW n \in Nat \cup {-1} PROVE L!Weight(0, first, n) \in Int \X Int
  BY DEF L!Weight, L!Nobody
<1> QED BY <1>1, <1>2

\* The codes are cells that each hold the weights of one byte.
LEMMA CodesFacts ==
  ASSUME NEW m \in Matrices, NEW first \in Int
  PROVE  /\ L!Codes(0, first, m) \in Seq(CodeCells(m))
         /\ Len(L!Codes(0, first, m)) = L!CeilDiv(PaddedRow(m) * m.rows, PerByteOf(m))
         /\ Len(L!Codes(0, first, m)) \in Nat
         /\ \A j \in 1 .. Len(L!Codes(0, first, m)) :
              L!Codes(0, first, m)[j] = CodeCell(first, m, j)
<1> DEFINE P == PaddedRow(m)
           B == PerByteOf(m)
           n == L!CeilDiv(P * m.rows, B)
           c == [j \in 1 .. n |-> CodeCell(first, m, j)]
<1>1. P \in Nat \ {0} /\ B \in Nat \ {0} /\ m.rows \in Nat /\ m.bits \in 1 .. 8
      /\ Groups(m) \in Nat /\ m.group \in Nat
  BY RowFacts, PerByteFacts DEF Matrices
<1>2. P * m.rows \in Nat
  <2> HIDE DEF P
  <2> QED BY <1>1, TimesNat
<1>3. n \in Nat
  <2> HIDE DEF P, B
  <2> QED BY <1>1, <1>2, CeilFacts
<1>4. m.rows * Groups(m) * m.group = P * m.rows
  <2>1. ASSUME NEW x \in Nat, NEW y \in Nat, NEW z \in Nat PROVE x * y * z = (y * z) * x
    OBVIOUS
  <2> QED BY <1>1, <2>1 DEF PaddedRow
<1>5. L!PackedBytes(m.rows * L!CeilDiv(m.cols, m.group) * m.group, m.bits) = n
  <2> HIDE DEF P, B
  <2>1. L!PackedBytes(P * m.rows, m.bits) = n BY <1>2, PerByteFacts DEF B
  <2> QED BY <1>4, <2>1 DEF Groups
<1>6. L!Codes(0, first, m) = c
  <2>1. ~(m.bits >= 16) BY <1>1
  <2> HIDE DEF n
  <2> QED BY <1>5, <2>1 DEF L!Codes, CodeCell, PerByteOf
<1>7. ASSUME NEW j \in 1 .. n PROVE CodeCell(first, m, j) \in CodeCells(m)
  <2>1. ASSUME NEW i \in 1 .. B
        PROVE  L!Weight(0, first, L!Flat(m, ((j - 1) * B) + i - 1)) \in Int \X Int
    <3> HIDE DEF n, B
    <3>1. j - 1 \in Nat /\ i - 1 \in Nat BY <1>1, <1>3
    <3>2. (j - 1) * B \in Nat BY <1>1, <3>1, TimesNat
    <3>3. ((j - 1) * B) + i - 1 \in Nat BY <1>1, <3>1, <3>2
    <3> QED BY <3>3, WeightType
  <2> HIDE DEF n
  <2> QED BY <2>1 DEF CodeCell, CodeCells
<1> HIDE DEF n
<1>8. c \in Seq(CodeCells(m)) /\ Len(c) = n /\ \A j \in 1 .. n : c[j] = CodeCell(first, m, j)
  BY <1>3, <1>7
<1> HIDE DEF c
<1> QED BY <1>3, <1>6, <1>8 DEF n

CodesMeet(first, m, a, b) ==
  L!Codes(0, first, WithRows(m, a + b))
  = L!Codes(0, first, WithRows(m, a)) \o L!Codes(0, Below(first, a, m), WithRows(m, b))

\* The codes of eight rows, or of a multiple of it, end with a byte: those of
\* the rows below follow.
LEMMA CodesSplit ==
  ASSUME NEW m \in Matrices, NEW a \in Nat, NEW b \in Nat, WholeBytes(a), NEW first \in Int
  PROVE  CodesMeet(first, m, a, b)
<1> DEFINE P == PaddedRow(m)
           B == PerByteOf(m)
           s == L!Codes(0, first, WithRows(m, a + b))
           t == L!Codes(0, first, WithRows(m, a))
           low == first + a * m.cols
           u == L!Codes(0, low, WithRows(m, b))
<1>1. /\ P \in Nat \ {0} /\ B \in Nat \ {0} /\ B \in {1, 2, 4, 8} /\ m.cols \in Nat
      /\ a + b \in Nat /\ low \in Int
  <2>1. m.cols \in Nat /\ P \in Nat \ {0} BY RowFacts
  <2>2. a * m.cols \in Nat BY <2>1, TimesNat
  <2>3. B \in {1, 2, 4, 8} /\ B \in Nat \ {0} BY PerByteFacts
  <2> HIDE DEF P, B
  <2> QED BY <2>1, <2>2, <2>3
<1> DEFINE C(r) == L!CeilDiv(P * r, B)
<1> HIDE DEF low
<1>2. ASSUME NEW r \in Nat, NEW f \in Int
      PROVE  /\ L!Codes(0, f, WithRows(m, r)) \in Seq(CodeCells(m))
             /\ Len(L!Codes(0, f, WithRows(m, r))) = C(r)
             /\ \A j \in 1 .. C(r) : L!Codes(0, f, WithRows(m, r))[j] = CodeCell(f, WithRows(m, r), j)
  <2> DEFINE w == WithRows(m, r)
  <2>1. w \in Matrices /\ w.rows = r /\ PaddedRow(w) = P /\ PerByteOf(w) = B
    BY RowFacts, PerByteFacts
  <2> HIDE DEF w
  <2>2. /\ L!Codes(0, f, w) \in Seq(CodeCells(w))
        /\ Len(L!Codes(0, f, w)) = L!CeilDiv(PaddedRow(w) * w.rows, PerByteOf(w))
        /\ \A j \in 1 .. Len(L!Codes(0, f, w)) : L!Codes(0, f, w)[j] = CodeCell(f, w, j)
    BY <2>1, CodesFacts
  <2>3. CodeCells(w) = CodeCells(m) BY <2>1 DEF CodeCells
  <2> QED BY <2>1, <2>2, <2>3 DEF w
<1>3. PICK n \in Nat : P * a = B * n
  <2>1. PICK d \in Nat : 8 = B * d
    <3>1. 8 = 1 * 8 /\ 8 = 2 * 4 /\ 8 = 4 * 2 /\ 8 = 8 * 1 OBVIOUS
    <3> HIDE DEF B
    <3> QED BY <1>1, <3>1
  <2>2. a = 8 * (a \div 8) /\ a \div 8 \in Nat BY DEF WholeBytes
  <2> DEFINE e == a \div 8
  <2>3. a = (B * d) * e /\ e \in Nat BY <2>1, <2>2
  <2> HIDE DEF e, P, B
  <2>4. P * ((B * d) * e) = B * (P * (d * e)) BY <1>1, <2>1, <2>3
  <2>5. P * (d * e) \in Nat BY <1>1, <2>1, <2>3, TimesNat
  <2> QED BY <2>3, <2>4, <2>5
<1>4. C(a) = n
  <2> HIDE DEF P, B
  <2>1. L!CeilDiv(B * n + 0, B) = n + L!CeilDiv(0, B) BY <1>1, CeilOfSum
  <2>2. L!CeilDiv(0, B) = 0 BY PerByteFacts DEF B
  <2>3. B * n + 0 = B * n BY <1>1
  <2> QED BY <1>3, <2>1, <2>2, <2>3
<1>5. C(a + b) = n + C(b) /\ C(b) \in Nat
  <2> HIDE DEF P, B
  <2>1. P * b \in Nat BY <1>1, TimesNat
  <2>2. P * (a + b) = B * n + P * b
    <3>1. P * (a + b) = P * a + P * b BY <1>1
    <3> QED BY <1>3, <3>1
  <2>3. L!CeilDiv(B * n + P * b, B) = n + L!CeilDiv(P * b, B) BY <1>1, <2>1, CeilOfSum
  <2>4. L!CeilDiv(P * b, B) \in Nat BY <1>1, <2>1, CeilFacts
  <2> QED BY <2>2, <2>3, <2>4
<1> HIDE DEF C
<1>6. /\ s \in Seq(CodeCells(m)) /\ t \in Seq(CodeCells(m)) /\ u \in Seq(CodeCells(m))
      /\ Len(t) = n /\ Len(s) = Len(t) + Len(u) /\ Len(u) \in Nat
  BY <1>1, <1>2, <1>4, <1>5
<1>7. ASSUME NEW j \in 1 .. Len(t) PROVE s[j] = t[j]
  <2>1. ASSUME NEW i \in 1 .. B
        PROVE  /\ ((j - 1) * B) + i - 1 \in Nat
               /\ L!Flat(WithRows(m, a + b), ((j - 1) * B) + i - 1)
                  = L!Flat(WithRows(m, a), ((j - 1) * B) + i - 1)
    <3> DEFINE k == ((j - 1) * B) + i - 1
    <3> HIDE DEF P, B, s, t, u
    <3>1. j - 1 \in Nat /\ j <= n BY <1>6
    <3>2. (j - 1) * B \in Nat /\ (j - 1) * B = B * j - B /\ B * j <= B * n /\ B * j \in Nat
      BY <1>1, <3>1, TimesNat, TimesMonotone
    <3>3. k \in Nat /\ k < P * a BY <1>1, <1>3, <3>2
    <3> HIDE DEF k
    <3>4. L!Flat(WithRows(m, a + b), k) = L!Flat(WithRows(m, a), k) BY <3>3, FlatAbove DEF P
    <3> QED BY <3>3, <3>4 DEF k
  <2>2. CodeCell(first, WithRows(m, a + b), j) = CodeCell(first, WithRows(m, a), j)
    <3>1. PerByteOf(WithRows(m, a + b)) = B /\ PerByteOf(WithRows(m, a)) = B
      BY <1>1, PerByteFacts
    <3> HIDE DEF P, B, s, t, u
    <3> QED BY <2>1, <3>1 DEF CodeCell
  <2>3. j \in 1 .. C(a) /\ j \in 1 .. C(a + b)
    <3> HIDE DEF s, t, u
    <3> QED BY <1>4, <1>5, <1>6
  <2>4. s[j] = CodeCell(first, WithRows(m, a + b), j) BY <1>1, <1>2, <2>3
  <2>5. t[j] = CodeCell(first, WithRows(m, a), j) BY <1>2, <2>3
  <2> HIDE DEF s, t
  <2> QED BY <2>2, <2>4, <2>5
<1>8. ASSUME NEW j \in 1 .. Len(u) PROVE s[Len(t) + j] = u[j]
  <2>1. ASSUME NEW i \in 1 .. B
        PROVE  L!Weight(0, first, L!Flat(WithRows(m, a + b), ((n + j - 1) * B) + i - 1))
               = L!Weight(0, low, L!Flat(WithRows(m, b), ((j - 1) * B) + i - 1))
    <3> DEFINE k == ((j - 1) * B) + i - 1
    <3> HIDE DEF P, B, s, t, u
    <3>1. j - 1 \in Nat BY <1>6
    <3>2. (j - 1) * B \in Nat /\ (n + j - 1) * B = B * n + (j - 1) * B /\ B * n \in Nat
      BY <1>1, <3>1, TimesNat
    <3>3. k \in Nat /\ ((n + j - 1) * B) + i - 1 = P * a + k
      BY <1>1, <1>3, <3>2
    <3> HIDE DEF k
    <3>4. L!Weight(0, first, L!Flat(WithRows(m, a + b), PaddedRow(m) * a + k))
          = L!Weight(0, first + a * m.cols, L!Flat(WithRows(m, b), k))
      <4>1. k \in Nat BY <3>3
      <4> QED BY <4>1, FlatBelow
    <3> QED BY <3>3, <3>4 DEF k, P, low
  <2>2. CodeCell(first, WithRows(m, a + b), n + j) = CodeCell(low, WithRows(m, b), j)
    <3>1. PerByteOf(WithRows(m, a + b)) = B /\ PerByteOf(WithRows(m, b)) = B
      BY <1>1, PerByteFacts
    <3> HIDE DEF P, B, s, t, u
    <3> QED BY <2>1, <3>1 DEF CodeCell
  <2>3. j \in 1 .. C(b) /\ n + j \in 1 .. C(a + b) /\ Len(t) = n
    <3>1. Len(u) = C(b) BY <1>1, <1>2
    <3> HIDE DEF s, t, u
    <3> QED BY <1>5, <1>6, <3>1
  <2>4. s[n + j] = CodeCell(first, WithRows(m, a + b), n + j) BY <1>1, <1>2, <2>3
  <2>5. u[j] = CodeCell(low, WithRows(m, b), j) BY <1>1, <1>2, <2>3
  <2> HIDE DEF s, t, u
  <2> QED BY <2>2, <2>3, <2>4, <2>5
<1> HIDE DEF s, t, u
<1>9. s = t \o u BY <1>6, <1>7, <1>8, SequenceSplit
<1> QED BY <1>9 DEF s, t, u, low, Below, CodesMeet

\* The numbers of a group, and what their bytes are made from.
Kinds == {"scales", "zeros"}
NumberCells == Kinds \X (SUBSET (Int \X Int)) \X Int
NumberCell(kind, first, m, j) ==
  <<kind, {L!Weight(0, first, L!Flat(m, (((j - 1) \div 2) * m.group) + i)) : i \in 0 .. m.group - 1},
    (j - 1) % 2>>

\* Numbers of a kind for a row; a symmetric quantizer has no zero points.
PerRow(kind, m) == IF kind = "zeros" /\ m.sym THEN 0 ELSE Groups(m)

\* What a row adds to a table does not depend on the number of rows.
LEMMA PerRowFacts ==
  ASSUME NEW m \in Matrices, NEW kind
  PROVE  /\ PerRow(kind, m) \in Nat
         /\ \A r \in Nat : PerRow(kind, WithRows(m, r)) = PerRow(kind, m)
BY RowFacts DEF PerRow

\* Every group of a row has its number, of two bytes.
LEMMA NumbersFacts ==
  ASSUME NEW m \in Matrices, NEW first \in Int, NEW kind \in Kinds
  PROVE  /\ L!Numbers(kind, 0, first, m) \in Seq(NumberCells)
         /\ Len(L!Numbers(kind, 0, first, m)) = 2 * (m.rows * PerRow(kind, m))
         /\ \A j \in 1 .. Len(L!Numbers(kind, 0, first, m)) :
              L!Numbers(kind, 0, first, m)[j] = NumberCell(kind, first, m, j)
<1> DEFINE g == m.rows * PerRow(kind, m)
           c == [j \in 1 .. g * 2 |-> NumberCell(kind, first, m, j)]
<1>1. m.rows \in Nat /\ m.bits \in 1 .. 8 /\ m.group \in Nat \ {0} /\ Groups(m) \in Nat
      /\ PerRow(kind, m) \in Nat
  BY RowFacts, PerRowFacts DEF Matrices
<1>2. g \in Nat BY <1>1, TimesNat
<1>3. (IF m.bits >= 16 \/ (kind = "zeros" /\ m.sym) THEN 0
       ELSE m.rows * L!CeilDiv(m.cols, m.group)) = g
  <2>1. ~(m.bits >= 16) BY <1>1
  <2>2. m.rows * 0 = 0 BY <1>1
  <2> QED BY <2>1, <2>2 DEF PerRow, Groups
<1>4. L!Numbers(kind, 0, first, m) = c
  <2> HIDE DEF g
  <2> QED BY <1>3 DEF L!Numbers, L!MetaBytes, NumberCell
<1>5. ASSUME NEW j \in 1 .. g * 2 PROVE NumberCell(kind, first, m, j) \in NumberCells
  <2> DEFINE q == (j - 1) \div 2
  <2>1. q \in Nat /\ (j - 1) % 2 \in Int
    <3> HIDE DEF g
    <3> QED BY <1>2
  <2> HIDE DEF q, g
  <2>2. ASSUME NEW i \in 0 .. m.group - 1
        PROVE  L!Weight(0, first, L!Flat(m, (q * m.group) + i)) \in Int \X Int
    <3>1. q * m.group \in Nat BY <1>1, <2>1, TimesNat
    <3>2. (q * m.group) + i \in Nat BY <1>1, <3>1
    <3> QED BY <3>2, WeightType
  <2> DEFINE w == {L!Weight(0, first, L!Flat(m, (q * m.group) + i)) : i \in 0 .. m.group - 1}
  <2>3. w \in SUBSET (Int \X Int) BY <2>2
  <2>4. NumberCell(kind, first, m, j) = <<kind, w, (j - 1) % 2>> BY DEF NumberCell, q
  <2> HIDE DEF w
  <2> QED BY <2>1, <2>3, <2>4 DEF NumberCells
<1>6. g * 2 = 2 * g /\ g * 2 \in Nat BY <1>2
<1> HIDE DEF g
<1>7. c \in Seq(NumberCells) /\ Len(c) = g * 2
      /\ \A j \in 1 .. g * 2 : c[j] = NumberCell(kind, first, m, j)
  BY <1>5, <1>6
<1> HIDE DEF c
<1> QED BY <1>4, <1>6, <1>7 DEF g

NumbersMeet(kind, first, m, a, b) ==
  L!Numbers(kind, 0, first, WithRows(m, a + b))
  = L!Numbers(kind, 0, first, WithRows(m, a)) \o L!Numbers(kind, 0, Below(first, a, m), WithRows(m, b))

\* The numbers of some rows, and those of the rows below.
LEMMA NumbersSplit ==
  ASSUME NEW m \in Matrices, NEW a \in Nat, NEW b \in Nat, NEW first \in Int, NEW kind \in Kinds
  PROVE  NumbersMeet(kind, first, m, a, b)
<1> DEFINE P == PaddedRow(m)
           G == PerRow(kind, m)
           g == m.group
           low == first + a * m.cols
           N(r) == 2 * (r * G)
           s == L!Numbers(kind, 0, first, WithRows(m, a + b))
           t == L!Numbers(kind, 0, first, WithRows(m, a))
           u == L!Numbers(kind, 0, low, WithRows(m, b))
<1>1. /\ P \in Nat \ {0} /\ G \in Nat /\ g \in Nat \ {0} /\ m.cols \in Nat
      /\ a + b \in Nat /\ low \in Int
  <2>1. m.cols \in Nat /\ P \in Nat \ {0} /\ g \in Nat \ {0} BY RowFacts
  <2>2. a * m.cols \in Nat BY <2>1, TimesNat
  <2>3. G \in Nat BY PerRowFacts
  <2> HIDE DEF P, G, g
  <2> QED BY <2>1, <2>2, <2>3
<1>2. G > 0 => G * g = P
  <2> QED BY RowFacts DEF PerRow, PaddedRow
<1> HIDE DEF low
<1>3. ASSUME NEW r \in Nat, NEW f \in Int
      PROVE  /\ L!Numbers(kind, 0, f, WithRows(m, r)) \in Seq(NumberCells)
             /\ Len(L!Numbers(kind, 0, f, WithRows(m, r))) = N(r)
             /\ \A j \in 1 .. N(r) :
                  L!Numbers(kind, 0, f, WithRows(m, r))[j] = NumberCell(kind, f, WithRows(m, r), j)
  <2> DEFINE w == WithRows(m, r)
  <2>1. w \in Matrices /\ w.rows = r /\ PerRow(kind, w) = G BY RowFacts, PerRowFacts
  <2> HIDE DEF w
  <2>2. /\ L!Numbers(kind, 0, f, w) \in Seq(NumberCells)
        /\ Len(L!Numbers(kind, 0, f, w)) = 2 * (w.rows * PerRow(kind, w))
        /\ \A j \in 1 .. Len(L!Numbers(kind, 0, f, w)) :
             L!Numbers(kind, 0, f, w)[j] = NumberCell(kind, f, w, j)
    BY <2>1, <1>3, NumbersFacts
  <2> QED BY <2>1, <2>2 DEF w
<1>4. N(a + b) = N(a) + N(b) /\ N(a) \in Nat /\ N(b) \in Nat
  <2> HIDE DEF G
  <2>1. a * G \in Nat /\ b * G \in Nat BY <1>1, TimesNat
  <2>2. (a + b) * G = a * G + b * G BY <1>1
  <2> QED BY <2>1, <2>2
<1>5. /\ s \in Seq(NumberCells) /\ t \in Seq(NumberCells) /\ u \in Seq(NumberCells)
      /\ Len(t) = N(a) /\ Len(u) = N(b) /\ Len(s) = Len(t) + Len(u)
  <2> HIDE DEF N
  <2> QED BY <1>1, <1>3, <1>4
<1>6. ASSUME NEW j \in 1 .. N(a) PROVE s[j] = t[j]
  <2> DEFINE q == (j - 1) \div 2
  <2>1. q \in Nat /\ q + 1 <= a * G
    <3> HIDE DEF G
    <3>1. a * G \in Nat BY <1>1, TimesNat
    <3> DEFINE h == a * G
    <3> HIDE DEF h
    <3>2. h \in Nat /\ j \in 1 .. 2 * h BY <3>1 DEF h
    <3>3. q \in Nat /\ q + 1 <= h BY <3>2
    <3> QED BY <3>3 DEF h
  <2> HIDE DEF q
  <2>2. G > 0
    <3> HIDE DEF G
    <3>1. G = 0 => a * G = 0 OBVIOUS
    <3> QED BY <1>1, <2>1, <3>1
  <2>3. ASSUME NEW i \in 0 .. g - 1
        PROVE  L!Flat(WithRows(m, a + b), (q * g) + i) = L!Flat(WithRows(m, a), (q * g) + i)
    <3> DEFINE k == (q * g) + i
    <3> HIDE DEF P, G, g, s, t, u
    <3>1. q * g \in Nat /\ (q + 1) * g = q * g + g BY <1>1, <2>1, TimesNat
    <3>2. (q + 1) * g <= (a * G) * g
      <4>1. a * G \in Nat BY <1>1, TimesNat
      <4>2. g * (q + 1) <= g * (a * G) BY <1>1, <2>1, <4>1, TimesMonotone
      <4> QED BY <1>1, <2>1, <4>1, <4>2, TimesType
    <3>3. (a * G) * g = P * a
      <4>1. (a * G) * g = a * (G * g) BY <1>1
      <4> QED BY <1>1, <1>2, <2>2, <4>1, TimesType
    <3>4. k \in Nat /\ k < P * a BY <1>1, <3>1, <3>2, <3>3
    <3> HIDE DEF k
    <3>5. L!Flat(WithRows(m, a + b), k) = L!Flat(WithRows(m, a), k)
      <4>1. k \in Nat /\ k < PaddedRow(m) * a BY <3>4 DEF P
      <4> QED BY <4>1, FlatAbove
    <3> QED BY <3>5 DEF k
  <2>4. NumberCell(kind, first, WithRows(m, a + b), j) = NumberCell(kind, first, WithRows(m, a), j)
    <3>1. WithRows(m, a + b).group = g /\ WithRows(m, a).group = g BY <1>1, RowFacts
    <3> HIDE DEF P, G, g, s, t, u
    <3> QED BY <2>3, <3>1 DEF NumberCell, q
  <2>5. j \in 1 .. N(a + b)
    <3> HIDE DEF N
    <3> QED BY <1>4
  <2> HIDE DEF N
  <2>6. s[j] = NumberCell(kind, first, WithRows(m, a + b), j) BY <1>1, <1>3, <2>5
  <2>7. t[j] = NumberCell(kind, first, WithRows(m, a), j) BY <1>3
  <2> HIDE DEF s, t
  <2> QED BY <2>4, <2>6, <2>7
<1>7. ASSUME NEW j \in 1 .. N(b) PROVE s[N(a) + j] = u[j]
  <2> DEFINE q == (j - 1) \div 2
             e == N(a) + j
  <2>0. j \in Nat \ {0}
    <3> HIDE DEF N
    <3> QED BY <1>4
  <2>1. /\ q \in Nat /\ (e - 1) \div 2 = a * G + q /\ (e - 1) % 2 = (j - 1) % 2
        /\ a * G \in Nat
    <3> HIDE DEF G
    <3> DEFINE h == a * G
    <3>1. h \in Nat BY <1>1, TimesNat
    <3> HIDE DEF h
    <3>2. 2 * h + j - 1 = 2 * h + (j - 1) /\ j - 1 \in Int BY <2>0, <3>1
    <3>3. (2 * h + (j - 1)) \div 2 = h + q /\ (2 * h + (j - 1)) % 2 = (j - 1) % 2
      BY <3>1, <3>2, DivOfSum
    <3>4. q \in Nat BY <2>0
    <3> QED BY <3>1, <3>2, <3>3, <3>4 DEF h
  <2>2. G > 0
    <3> HIDE DEF G
    <3>1. G = 0 => 2 * (b * G) = 0 OBVIOUS
    <3>2. 2 * (b * G) >= 1 BY <1>4, <2>0
    <3> QED BY <1>1, <3>1, <3>2
  <2> HIDE DEF q, e
  <2>3. ASSUME NEW i \in 0 .. g - 1
        PROVE  L!Weight(0, first, L!Flat(WithRows(m, a + b), ((a * G + q) * g) + i))
               = L!Weight(0, low, L!Flat(WithRows(m, b), (q * g) + i))
    <3> DEFINE k == (q * g) + i
    <3> HIDE DEF P, G, g, s, t, u, N
    <3>1. k \in Nat /\ q * g \in Nat BY <1>1, <2>1, TimesNat
    <3>2. (a * G + q) * g = P * a + q * g
      <4>1. (a * G + q) * g = (a * G) * g + q * g BY <1>1, <2>1
      <4>2. (a * G) * g = a * (G * g) BY <1>1
      <4> QED BY <1>1, <1>2, <2>2, <4>1, <4>2, TimesType
    <3>3. ((a * G + q) * g) + i = P * a + k
      <4>1. P * a \in Nat BY <1>1, TimesNat
      <4> QED BY <3>1, <3>2, <4>1
    <3> HIDE DEF k
    <3>4. L!Weight(0, first, L!Flat(WithRows(m, a + b), PaddedRow(m) * a + k))
          = L!Weight(0, first + a * m.cols, L!Flat(WithRows(m, b), k))
      <4>1. k \in Nat BY <3>1
      <4> QED BY <4>1, FlatBelow
    <3> QED BY <3>3, <3>4 DEF k, P, low
  <2>4. NumberCell(kind, first, WithRows(m, a + b), e) = NumberCell(kind, low, WithRows(m, b), j)
    <3>1. WithRows(m, a + b).group = g /\ WithRows(m, b).group = g BY <1>1, RowFacts
    <3> HIDE DEF P, G, g, s, t, u, N
    <3> QED BY <2>1, <2>3, <3>1 DEF NumberCell, q
  <2>5. e \in 1 .. N(a + b)
    <3> HIDE DEF N
    <3> QED BY <1>4 DEF e
  <2> HIDE DEF N
  <2>6. s[e] = NumberCell(kind, first, WithRows(m, a + b), e) BY <1>1, <1>3, <2>5
  <2>7. u[j] = NumberCell(kind, low, WithRows(m, b), j) BY <1>1, <1>3
  <2> HIDE DEF s, u
  <2> QED BY <2>4, <2>6, <2>7 DEF e
<1> HIDE DEF s, t, u, N
<1>8. s = t \o u
  <2>1. /\ \A j \in 1 .. Len(t) : s[j] = t[j]
        /\ \A j \in 1 .. Len(u) : s[Len(t) + j] = u[j]
    BY <1>5, <1>6, <1>7
  <2> QED BY <1>5, <2>1, SequenceSplit
<1> QED BY <1>8 DEF s, t, u, low, Below, NumbersMeet

-----------------------------------------------------------------------------
(* The shape of a tensor and its layout.                                   *)

TensorCells == CodeCells([rows |-> 0, cols |-> 1, bits |-> tileJob.bits,
                          sym |-> tileJob.sym, group |-> 1])
Results == [codes : Seq(TensorCells), scales : Seq(NumberCells), zeros : Seq(NumberCells)]

\* The matrix of QuantizedRows without its rows.
Template == [rows |-> 0, cols |-> Width, bits |-> tileJob.bits, sym |-> tileJob.sym,
             group |-> IF tileJob.group > 0 THEN tileJob.group ELSE Width]

\* The layout of a job and the sizes that go with it.
LEMMA LayoutFacts ==
  ASSUME tileJob \in Jobs
  PROVE  /\ Layout \in {"dense", "fused", "conv", "vector"}
         /\ OutFeatures \in Nat \ {0} /\ InFeatures \in Nat \ {0}
         /\ Width \in Nat \ {0} /\ PerOut \in Nat /\ LoadedBytes \in Nat \ {0}
         /\ Layout # "conv" => PerOut = 1
         /\ Layout \in {"dense", "fused"} => InFeatures = Width
         /\ Layout = "vector" => InFeatures = 1 /\ OutFeatures = Width
         /\ Layout = "fused" => tileJob.shape[1] \in Nat \ {0}
<1> DEFINE s == tileJob.shape
           n == Len(s)
<1>1. s \in Seq(Nat \ {0}) /\ s # <<>> /\ tileJob.bytes \in Nat \ {0} BY DEF Jobs
<1>2. n \in Nat \ {0} /\ \A i \in 1 .. n : s[i] \in Nat \ {0}
  <2> HIDE DEF s
  <2> QED BY <1>1
<1> HIDE DEF s, n
<1>3. Width = s[n] BY DEF Width, Last, s, n
<1>4. /\ n = 1 => Layout = "vector"
      /\ n = 2 => Layout = "dense"
      /\ n = 3 /\ tileJob.expert => Layout = "fused"
      /\ n >= 3 /\ ~(n = 3 /\ tileJob.expert) => Layout = "conv"
  <2>1. Layout = CASE n = 2 -> "dense" [] n = 3 /\ tileJob.expert -> "fused"
                   [] n >= 3 /\ ~(n = 3 /\ tileJob.expert) -> "conv" [] OTHER -> "vector"
    BY DEF Layout, s, n
  <2>2. CASE n = 1 BY <2>1, <2>2
  <2>3. CASE n = 2 BY <2>1, <2>3
  <2>4. CASE n = 3 /\ tileJob.expert BY <2>1, <2>4
  <2>5. CASE n >= 3 /\ ~(n = 3 /\ tileJob.expert)
    <3>1. n # 2 /\ n # 1 BY <1>2, <2>5
    <3> QED BY <2>1, <2>5, <3>1
  <2> QED BY <1>2, <2>2, <2>3, <2>4, <2>5
<1>5. n = 1 \/ n = 2 \/ (n = 3 /\ tileJob.expert) \/ (n >= 3 /\ ~(n = 3 /\ tileJob.expert))
  BY <1>2
<1>6. LoadedBytes \in Nat \ {0} BY <1>1 DEF LoadedBytes
<1>7. PerOut \in Nat
  <2>1. CASE Layout = "conv"
    <3>1. n >= 3 BY <1>4, <1>5, <2>1
    <3> DEFINE t == Tail(s)
               u == SubSeq(t, 1, Len(t) - 1)
    <3>2. t \in Seq(Nat) /\ Len(t) = n - 1
      <4>1. Tail(s) \in Seq(Nat \ {0}) /\ Len(Tail(s)) = Len(s) - 1 BY <1>1
      <4>2. \A i \in 1 .. Len(Tail(s)) : Tail(s)[i] \in Nat BY <4>1
      <4>3. Tail(s) \in Seq(Nat) BY <4>1, <4>2
      <4> QED BY <4>1, <4>3 DEF n
    <3> HIDE DEF t
    <3>3. u \in Seq(Nat) BY <3>1, <3>2, <1>2
    <3> HIDE DEF u
    <3>4. Product(u) \in Nat BY <3>3, ProductIsNat
    <3>5. PerOut = L!Rows(Tail(s)) BY <2>1 DEF PerOut, s
    <3>6. L!Rows(Tail(s)) = Product(u) 
      BY DEF L!Rows, Product, u, t, L!FoldLeft, FoldLeft,
              L!MapThenFoldSet, MapThenFoldSet, L!Max, Max
    <3> QED BY <3>4, <3>5, <3>6
  <2>2. CASE Layout # "conv" BY <2>2 DEF PerOut
  <2> QED BY <2>1, <2>2
<1>8. CASE n = 1
  <2>1. Layout = "vector" BY <1>4, <1>8
  <2>2. OutFeatures = s[1] /\ InFeatures = 1 /\ Width = s[1]
    BY <1>3, <1>8, <2>1 DEF OutFeatures, InFeatures, s
  <2>3. 1 \in 1 .. n BY <1>8
  <2> QED BY <1>2, <1>6, <1>7, <2>1, <2>2, <2>3 DEF PerOut
<1>9. CASE n = 2
  <2>1. Layout = "dense" BY <1>4, <1>9
  <2>2. OutFeatures = s[1] /\ InFeatures = s[2] /\ Width = s[2]
    BY <1>3, <1>9, <2>1 DEF OutFeatures, InFeatures, s
  <2>3. 1 \in 1 .. n /\ 2 \in 1 .. n BY <1>9
  <2> QED BY <1>2, <1>6, <1>7, <2>1, <2>2, <2>3 DEF PerOut
<1>10. CASE n = 3 /\ tileJob.expert
  <2>1. Layout = "fused" BY <1>4, <1>10
  <2>2. OutFeatures = s[2] /\ InFeatures = s[3] /\ Width = s[3]
    BY <1>3, <1>10, <2>1 DEF OutFeatures, InFeatures, s
  <2>3. 1 \in 1 .. n /\ 2 \in 1 .. n /\ 3 \in 1 .. n BY <1>10
  <2>4. tileJob.shape[1] = s[1] BY DEF s
  <2> QED BY <1>2, <1>6, <1>7, <2>1, <2>2, <2>3, <2>4 DEF PerOut
<1>11. CASE n >= 3 /\ ~(n = 3 /\ tileJob.expert)
  <2>1. Layout = "conv" BY <1>4, <1>11
  <2>2. OutFeatures = s[1] /\ InFeatures = s[2]
    BY <2>1 DEF OutFeatures, InFeatures, s
  <2>3. 1 \in 1 .. n /\ 2 \in 1 .. n /\ n \in 1 .. n BY <1>2, <1>11
  <2> QED BY <1>2, <1>3, <1>6, <1>7, <2>1, <2>2, <2>3
<1> QED BY <1>5, <1>8, <1>9, <1>10, <1>11

FirstOf(e, from) == IF Layout = "vector" THEN 0 ELSE (e * OutFeatures + from) * PerOut * Width

\* What a quantizer gives of some rows, by its matrix.
LEMMA QuantizedFacts ==
  ASSUME tileJob \in Jobs, NEW e \in Nat, NEW from \in Nat, NEW rows \in Nat
  PROVE  /\ Template \in Matrices /\ MatrixRows(rows) \in Nat /\ FirstOf(e, from) \in Nat
         /\ QuantizedRows(e, from, rows) =
              [codes |-> L!Codes(0, FirstOf(e, from), WithRows(Template, MatrixRows(rows))),
               scales |-> L!Numbers("scales", 0, FirstOf(e, from), WithRows(Template, MatrixRows(rows))),
               zeros |-> L!Numbers("zeros", 0, FirstOf(e, from), WithRows(Template, MatrixRows(rows)))]
         /\ QuantizedRows(e, from, rows) \in Results
<1>1. /\ OutFeatures \in Nat /\ Width \in Nat \ {0} /\ PerOut \in Nat BY LayoutFacts
<1>2. tileJob.bits \in 1 .. 8 /\ tileJob.sym \in BOOLEAN /\ tileJob.group \in Int BY DEF Jobs
<1>3. Template \in Matrices BY <1>1, <1>2 DEF Template, Matrices
<1>4. MatrixRows(rows) \in Nat
  <2>1. rows * PerOut \in Nat BY <1>1, TimesNat
  <2> QED BY <2>1 DEF MatrixRows
<1>5. FirstOf(e, from) \in Nat
  <2>1. e * OutFeatures \in Nat BY <1>1, TimesNat
  <2>2. e * OutFeatures + from \in Nat BY <2>1
  <2>3. (e * OutFeatures + from) * PerOut \in Nat BY <1>1, <2>2, TimesNat
  <2>4. (e * OutFeatures + from) * PerOut * Width \in Nat BY <1>1, <2>3, TimesNat
  <2> QED BY <2>4 DEF FirstOf
<1> DEFINE w == WithRows(Template, MatrixRows(rows))
           f == FirstOf(e, from)
<1>6. w = [rows |-> MatrixRows(rows), cols |-> Width,
           bits |-> tileJob.bits, sym |-> tileJob.sym,
           group |-> IF tileJob.group > 0 THEN tileJob.group ELSE Width]
  BY DEF WithRows, Template
<1>7. QuantizedRows(e, from, rows) =
        [codes |-> L!Codes(0, f, w), scales |-> L!Numbers("scales", 0, f, w),
         zeros |-> L!Numbers("zeros", 0, f, w)]
  <2> HIDE DEF w
  <2> QED BY <1>6 DEF QuantizedRows, FirstOf
<1>8. w \in Matrices BY <1>3, <1>4, RowFacts
<1>9. /\ L!Codes(0, f, w) \in Seq(TensorCells)
      /\ L!Numbers("scales", 0, f, w) \in Seq(NumberCells)
      /\ L!Numbers("zeros", 0, f, w) \in Seq(NumberCells)
  <2>1. f \in Int BY <1>5
  <2>2. CodeCells(w) = TensorCells
    <3>1. w.bits = tileJob.bits BY <1>6
    <3> HIDE DEF w
    <3> QED BY <3>1 DEF CodeCells, TensorCells, PerByteOf
  <2> HIDE DEF w, f
  <2>3. L!Codes(0, f, w) \in Seq(CodeCells(w)) BY <1>8, <2>1, CodesFacts
  <2>4. "scales" \in Kinds /\ "zeros" \in Kinds BY DEF Kinds
  <2> QED BY <1>8, <2>1, <2>2, <2>3, <2>4, NumbersFacts
<1>10. QuantizedRows(e, from, rows) \in Results
  <2> HIDE DEF w, f
  <2> QED BY <1>7, <1>9 DEF Results
<1> QED BY <1>3, <1>4, <1>5, <1>7, <1>10

\* Whole bytes of rows and those below them: their codes, scales and zeros are
\* those of all, one after the other.  For this a cut must be at a multiple of
\* eight rows.
LEMMA CutIsWhole ==
  ASSUME tileJob \in Jobs, Layout # "vector", NEW e \in Nat, NEW from \in Nat,
         NEW a \in Nat, NEW b \in Nat, WholeBytes(a)
  PROVE  QuantizedRows(e, from, a + b)
         = Cat(QuantizedRows(e, from, a), QuantizedRows(e, from + a, b))
<1> DEFINE ra == a * PerOut
           rb == b * PerOut
           f  == FirstOf(e, from)
<1>1. OutFeatures \in Nat /\ Width \in Nat \ {0} /\ PerOut \in Nat BY LayoutFacts
<1>2. ra \in Nat /\ rb \in Nat BY <1>1, TimesNat
<1>3. MatrixRows(a) = ra /\ MatrixRows(b) = rb /\ MatrixRows(a + b) = ra + rb
  <2>1. (a + b) * PerOut = a * PerOut + b * PerOut BY <1>1
  <2> QED BY <2>1 DEF MatrixRows
<1>4. WholeBytes(ra)
  <2> DEFINE d == a \div 8
  <2>1. d \in Nat /\ a = 8 * d BY DivFacts, DivIsNat DEF WholeBytes
  <2> HIDE DEF d
  <2>2. d * PerOut \in Int BY <1>1, <2>1, TimesType
  <2>3. a * PerOut = 8 * (d * PerOut) + 0 BY <1>1, <2>1
  <2>4. (8 * (d * PerOut) + 0) % 8 = 0 BY <2>2, DivIsUnique
  <2> QED BY <2>3, <2>4 DEF WholeBytes
<1>5. FirstOf(e, from + a) = f + ra * Width
  <2> DEFINE x == e * OutFeatures + from
  <2>1. e * OutFeatures \in Nat BY <1>1, TimesNat
  <2>2. x \in Nat /\ e * OutFeatures + (from + a) = x + a BY <2>1
  <2>3. FirstOf(e, from + a) = (x + a) * PerOut * Width BY <2>2 DEF FirstOf
  <2>4. f = x * PerOut * Width BY DEF FirstOf
  <2> HIDE DEF x, f
  <2>5. (x + a) * PerOut = x * PerOut + ra BY <1>1, <2>2
  <2>6. x * PerOut \in Nat BY <1>1, <2>2, TimesNat
  <2> DEFINE y == x * PerOut
  <2>7. y \in Nat BY <2>6
  <2> HIDE DEF y, ra
  <2>8. (y + ra) * Width = y * Width + ra * Width BY <1>1, <1>2, <2>7
  <2> QED BY <2>3, <2>4, <2>5, <2>8 DEF y
<1>6. /\ a + b \in Nat /\ from + a \in Nat OBVIOUS
<1>7. Template \in Matrices /\ f \in Nat /\ Template.cols = Width
  BY QuantizedFacts DEF Template
<1> HIDE DEF ra, rb, f
<1> DEFINE g == f + ra * Width
           m == Template
<1>8. L!Codes(0, f, WithRows(m, ra + rb))
      = L!Codes(0, f, WithRows(m, ra)) \o L!Codes(0, g, WithRows(m, rb))
  <2>1. m \in Matrices /\ m.cols = Width /\ f \in Int BY <1>7
  <2> HIDE DEF m
  <2>2. CodesMeet(f, m, ra, rb) BY <1>2, <1>4, <2>1, CodesSplit
  <2> QED BY <2>1, <2>2 DEF Below, CodesMeet
<1>12. ASSUME NEW kind \in Kinds
       PROVE  L!Numbers(kind, 0, f, WithRows(m, ra + rb))
              = L!Numbers(kind, 0, f, WithRows(m, ra)) \o L!Numbers(kind, 0, g, WithRows(m, rb))
  <2>1. m \in Matrices /\ m.cols = Width /\ f \in Int BY <1>7
  <2> HIDE DEF m
  <2>2. NumbersMeet(kind, f, m, ra, rb) BY <1>2, <2>1, NumbersSplit
  <2> QED BY <2>1, <2>2 DEF Below, NumbersMeet
<1>9. QuantizedRows(e, from, a + b) =
        [codes |-> L!Codes(0, f, WithRows(m, ra + rb)),
         scales |-> L!Numbers("scales", 0, f, WithRows(m, ra + rb)),
         zeros |-> L!Numbers("zeros", 0, f, WithRows(m, ra + rb))]
  BY <1>3, <1>6, QuantizedFacts DEF f
<1>10. QuantizedRows(e, from, a) =
        [codes |-> L!Codes(0, f, WithRows(m, ra)),
         scales |-> L!Numbers("scales", 0, f, WithRows(m, ra)),
         zeros |-> L!Numbers("zeros", 0, f, WithRows(m, ra))]
  BY <1>3, QuantizedFacts DEF f
<1>11. QuantizedRows(e, from + a, b) =
        [codes |-> L!Codes(0, g, WithRows(m, rb)),
         scales |-> L!Numbers("scales", 0, g, WithRows(m, rb)),
         zeros |-> L!Numbers("zeros", 0, g, WithRows(m, rb))]
  BY <1>3, <1>5, <1>6, QuantizedFacts
<1> HIDE DEF m, g
<1>13. /\ L!Numbers("scales", 0, f, WithRows(m, ra + rb))
          = L!Numbers("scales", 0, f, WithRows(m, ra)) \o L!Numbers("scales", 0, g, WithRows(m, rb))
       /\ L!Numbers("zeros", 0, f, WithRows(m, ra + rb))
          = L!Numbers("zeros", 0, f, WithRows(m, ra)) \o L!Numbers("zeros", 0, g, WithRows(m, rb))
  <2>1. "scales" \in Kinds /\ "zeros" \in Kinds BY DEF Kinds
  <2> HIDE DEF m, g
  <2> QED BY <1>12, <2>1
<1> DEFINE c1 == L!Codes(0, f, WithRows(m, ra))
           s1 == L!Numbers("scales", 0, f, WithRows(m, ra))
           z1 == L!Numbers("zeros", 0, f, WithRows(m, ra))
           c2 == L!Codes(0, g, WithRows(m, rb))
           s2 == L!Numbers("scales", 0, g, WithRows(m, rb))
           z2 == L!Numbers("zeros", 0, g, WithRows(m, rb))
<1>14. /\ QuantizedRows(e, from, a) = [codes |-> c1, scales |-> s1, zeros |-> z1]
       /\ QuantizedRows(e, from + a, b) = [codes |-> c2, scales |-> s2, zeros |-> z2]
  BY <1>10, <1>11
<1>15. QuantizedRows(e, from, a + b) = [codes |-> c1 \o c2, scales |-> s1 \o s2, zeros |-> z1 \o z2]
  BY <1>8, <1>9, <1>13
<1> HIDE DEF c1, s1, z1, c2, s2, z2
<1>16. Cat([codes |-> c1, scales |-> s1, zeros |-> z1], [codes |-> c2, scales |-> s2, zeros |-> z2])
       = [codes |-> c1 \o c2, scales |-> s1 \o s2, zeros |-> z1 \o z2]
  BY DEF Cat
<1> QED BY <1>14, <1>15, <1>16

-----------------------------------------------------------------------------
(* Cutting some rows into runs.                                            *)

\* What is left is cut like the whole: a first run, and the rest behind it.
LEMMA SplitFacts ==
  ASSUME NEW e \in Nat, NEW at \in Nat, NEW r \in Nat \ {0}, NEW z \in Nat \ {0}
  PROVE  /\ Split(e, at, r, z) # <<>>
         /\ Head(Split(e, at, r, z)) = [expert |-> e, from |-> at, rows |-> AtMost(z, r)]
         /\ AtMost(z, r) \in 1 .. r
         /\ Tail(Split(e, at, r, z)) = Split(e, at + AtMost(z, r), r - AtMost(z, r), z)
         /\ \A i \in DOMAIN Split(e, at, r, z) :
              /\ Split(e, at, r, z)[i].rows \in 1 .. r /\ Split(e, at, r, z)[i].rows <= z
              /\ Split(e, at, r, z)[i].expert = e /\ Split(e, at, r, z)[i].from \in Nat
              /\ Split(e, at, r, z)[i].from + Split(e, at, r, z)[i].rows <= at + r
<1> DEFINE n == L!CeilDiv(r, z)
           w == AtMost(z, r)
           s == Split(e, at, r, z)
           Run(i) == [expert |-> e, from |-> at + (i - 1) * z, rows |-> AtMost(z, r - (i - 1) * z)]
<1>1. n \in Nat /\ n > 0 /\ z * n <= r + z - 1 BY CeilFacts
<1>2. w \in 1 .. r /\ w <= z BY DEF AtMost
<1>3. s = [i \in 1 .. n |-> Run(i)] BY DEF Split
<1> HIDE DEF n
<1>4. ASSUME NEW i \in 1 .. n PROVE (i - 1) * z \in Nat /\ (i - 1) * z < r
  <2>1. i - 1 \in Nat /\ i <= n BY <1>1
  <2>2. (i - 1) * z \in Nat /\ (i - 1) * z = z * i - z /\ z * i <= z * n
    BY <1>1, <2>1, TimesNat, TimesMonotone
  <2> QED BY <1>1, <2>1, <2>2
<1>5. ASSUME NEW i \in 1 .. n
      PROVE  /\ Run(i).rows \in 1 .. r /\ Run(i).rows <= z
             /\ Run(i).expert = e /\ Run(i).from \in Nat
             /\ Run(i).from + Run(i).rows <= at + r
  BY <1>4 DEF AtMost
<1> DEFINE m == L!CeilDiv(r - w, z)
<1>6. n = 1 + m /\ m \in Nat
  <2>1. r - w \in Nat BY <1>2
  <2>2. m \in Nat BY <2>1, CeilFacts
  <2>3. CASE r > z
    <3>1. w = z /\ r - z \in Nat BY <2>3 DEF AtMost
    <3>2. L!CeilDiv(z * 1 + (r - z), z) = 1 + L!CeilDiv(r - z, z) BY <3>1, CeilOfSum
    <3>3. z * 1 + (r - z) = r OBVIOUS
    <3> QED BY <2>2, <3>1, <3>2, <3>3 DEF n
  <2>4. CASE r <= z
    <3>1. w = r /\ r - w = 0 BY <2>4 DEF AtMost
    <3>2. L!CeilDiv(z * 0 + 0, z) = 0 + L!CeilDiv(0, z) BY CeilOfSum
    <3>3. m = 0
      <4>1. 0 <= z - 1 /\ z - 1 \in 0 .. z - 1 OBVIOUS
      <4>2. (z * 0 + (z - 1)) \div z = 0 BY <4>1, DivIsUnique
      <4>3. z * 0 + (z - 1) = 0 + z - 1 OBVIOUS
      <4> QED BY <3>1, <4>2, <4>3 DEF L!CeilDiv
    <3>4. n < 2
      <4>1. ASSUME n >= 2 PROVE FALSE
        <5>1. z * 2 <= z * n BY <1>1, <4>1, TimesMonotone
        <5> QED BY <1>1, <2>4, <5>1
      <4> QED BY <1>1, <4>1
    <3> QED BY <1>1, <3>3, <3>4
  <2> QED BY <2>3, <2>4
<1>7. Tail(s) = Split(e, at + w, r - w, z)
  <2> DEFINE t == Split(e, at + w, r - w, z)
             Later(i) == [expert |-> e, from |-> (at + w) + (i - 1) * z,
                          rows |-> AtMost(z, (r - w) - (i - 1) * z)]
  <2>1. t = [i \in 1 .. m |-> Later(i)] BY DEF Split
  <2>2. Tail(s) = [i \in 1 .. m |-> Run(i + 1)]
    <3> HIDE DEF Run, m
    <3>1. Len(s) = n /\ n - 1 = m BY <1>1, <1>3, <1>6
    <3>2. Tail(s) = [i \in 1 .. Len(s) - 1 |-> s[i + 1]]
      <4> DEFINE S == {s[i] : i \in 1 .. n}
      <4>1. s \in Seq(S) /\ s # <<>> BY <1>1, <1>3, <3>1
      <4> HIDE DEF S, s
      <4>2. /\ Tail(s) \in Seq(S) /\ Len(Tail(s)) = Len(s) - 1
            /\ \A i \in 1 .. Len(Tail(s)) : Tail(s)[i] = s[i + 1]
        BY <4>1
      <4> DEFINE v == Tail(s)
      <4>3. v \in Seq(S) BY <4>2
      <4> HIDE DEF v
      <4>4. v = [i \in 1 .. Len(v) |-> v[i]] BY <4>3
      <4> QED BY <4>2, <4>4 DEF v
    <3>3. \A i \in 1 .. m : s[i + 1] = Run(i + 1) BY <1>3, <1>6
    <3> QED BY <3>1, <3>2, <3>3
  <2>3. ASSUME NEW i \in 1 .. m PROVE Run(i + 1) = Later(i)
    <3>1. r > z /\ w = z
      <4>1. CASE r <= z
        <5>1. 1 * z < r
          <6>1. 2 \in 1 .. n /\ 2 - 1 = 1 BY <1>6
          <6> QED BY <1>4, <6>1
        <5> QED BY <4>1, <5>1
      <4> QED BY <4>1 DEF AtMost
    <3>2. i - 1 \in Nat /\ (i + 1) - 1 = i BY <1>6
    <3>3. i * z = z + (i - 1) * z /\ (i - 1) * z \in Nat BY <3>2, TimesNat
    <3> DEFINE x == (i - 1) * z
    <3> HIDE DEF x, w, m
    <3>4. at + (z + x) = (at + z) + x /\ r - (z + x) = (r - z) - x BY <3>3 DEF x
    <3> QED BY <3>1, <3>2, <3>3, <3>4 DEF x
  <2> HIDE DEF Run, Later, m
  <2> QED BY <2>1, <2>2, <2>3
<1>8. s # <<>> /\ Head(s) = Run(1) /\ DOMAIN s = 1 .. n
  <2>1. 1 \in 1 .. n /\ Len(s) = n BY <1>1, <1>3
  <2> HIDE DEF Run
  <2> QED BY <1>3, <2>1
<1>9. Run(1) = [expert |-> e, from |-> at, rows |-> w]
  <2>1. (1 - 1) * z = 0 OBVIOUS
  <2> QED BY <2>1
<1>10. \A i \in 1 .. n : s[i] = Run(i) BY <1>3
<1> HIDE DEF Run, w, s
<1> QED BY <1>2, <1>5, <1>7, <1>8, <1>9, <1>10 DEF w, s

\* Of no rows there is no run.
LEMMA SplitOfNone ==
  ASSUME NEW e, NEW at, NEW z \in Nat \ {0} PROVE Split(e, at, 0, z) = <<>>
<1>1. z - 1 \in 0 .. z - 1 OBVIOUS
<1>2. (z * 0 + (z - 1)) \div z = 0 BY <1>1, DivIsUnique
<1>3. z * 0 + (z - 1) = 0 + z - 1 OBVIOUS
<1>4. L!CeilDiv(0, z) = 0 BY <1>2, <1>3 DEF L!CeilDiv
<1> QED BY <1>4 DEF Split

-----------------------------------------------------------------------------
(* The budget.                                                             *)

\* A row padded to whole groups is no longer than its columns padded one by one.
LEMMA PaddedFacts ==
  ASSUME tileJob \in Jobs, NEW c \in Nat \ {0}
  PROVE  /\ Padded(c) \in Nat \ {0} /\ Padded(c) <= c * Padded(1)
<1>1. tileJob.group \in Int BY DEF Jobs
<1> DEFINE g == tileJob.group
<1>2. CASE g <= 0
  <2>1. Padded(c) = c /\ Padded(1) = 1 BY <1>2 DEF Padded
  <2> QED BY <2>1
<1>3. CASE g > 0
  <2>1. /\ g \in Nat \ {0}
        /\ \A n \in Nat \ {0} : Padded(n) = L!CeilDiv(n, g) * g
    BY <1>1, <1>3 DEF Padded
  <2> HIDE DEF g
  <2>2. ASSUME NEW n \in Nat \ {0}
        PROVE  Padded(n) \in Nat \ {0} /\ n <= Padded(n) /\ Padded(n) <= n + g - 1
    <3> DEFINE q == L!CeilDiv(n, g)
    <3>1. q \in Nat /\ n <= g * q /\ g * q <= n + g - 1 BY <2>1, CeilFacts
    <3> HIDE DEF q
    <3>2. q * g = g * q /\ q * g \in Nat BY <2>1, <3>1, TimesNat, TimesType
    <3> QED BY <2>1, <3>1, <3>2 DEF q
  <2>3. Padded(1) = g
    <3> DEFINE q == L!CeilDiv(1, g)
    <3>1. q = 1
      <4>1. (g * 1 + 0) \div g = 1
        <5>1. 0 \in 0 .. g - 1 BY <2>1
        <5> QED BY <2>1, <5>1, DivIsUnique
      <4>2. g * 1 + 0 = 1 + g - 1 BY <2>1
      <4> QED BY <4>1, <4>2 DEF L!CeilDiv
    <3> QED BY <2>1, <3>1
  <2>4. c + g - 1 <= c * g
    <3>1. (c - 1) * (g - 1) \in Nat
      <4>1. c - 1 \in Nat /\ g - 1 \in Nat BY <2>1
      <4> QED BY <4>1, TimesNat
    <3>2. (c - 1) * (g - 1) = c * g - c - g + 1 BY <2>1
    <3>3. c * g \in Nat BY <2>1, TimesNat
    <3> QED BY <2>1, <3>1, <3>2, <3>3
  <2> QED BY <2>1, <2>2, <2>3, <2>4, TimesNat
<1> QED BY <1>1, <1>2, <1>3

\* The estimate is a cost for each row, and there is a cost.
LEMMA EstimateFacts ==
  ASSUME tileJob \in Jobs, NEW c \in Nat \ {0}, NEW b \in Nat \ {0}
  PROVE  /\ RowCost(c, b) \in Nat \ {0}
         /\ \A r \in Nat : Estimate(r, c, b) = r * RowCost(c, b) /\ Estimate(r, c, b) \in Nat
         /\ \A r, n \in Nat : r <= n => Estimate(r, c, b) <= Estimate(n, c, b)
         /\ Estimate(1, c, b) <= Estimate(c, 1, b)
<1> DEFINE P == Padded(c)
           T == TwiceWorkspace
           k == 8 * tileJob.bits + 2
<1>1. P \in Nat /\ Padded(1) \in Nat /\ P <= c * Padded(1) BY PaddedFacts
<1>2. T \in Nat /\ k \in Nat \ {0}
  <2>1. tileJob.bits \in 1 .. 8 BY DEF Jobs
  <2>2. T \in Nat BY TilerAssumption
  <2> QED BY <2>1, <2>2
<1> HIDE DEF P, T, k
<1>3. RowCost(c, b) = 64 * c * b + 32 * T * P * b + c * k BY DEF RowCost, P, T, k
<1>4. RowCost(c, b) \in Nat \ {0}
  <2>1. 64 * c * b \in Nat /\ 32 * T * P * b \in Nat BY <1>1, <1>2, TimesNat
  <2>2. c * k \in Nat /\ c * k > 0
    <3>1. k * 1 <= k * c BY <1>2, TimesMonotone
    <3> QED BY <1>2, <3>1, TimesType, TimesNat
  <2> QED BY <1>3, <2>1, <2>2
<1>5. ASSUME NEW r \in Nat PROVE Estimate(r, c, b) = r * RowCost(c, b)
  <2>1. Estimate(r, c, b) = 64 * (r * c * b) + 32 * T * (r * P * b) + r * c * k
    BY DEF Estimate, P, T, k
  <2>2. 64 * (r * c * b) = r * (64 * c * b) OBVIOUS
  <2>3. 32 * T * (r * P * b) = r * (32 * T * P * b) BY <1>1, <1>2
  <2>4. r * c * k = r * (c * k) BY <1>2
  <2> DEFINE x == 64 * c * b
             y == 32 * T * P * b
             w == c * k
  <2>5. x \in Nat /\ y \in Nat /\ w \in Nat BY <1>1, <1>2, TimesNat
  <2> HIDE DEF x, y, w
  <2>6. r * (x + y + w) = r * x + r * y + r * w BY <2>5
  <2> QED BY <1>3, <2>1, <2>2, <2>3, <2>4, <2>6 DEF x, y, w
<1> DEFINE C == RowCost(c, b)
<1>6. C \in Nat BY <1>4
<1> HIDE DEF C
<1>7. ASSUME NEW r \in Nat, NEW n \in Nat, r <= n PROVE r * C <= n * C
  <2>1. C * r <= C * n BY <1>6, <1>7, TimesMonotone
  <2> QED BY <1>6, <2>1, TimesType
<1>8. Estimate(1, c, b) <= Estimate(c, 1, b)
  <2> DEFINE V == Padded(1)
             f == 32 * T
  <2>1. Estimate(1, c, b) = 64 * (1 * c * b) + f * (1 * P * b) + 1 * c * k
    BY DEF Estimate, P, T, k
  <2>2. Estimate(c, 1, b) = 64 * (c * 1 * b) + f * (c * V * b) + c * 1 * k
    BY DEF Estimate, T, k
  <2>3. V \in Nat /\ f \in Nat /\ P <= c * V BY <1>1, <1>2, TimesNat
  <2> HIDE DEF V, f
  <2>4. f * (1 * P * b) <= f * (c * V * b)
    <3>1. c * V \in Nat BY <2>3, TimesNat
    <3>2. b * P <= b * (c * V) BY <1>1, <2>3, <3>1, TimesMonotone
    <3>3. b * P \in Nat /\ b * (c * V) \in Nat BY <1>1, <3>1, TimesNat
    <3>4. f * (b * P) <= f * (b * (c * V)) BY <2>3, <3>2, <3>3, TimesMonotone
    <3>5. 1 * P * b = b * P /\ c * V * b = b * (c * V) BY <1>1, <2>3
    <3> QED BY <3>4, <3>5
  <2> DEFINE u == f * (1 * P * b)
             v == f * (c * V * b)
             x == 64 * (1 * c * b)
             y == 1 * c * k
  <2>5. u \in Nat /\ v \in Nat /\ x \in Nat /\ y \in Nat BY <1>1, <1>2, <2>3, TimesNat
  <2>6. 64 * (c * 1 * b) = x /\ c * 1 * k = y BY <1>2
  <2> HIDE DEF u, v, x, y
  <2>7. u <= v BY <2>4 DEF u, v
  <2>8. Estimate(1, c, b) = x + u + y /\ Estimate(c, 1, b) = x + v + y
    BY <2>1, <2>2, <2>6 DEF u, v, x, y
  <2> QED BY <2>5, <2>7, <2>8
<1> QED BY <1>4, <1>5, <1>6, <1>7, <1>8, TimesNat DEF C

\* The usable budget never exceeds a cap that holds the floor.
LEMMA UsableFacts ==
  ASSUME tileJob \in Jobs
  PROVE  Usable \in Nat /\ (tileJob.cap >= FloorMB => Usable <= tileJob.cap * MB)
<1> DEFINE cap == tileJob.cap * MB
           floor == FloorMB * MB
           some == AtMost(ReserveMB * MB, (cap * 15) \div 100)
                   + AtMost(MarginMB * MB, (cap * 10) \div 100)
           reserve == IF tileJob.cap <= SmallCap THEN some ELSE (ReserveMB + MarginMB) * MB
<1>1. /\ tileJob.cap \in Nat /\ MB \in Nat \ {0} /\ FloorMB \in Nat /\ ReserveMB \in Nat
      /\ MarginMB \in Nat
  BY TilerAssumption DEF Jobs
<1>2. cap \in Nat /\ floor \in Nat /\ ReserveMB * MB \in Nat /\ MarginMB * MB \in Nat
      /\ (ReserveMB + MarginMB) * MB \in Nat
  BY <1>1, TimesNat
<1>3. Usable = AtLeast(floor, cap - reserve) BY DEF Usable
<1>4. tileJob.cap >= FloorMB => floor <= cap
  <2>1. ASSUME tileJob.cap >= FloorMB PROVE MB * FloorMB <= MB * tileJob.cap
    BY <1>1, <2>1, TimesMonotone
  <2> QED BY <1>1, <2>1, TimesType
<1>5. reserve \in Nat
  <2> HIDE DEF cap
  <2>1. (cap * 15) \div 100 \in Nat /\ (cap * 10) \div 100 \in Nat BY <1>2
  <2>2. some \in Nat BY <1>2, <2>1 DEF AtMost
  <2> HIDE DEF some
  <2> QED BY <1>2, <2>2
<1> HIDE DEF cap, floor, reserve
<1>6. AtLeast(floor, cap - reserve) \in Nat
      /\ (floor <= cap => AtLeast(floor, cap - reserve) <= cap)
  BY <1>2, <1>5 DEF AtLeast
<1> QED BY <1>3, <1>4, <1>6 DEF cap

\* A tile has all rows, or is a multiple of eight; with more rows than the
\* smallest tile it fits the usable budget.
LEMMA TileRowsFacts ==
  ASSUME tileJob \in Jobs, NEW r \in Nat \ {0}, NEW c \in Nat \ {0}, NEW b \in Nat \ {0}
  PROVE  /\ TileRows(r, c, b) \in 1 .. r
         /\ TileRows(r, c, b) = r \/ WholeBytes(TileRows(r, c, b))
         /\ \A w \in 1 .. TileRows(r, c, b) : w > RowUnit => Estimate(w, c, b) <= Usable
<1> DEFINE U == Usable
           C == RowCost(c, b)
           K == RowUnit
           fit == (8 * U) \div (10 * C)
           raw == AtLeast(K \div 2, fit)
           some == (raw \div K) * K
<1>1. U \in Nat /\ C \in Nat \ {0} /\ K \in Nat \ {0} /\ K % 8 = 0
  BY UsableFacts, EstimateFacts, TilerAssumption
<1>2. TileRows(r, c, b) = IF Estimate(r, c, b) <= U THEN r ELSE AtMost(r, AtLeast(K, some))
  BY DEF TileRows
<1>3. \A w \in Nat : Estimate(w, c, b) = w * C /\ (w <= r => Estimate(w, c, b) <= Estimate(r, c, b))
  BY EstimateFacts
<1>4. \A w \in Nat : Estimate(w, c, b) \in Nat BY EstimateFacts
<1> HIDE DEF U, C, K
<1>5. CASE Estimate(r, c, b) <= U
  <2>1. TileRows(r, c, b) = r BY <1>2, <1>5
  <2>2. ASSUME NEW w \in 1 .. r PROVE Estimate(w, c, b) <= U
    <3>1. w \in Nat /\ w <= r OBVIOUS
    <3> QED BY <1>1, <1>3, <1>4, <1>5, <3>1
  <2> QED BY <2>1, <2>2 DEF U
<1>6. CASE ~(Estimate(r, c, b) <= U)
  <2>1. 10 * C \in Nat \ {0} /\ 8 * U \in Nat BY <1>1
  <2>2. fit \in Nat /\ (10 * C) * fit <= 8 * U
    <3> DEFINE u == 8 * U
               t == 10 * C
    <3>1. u \in Nat /\ t \in Nat \ {0} BY <2>1
    <3> HIDE DEF u, t
    <3>2. u = t * (u \div t) + (u % t) /\ u % t \in 0 .. t - 1 BY <3>1, DivFacts
    <3>3. u \div t \in Nat BY <3>1, DivIsNat
    <3> DEFINE f == u \div t
    <3>4. f \in Nat /\ u = t * f + (u % t) BY <3>2, <3>3
    <3> HIDE DEF f
    <3>5. t * f \in Nat BY <3>1, <3>4, TimesNat
    <3>6. t * f <= u BY <3>1, <3>2, <3>4, <3>5
    <3> QED BY <3>4, <3>6 DEF f, u, t
  <2> HIDE DEF fit
  <2>3. K \div 2 \in Nat /\ K \div 2 < K BY <1>1
  <2>4. raw \in Nat /\ (raw > K => raw = fit)
    <3> DEFINE h == K \div 2
    <3>1. h \in Nat /\ h < K /\ fit \in Nat BY <2>2, <2>3
    <3> HIDE DEF h
    <3>2. raw = IF h > fit THEN h ELSE fit BY DEF AtLeast, h
    <3> HIDE DEF raw
    <3> QED BY <1>1, <3>1, <3>2
  <2> HIDE DEF raw
  <2> DEFINE q == raw \div K
  <2>5. q \in Nat /\ raw = K * q + (raw % K) /\ raw % K \in 0 .. K - 1
    <3>1. raw \in Nat /\ K \in Nat \ {0} BY <1>1, <2>4
    <3>2. raw \in Int BY <3>1
    <3>3. q \in Nat BY <3>1, DivIsNat
    <3>4. raw = K * (raw \div K) + (raw % K) /\ raw % K \in 0 .. K - 1
      BY <3>1, <3>2, DivFacts
    <3> QED BY <3>3, <3>4
  <2> HIDE DEF q
  <2>6. some \in Nat /\ some = K * q /\ some <= raw
    <3>1. some = q * K BY DEF q
    <3>2. q * K = K * q /\ q * K \in Nat BY <1>1, <2>5, TimesType, TimesNat
    <3> HIDE DEF some
    <3> QED BY <1>1, <2>4, <2>5, <3>1, <3>2
  <2>7. (K * q) % 8 = 0
    <3> DEFINE d == K \div 8
    <3>1. d \in Nat /\ K = 8 * d BY <1>1, DivFacts, DivIsNat
    <3> HIDE DEF d
    <3>2. d * q \in Int BY <2>5, <3>1, TimesType
    <3>3. K * q = 8 * (d * q) + 0 BY <2>5, <3>1
    <3>4. (8 * (d * q) + 0) % 8 = 0 BY <3>2, DivIsUnique
    <3> QED BY <3>3, <3>4
  <2> HIDE DEF some
  <2> DEFINE z == AtLeast(K, some)
  <2>8. z \in Nat \ {0} /\ z % 8 = 0 /\ (z > K => z = some)
    BY <1>1, <2>6, <2>7 DEF AtLeast
  <2> HIDE DEF z
  <2>9. TileRows(r, c, b) = AtMost(r, z) BY <1>2, <1>6 DEF z
  <2>10. AtMost(r, z) \in 1 .. r /\ AtMost(r, z) <= z /\ (AtMost(r, z) = r \/ AtMost(r, z) = z)
    BY <2>8 DEF AtMost
  <2>11. ASSUME NEW w \in 1 .. AtMost(r, z), w > K PROVE Estimate(w, c, b) <= U
    <3>1. w \in Nat /\ w <= fit
      <4>1. w \in Nat /\ w <= z BY <2>8, <2>10
      <4>2. z > K BY <1>1, <2>8, <2>11, <4>1
      <4>3. z = some /\ some <= raw BY <2>6, <2>8, <4>2
      <4>4. raw > K BY <1>1, <2>4, <2>6, <4>2, <4>3
      <4> QED BY <2>2, <2>4, <4>1, <4>3, <4>4, <2>6
    <3>2. (10 * C) * w <= (10 * C) * fit BY <2>1, <2>2, <3>1, TimesMonotone
    <3>3. w * C \in Nat /\ (10 * C) * w = 10 * (w * C) BY <1>1, <3>1, TimesNat
    <3>4. (10 * C) * fit \in Nat BY <2>1, <2>2, TimesNat
    <3>5. w * C <= U
      <4> DEFINE x == w * C
                 y == (10 * C) * fit
      <4>1. x \in Nat /\ y \in Nat /\ 10 * x <= y /\ y <= 8 * U BY <2>2, <3>2, <3>3, <3>4
      <4> HIDE DEF x, y
      <4>2. x <= U BY <1>1, <4>1
      <4> QED BY <4>2 DEF x
    <3> QED BY <1>3, <3>1, <3>5
  <2> QED BY <2>8, <2>9, <2>10, <2>11 DEF U, K, WholeBytes
<1> QED BY <1>5, <1>6

\* What the quantizer is given of more rows than the smallest tile has fits the
\* usable budget: the rows of the estimate are no fewer than its own, or they
\* are a vector, which it takes for one row.
LEMMA TileFits ==
  ASSUME tileJob \in Jobs, Layout # "conv", NEW r \in Nat \ {0},
         NEW w \in 1 .. TileRows(r, InFeatures, LoadedBytes), w > RowUnit,
         Layout = "vector" => w = OutFeatures
  PROVE  Estimate(MatrixRows(w), Width, LoadedBytes) <= Usable
<1> DEFINE b == LoadedBytes
           c == InFeatures
<1>1. /\ OutFeatures \in Nat \ {0} /\ c \in Nat \ {0} /\ Width \in Nat \ {0} /\ b \in Nat \ {0}
      /\ PerOut = 1 /\ Layout \in {"dense", "fused", "vector"}
      /\ Layout \in {"dense", "fused"} => c = Width
      /\ Layout = "vector" => c = 1 /\ OutFeatures = Width
  BY LayoutFacts
<1> HIDE DEF b, c
<1>2. TileRows(r, c, b) \in Nat /\ w \in 1 .. TileRows(r, c, b)
  <2>1. TileRows(r, c, b) \in 1 .. r BY <1>1, TileRowsFacts
  <2> QED BY <2>1 DEF b, c
<1>3. Estimate(w, c, b) <= Usable BY <1>1, <1>2, TileRowsFacts
<1>4. CASE Layout # "vector"
  <2>1. MatrixRows(w) = w
    <3>1. w * 1 = w OBVIOUS
    <3> QED BY <1>1, <1>4, <3>1 DEF MatrixRows
  <2>2. c = Width BY <1>1, <1>4
  <2> QED BY <1>3, <2>1, <2>2 DEF b
<1>5. CASE Layout = "vector"
  <2>1. MatrixRows(w) = 1 /\ c = 1 /\ w = Width BY <1>1, <1>5 DEF MatrixRows
  <2>2. Estimate(1, Width, b) <= Estimate(Width, 1, b) /\ Estimate(1, Width, b) \in Nat
    BY <1>1, EstimateFacts
  <2>3. Estimate(Width, 1, b) \in Nat
    <3>1. Width \in Nat /\ 1 \in Nat \ {0} /\ b \in Nat \ {0} BY <1>1
    <3>2. \A n \in Nat : Estimate(n, 1, b) \in Nat BY <3>1, EstimateFacts
    <3> QED BY <3>1, <3>2
  <2>4. Usable \in Nat BY UsableFacts
  <2> QED BY <1>3, <2>1, <2>2, <2>3, <2>4 DEF b
<1> QED BY <1>4, <1>5

-----------------------------------------------------------------------------
(* The results, joined.                                                    *)

\* Nothing, with a result behind it, is that result.
LEMMA NothingFirst ==
  ASSUME tileJob \in Jobs, NEW x \in Results
  PROVE  Cat(Nothing, x) = x
<1>1. \A X : \A s \in Seq(X) : <<>> \o s = s OBVIOUS
<1>2. /\ x.codes \in Seq(TensorCells) /\ x.scales \in Seq(NumberCells)
      /\ x.zeros \in Seq(NumberCells)
      /\ x = [codes |-> x.codes, scales |-> x.scales, zeros |-> x.zeros]
  BY DEF Results
<1>3. <<>> \o x.codes = x.codes /\ <<>> \o x.scales = x.scales /\ <<>> \o x.zeros = x.zeros
  BY <1>1, <1>2
<1> QED BY <1>2, <1>3 DEF Cat, Nothing

\* The parts of one column, and one part more.
LEMMA ColumnAppend ==
  ASSUME NEW X, NEW s \in Seq(Seq(X)), NEW x \in Seq(X), NEW t, t = Append(s, x)
  PROVE  FlattenSeq(t) = FlattenSeq(s) \o x
BY FlattenedAppend

\* One part more is joined behind the others.
LEMMA ConcatenatedFacts ==
  ASSUME tileJob \in Jobs, NEW parts \in Seq(Results), NEW x \in Results
  PROVE  /\ Concatenated(<<>>) = Nothing
         /\ Concatenated(Append(parts, x)) = Cat(Concatenated(parts), x)
<1>1. Concatenated(<<>>) = Nothing
  <2>1. DOMAIN <<>> = 1 .. 0 /\ Len(<<>>) = 0 OBVIOUS
  <2>2. /\ [i \in DOMAIN <<>> |-> <<>>[i].codes] = <<>>
        /\ [i \in DOMAIN <<>> |-> <<>>[i].scales] = <<>>
        /\ [i \in DOMAIN <<>> |-> <<>>[i].zeros] = <<>>
    BY <2>1
  <2>3. FlattenSeq(<<>>) = <<>> BY <2>1 DEF FlattenSeq
  <2> QED BY <2>2, <2>3 DEF Concatenated, Nothing
<1> DEFINE n == Len(parts)
           all == Append(parts, x)
<1>2. /\ n \in Nat /\ DOMAIN parts = 1 .. n /\ DOMAIN all = 1 .. (n + 1)
      /\ all[n + 1] = x /\ \A i \in 1 .. n : all[i] = parts[i] /\ parts[i] \in Results
  OBVIOUS
<1> HIDE DEF n, all
<1>3. FlattenSeq([i \in DOMAIN all |-> all[i].codes])
      = FlattenSeq([i \in DOMAIN parts |-> parts[i].codes]) \o x.codes
  <2> DEFINE s == [i \in DOMAIN parts |-> parts[i].codes]
             t == [i \in DOMAIN all |-> all[i].codes]
  <2>1. s \in Seq(Seq(TensorCells)) /\ Len(s) = n /\ x.codes \in Seq(TensorCells)
    <3>1. x.codes \in Seq(TensorCells) /\ \A i \in 1 .. n : parts[i].codes \in Seq(TensorCells)
      <4> HIDE DEF s, t
      <4> QED BY <1>2 DEF Results
    <3>2. s = [i \in 1 .. n |-> parts[i].codes] BY <1>2
    <3> HIDE DEF s, t
    <3> QED BY <1>2, <3>1, <3>2
  <2>2. t = Append(s, x.codes)
    <3>1. Append(s, x.codes) = [i \in 1 .. (n + 1) |-> IF i = n + 1 THEN x.codes ELSE s[i]]
      <4> HIDE DEF s
      <4> QED BY <1>2, <2>1
    <3>2. t = [i \in 1 .. (n + 1) |-> all[i].codes] BY <1>2
    <3>3. \A i \in 1 .. (n + 1) : all[i].codes = IF i = n + 1 THEN x.codes ELSE s[i]
      BY <1>2
    <3> HIDE DEF s, t
    <3> QED BY <3>1, <3>2, <3>3
  <2> HIDE DEF s, t
  <2>3. FlattenSeq(t) = FlattenSeq(s) \o x.codes BY <2>1, <2>2, ColumnAppend
  <2> QED BY <2>3 DEF s, t
<1>4. FlattenSeq([i \in DOMAIN all |-> all[i].scales])
      = FlattenSeq([i \in DOMAIN parts |-> parts[i].scales]) \o x.scales
  <2> DEFINE s == [i \in DOMAIN parts |-> parts[i].scales]
             t == [i \in DOMAIN all |-> all[i].scales]
  <2>1. s \in Seq(Seq(NumberCells)) /\ Len(s) = n /\ x.scales \in Seq(NumberCells)
    <3>1. x.scales \in Seq(NumberCells) /\ \A i \in 1 .. n : parts[i].scales \in Seq(NumberCells)
      <4> HIDE DEF s, t
      <4> QED BY <1>2 DEF Results
    <3>2. s = [i \in 1 .. n |-> parts[i].scales] BY <1>2
    <3> HIDE DEF s, t
    <3> QED BY <1>2, <3>1, <3>2
  <2>2. t = Append(s, x.scales)
    <3>1. Append(s, x.scales) = [i \in 1 .. (n + 1) |-> IF i = n + 1 THEN x.scales ELSE s[i]]
      <4> HIDE DEF s
      <4> QED BY <1>2, <2>1
    <3>2. t = [i \in 1 .. (n + 1) |-> all[i].scales] BY <1>2
    <3>3. \A i \in 1 .. (n + 1) : all[i].scales = IF i = n + 1 THEN x.scales ELSE s[i]
      BY <1>2
    <3> HIDE DEF s, t
    <3> QED BY <3>1, <3>2, <3>3
  <2> HIDE DEF s, t
  <2>3. FlattenSeq(t) = FlattenSeq(s) \o x.scales BY <2>1, <2>2, ColumnAppend
  <2> QED BY <2>3 DEF s, t
<1>5. FlattenSeq([i \in DOMAIN all |-> all[i].zeros])
      = FlattenSeq([i \in DOMAIN parts |-> parts[i].zeros]) \o x.zeros
  <2> DEFINE s == [i \in DOMAIN parts |-> parts[i].zeros]
             t == [i \in DOMAIN all |-> all[i].zeros]
  <2>1. s \in Seq(Seq(NumberCells)) /\ Len(s) = n /\ x.zeros \in Seq(NumberCells)
    <3>1. x.zeros \in Seq(NumberCells) /\ \A i \in 1 .. n : parts[i].zeros \in Seq(NumberCells)
      <4> HIDE DEF s, t
      <4> QED BY <1>2 DEF Results
    <3>2. s = [i \in 1 .. n |-> parts[i].zeros] BY <1>2
    <3> HIDE DEF s, t
    <3> QED BY <1>2, <3>1, <3>2
  <2>2. t = Append(s, x.zeros)
    <3>1. Append(s, x.zeros) = [i \in 1 .. (n + 1) |-> IF i = n + 1 THEN x.zeros ELSE s[i]]
      <4> HIDE DEF s
      <4> QED BY <1>2, <2>1
    <3>2. t = [i \in 1 .. (n + 1) |-> all[i].zeros] BY <1>2
    <3>3. \A i \in 1 .. (n + 1) : all[i].zeros = IF i = n + 1 THEN x.zeros ELSE s[i]
      BY <1>2
    <3> HIDE DEF s, t
    <3> QED BY <3>1, <3>2, <3>3
  <2> HIDE DEF s, t
  <2>3. FlattenSeq(t) = FlattenSeq(s) \o x.zeros BY <2>1, <2>2, ColumnAppend
  <2> QED BY <2>3 DEF s, t
<1>6. Concatenated(all) = Cat(Concatenated(parts), x)
  BY <1>3, <1>4, <1>5 DEF Concatenated, Cat
<1> QED BY <1>1, <1>6 DEF all

-----------------------------------------------------------------------------
(* The work on some rows: those done are one result, those left are cut    *)
(* into runs, and the place between them is at a whole byte.               *)

PartOf(e, from, done) == IF done = 0 THEN Nothing ELSE QuantizedRows(e, from, done)

CutAt(got, left, e, from, rows, size) ==
  /\ Layout = "vector" => size >= rows
  /\ \E done \in 0 .. rows :
       /\ done = rows \/ (WholeBytes(done) /\ (Layout = "vector" => done = 0))
       /\ got = PartOf(e, from, done)
       /\ left = Split(e, from + done, rows - done, size)

\* At first nothing is done.
LEMMA CutBegins ==
  ASSUME NEW e \in Nat, NEW from \in Nat, NEW rows \in Nat \ {0}, NEW size \in Nat \ {0},
         Layout = "vector" => size >= rows
  PROVE  CutAt(Nothing, Split(e, from, rows, size), e, from, rows, size)
<1>1. 0 \in 0 .. rows /\ WholeBytes(0) /\ from + 0 = from /\ rows - 0 = rows BY DEF WholeBytes
<1>2. PartOf(e, from, 0) = Nothing BY DEF PartOf
<1> QED BY <1>1, <1>2 DEF CutAt

\* The runs left are within the rows; the result of the next one joins what is
\* done; when none is left the result is that of all rows.
LEMMA CutFacts ==
  ASSUME tileJob \in Jobs, NEW e \in Nat, NEW from \in Nat, NEW rows \in Nat \ {0},
         NEW size \in Nat \ {0}, size >= rows \/ WholeBytes(size),
         NEW got, NEW left, CutAt(got, left, e, from, rows, size)
  PROVE  /\ left = <<>> => got = QuantizedRows(e, from, rows)
         /\ left # <<>> =>
              /\ Head(left).expert = e /\ Head(left).from \in Nat /\ Head(left).rows \in 1 .. rows
              /\ Head(left).rows <= size
              /\ Layout = "vector" => Head(left).rows = rows
              /\ CutAt(Cat(got, QuantizedRows(e, Head(left).from, Head(left).rows)),
                       Tail(left), e, from, rows, size)
         /\ \A i \in DOMAIN left :
              /\ left[i].rows \in 1 .. rows /\ left[i].expert = e
              /\ left[i].from + left[i].rows <= from + rows
<1>1. PICK done \in 0 .. rows :
        /\ done = rows \/ (WholeBytes(done) /\ (Layout = "vector" => done = 0))
        /\ got = PartOf(e, from, done)
        /\ left = Split(e, from + done, rows - done, size)
  BY DEF CutAt
<1>2. Layout = "vector" => size >= rows BY DEF CutAt
<1>3. CASE done = rows
  <2>1. left = <<>>
    <3>1. rows - done = 0 BY <1>3
    <3> QED BY <1>1, <3>1, SplitOfNone
  <2>2. got = QuantizedRows(e, from, rows) BY <1>1, <1>3 DEF PartOf
  <2> QED BY <2>1, <2>2
<1>4. CASE done # rows
  <2> DEFINE at == from + done
             r == rows - done
             w == AtMost(size, r)
  <2>1. /\ at \in Nat /\ r \in Nat \ {0} /\ WholeBytes(done) /\ (Layout = "vector" => done = 0)
        /\ done \in Nat
    BY <1>1, <1>4
  <2>2. left = Split(e, at, r, size) BY <1>1
  <2> HIDE DEF at, r
  <2>3. /\ left # <<>> /\ Head(left) = [expert |-> e, from |-> at, rows |-> w] /\ w \in 1 .. r
        /\ Tail(left) = Split(e, at + w, r - w, size)
        /\ \A i \in DOMAIN left :
             /\ left[i].rows \in 1 .. r /\ left[i].rows <= size /\ left[i].expert = e
             /\ left[i].from \in Nat /\ left[i].from + left[i].rows <= at + r
    <3> DEFINE s == Split(e, at, r, size)
    <3>1. /\ s # <<>>
          /\ Head(s) = [expert |-> e, from |-> at, rows |-> AtMost(size, r)]
          /\ AtMost(size, r) \in 1 .. r
          /\ Tail(s) = Split(e, at + AtMost(size, r), r - AtMost(size, r), size)
          /\ \A i \in DOMAIN s :
               /\ s[i].rows \in 1 .. r /\ s[i].rows <= size
               /\ s[i].expert = e /\ s[i].from \in Nat
               /\ s[i].from + s[i].rows <= at + r
      BY <2>1, SplitFacts
    <3>2. left = s BY <2>2
    <3> HIDE DEF s
    <3> QED BY <3>1, <3>2
  <2>4. w <= size BY <2>1 DEF AtMost
  <2>5. Layout = "vector" => w = rows BY <1>2, <2>1 DEF AtMost, r
  <2>6. w = r \/ (w = size /\ WholeBytes(size) /\ Layout # "vector")
    <3>1. size >= rows => size >= r BY <2>1 DEF r
    <3> QED BY <1>2, <2>1, <3>1 DEF AtMost
  <2> HIDE DEF w
  <2> DEFINE next == done + w
  <2>7. /\ next \in 0 .. rows /\ at + w = from + next /\ r - w = rows - next /\ next # 0
        /\ (w = r => next = rows)
    BY <2>1, <2>3 DEF at, r
  <2>8. next = rows \/ (WholeBytes(next) /\ (Layout = "vector" => next = 0))
    <3>1. CASE w = r BY <2>7, <3>1
    <3>2. CASE w # r
      <4>1. WholeBytes(w) /\ Layout # "vector" /\ w \in Nat BY <2>3, <2>6, <3>2, <2>1
      <4>2. (done + w) % 8 = 0 BY <2>1, <4>1 DEF WholeBytes
      <4> QED BY <4>1, <4>2 DEF WholeBytes
    <3> QED BY <3>1, <3>2
  <2>9. Cat(got, QuantizedRows(e, at, w)) = PartOf(e, from, next)
    <3>1. w \in Nat BY <2>1, <2>3
    <3>2. CASE done = 0
      <4>1. got = Nothing /\ at = from /\ next = w BY <1>1, <2>1, <3>2, <3>1 DEF PartOf, at
      <4>2. QuantizedRows(e, at, w) \in Results BY <2>1, <3>1, QuantizedFacts
      <4>3. Cat(Nothing, QuantizedRows(e, at, w)) = QuantizedRows(e, at, w)
        BY <4>2, NothingFirst
      <4> QED BY <2>7, <4>1, <4>3 DEF PartOf
    <3>3. CASE done # 0
      <4>1. Layout # "vector" /\ got = QuantizedRows(e, from, done) BY <1>1, <2>1, <3>3 DEF PartOf
      <4>2. QuantizedRows(e, from, done + w)
            = Cat(QuantizedRows(e, from, done), QuantizedRows(e, from + done, w))
        <5>1. done \in Nat /\ WholeBytes(done) BY <2>1 DEF WholeBytes
        <5> HIDE DEF next
        <5> QED BY <3>1, <4>1, <5>1, CutIsWhole
      <4> QED BY <2>7, <4>1, <4>2 DEF PartOf, at
    <3> QED BY <3>2, <3>3
  <2>10. CutAt(Cat(got, QuantizedRows(e, at, w)), Tail(left), e, from, rows, size)
    <3>1. Tail(left) = Split(e, from + next, rows - next, size) BY <2>3, <2>7
    <3> HIDE DEF next
    <3> QED BY <1>2, <2>7, <2>8, <2>9, <3>1 DEF CutAt
  <2>11. ASSUME NEW i \in DOMAIN left
         PROVE  /\ left[i].rows \in 1 .. rows /\ left[i].expert = e
                /\ left[i].from + left[i].rows <= from + rows
    <3>1. at + r = from + rows /\ r <= rows BY <2>1 DEF at, r
    <3>2. left[i].rows \in 1 .. r /\ left[i].expert = e /\ left[i].from + left[i].rows <= at + r
      BY <2>3
    <3> QED BY <2>1, <3>1, <3>2
  <2>12. w \in 1 .. rows
    <3>1. r <= rows BY <2>1 DEF r
    <3> QED BY <2>1, <2>3, <3>1
  <2> QED BY <2>1, <2>3, <2>4, <2>5, <2>10, <2>11, <2>12
<1> QED BY <1>3, <1>4

-----------------------------------------------------------------------------
(* The work on a tensor.                                                   *)

\* The rows of the checkpoint that are read at once.
ReadSize == TileRows(OutFeatures, InFeatures, tileJob.bytes)

\* The rows of the current matrix that are quantized at once.
TileSize(rows) == TileRows(rows, InFeatures, LoadedBytes)

FusedAt(n, js, ms) ==
  /\ js = [e \in 1 .. n |-> QuantizedRows(e - 1, 0, OutFeatures)]
  /\ ms = [e \in 1 .. (tileJob.shape[1] - n) |->
             [expert |-> n + e - 1, from |-> 0, rows |-> OutFeatures]]

\* The matrices that are done, and those that are left.
DoneAndLeft(js, ms) ==
  IF Layout = "fused" THEN \E n \in 0 .. tileJob.shape[1] : FusedAt(n, js, ms)
  ELSE js \in Seq(Results) /\ CutAt(Concatenated(js), ms, 0, 0, OutFeatures, ReadSize)

\* The tiles of the current matrix that are done, and those that are left.
Tiling(m, p, ts) ==
  \/ ts = <<>> /\ p = Nothing
  \/ CutAt(p, ts, m.expert, m.from, m.rows, TileSize(m.rows))

Whole(js) ==
  js = IF Layout = "fused"
         THEN [e \in 1 .. tileJob.shape[1] |-> QuantizedRows(e - 1, 0, OutFeatures)]
         ELSE <<QuantizedRows(0, 0, OutFeatures)>>

WorkAt(phase, js, ms, p, ts) ==
  \/ phase = "plan" /\ ms = <<>> /\ ts = <<>> /\ p = Nothing /\ js = <<>>
  \/ phase = "matrices" /\ DoneAndLeft(js, ms)
     /\ IF ms = <<>> THEN ts = <<>> /\ p = Nothing ELSE Tiling(Head(ms), p, ts)
  \/ phase = "over" /\ ts = <<>> /\ Whole(js)
  \/ phase = "raised" /\ ts = <<>>

Working == WorkAt(tilePhase, joined, matrices, part, tiles)

PeakFits == peak \in Nat /\ (Layout # "conv" => peak <= Usable)

TileInv == tileJob \in Jobs /\ Working /\ PeakFits

\* The sizes of a read and of a tile are at least a row and at most all rows,
\* and cut at whole bytes unless they leave nothing to cut.
LEMMA SizeFacts ==
  ASSUME tileJob \in Jobs
  PROVE  /\ ReadSize \in 1 .. OutFeatures
         /\ ReadSize >= OutFeatures \/ WholeBytes(ReadSize)
         /\ \A r \in Nat \ {0} : /\ TileSize(r) \in 1 .. r
                                 /\ TileSize(r) >= r \/ WholeBytes(TileSize(r))
<1>1. /\ OutFeatures \in Nat \ {0} /\ InFeatures \in Nat \ {0} /\ LoadedBytes \in Nat \ {0}
      /\ tileJob.bytes \in Nat \ {0}
  BY LayoutFacts DEF Jobs
<1>2. ReadSize \in 1 .. OutFeatures /\ (ReadSize = OutFeatures \/ WholeBytes(ReadSize))
  BY <1>1, TileRowsFacts DEF ReadSize
<1>3. ASSUME NEW r \in Nat \ {0}
      PROVE  TileSize(r) \in 1 .. r /\ (TileSize(r) = r \/ WholeBytes(TileSize(r)))
  BY <1>1, TileRowsFacts DEF TileSize
<1>4. ReadSize >= OutFeatures \/ WholeBytes(ReadSize) BY <1>1, <1>2
<1>5. ASSUME NEW r \in Nat \ {0} PROVE TileSize(r) >= r \/ WholeBytes(TileSize(r))
  BY <1>3
<1> QED BY <1>2, <1>3, <1>4, <1>5

\* The current matrix is some rows of the tensor, a vector whole.
LEMMA MatrixFacts ==
  ASSUME tileJob \in Jobs, NEW js, NEW ms, DoneAndLeft(js, ms), ms # <<>>
  PROVE  /\ Head(ms).expert \in Nat /\ Head(ms).from \in Nat
         /\ Head(ms).rows \in Nat \ {0}
         /\ Layout = "vector" => Head(ms).rows = OutFeatures
<1> DEFINE m == Head(ms)
<1>1. OutFeatures \in Nat \ {0} BY LayoutFacts
<1>2. CASE Layout = "fused"
  <2>1. PICK n \in 0 .. tileJob.shape[1] : FusedAt(n, js, ms) BY <1>2 DEF DoneAndLeft
  <2>2. tileJob.shape[1] \in Nat \ {0} BY <1>2, LayoutFacts
  <2> DEFINE k == tileJob.shape[1] - n
  <2>3. ms = [e \in 1 .. k |-> [expert |-> n + e - 1, from |-> 0, rows |-> OutFeatures]]
    BY <2>1 DEF FusedAt
  <2>4. k \in Nat /\ n \in Nat BY <2>2
  <2> HIDE DEF k
  <2>5. k # 0 BY <2>3, <2>4
  <2>6. m = [expert |-> n + 1 - 1, from |-> 0, rows |-> OutFeatures] BY <2>3, <2>4, <2>5
  <2> HIDE DEF m
  <2> QED BY <1>1, <2>4, <2>6, <1>2 DEF m
<1>3. CASE Layout # "fused"
  <2>1. CutAt(Concatenated(js), ms, 0, 0, OutFeatures, ReadSize) BY <1>3 DEF DoneAndLeft
  <2>2. ReadSize \in Nat \ {0} /\ (ReadSize >= OutFeatures \/ WholeBytes(ReadSize))
    BY <1>1, SizeFacts
  <2>3. /\ m.expert = 0 /\ m.from \in Nat /\ m.rows \in 1 .. OutFeatures
        /\ Layout = "vector" => m.rows = OutFeatures
    BY <1>1, <2>1, <2>2, CutFacts
  <2> HIDE DEF m
  <2> QED BY <1>1, <2>3 DEF m
<1> QED BY <1>2, <1>3

\* Nothing that is made from the job alone changes with a step.
LEMMA JobStays ==
  ASSUME tileJob' = tileJob
  PROVE  /\ Layout' = Layout /\ OutFeatures' = OutFeatures /\ InFeatures' = InFeatures
         /\ LoadedBytes' = LoadedBytes /\ Usable' = Usable /\ ReadSize' = ReadSize
         /\ Width' = Width /\ PerOut' = PerOut /\ Results' = Results
         /\ (tileJob \in Jobs)' <=> tileJob \in Jobs
         /\ \A r : TileSize(r)' = TileSize(r)
         /\ \A e, f, r : QuantizedRows(e, f, r)' = QuantizedRows(e, f, r)
<1>1. Layout' = Layout BY DEF Layout
<1>2. OutFeatures' = OutFeatures /\ InFeatures' = InFeatures BY <1>1 DEF OutFeatures, InFeatures
<1>3. LoadedBytes' = LoadedBytes /\ Usable' = Usable BY DEF LoadedBytes, Usable
<1>4. Width' = Width /\ PerOut' = PerOut BY <1>1 DEF Width, PerOut
<1>5. Results' = Results BY DEF Results, TensorCells
<1>6. \A r, c, b : TileRows(r, c, b)' = TileRows(r, c, b)
  BY <1>3 DEF TileRows, Estimate, RowCost, Padded
<1>7. ReadSize' = ReadSize /\ \A r : TileSize(r)' = TileSize(r)
  BY <1>2, <1>3, <1>6 DEF ReadSize, TileSize
<1>8. \A e, f, r : QuantizedRows(e, f, r)' = QuantizedRows(e, f, r)
  BY <1>1, <1>2, <1>4 DEF QuantizedRows, MatrixRows
<1> QED BY <1>1, <1>2, <1>3, <1>4, <1>5, <1>7, <1>8

-----------------------------------------------------------------------------
(* The steps.                                                              *)

\* A step that leaves the job and the peak leaves the peak within the budget.
LEMMA PeakStays ==
  ASSUME PeakFits, tileJob' = tileJob, peak' = peak PROVE PeakFits'
BY JobStays DEF PeakFits

\* The work after a step is judged by the job before it.
LEMMA WorkStays ==
  ASSUME tileJob' = tileJob, WorkAt(tilePhase', joined', matrices', part', tiles')
  PROVE  Working'
<1>1. ASSUME NEW got, NEW left, NEW e, NEW from, NEW rows, NEW size
      PROVE  CutAt(got, left, e, from, rows, size)' <=> CutAt(got, left, e, from, rows, size)
  <2>1. \A d : PartOf(e, from, d)' = PartOf(e, from, d) BY JobStays DEF PartOf
  <2>2. Layout' = Layout BY JobStays
  <2> QED BY <2>1, <2>2 DEF CutAt
<1>2. ASSUME NEW n, NEW js, NEW ms PROVE FusedAt(n, js, ms)' <=> FusedAt(n, js, ms)
  BY JobStays DEF FusedAt
<1>3. ASSUME NEW js, NEW ms PROVE DoneAndLeft(js, ms)' <=> DoneAndLeft(js, ms)
  <2>1. /\ Layout' = Layout /\ OutFeatures' = OutFeatures /\ ReadSize' = ReadSize
        /\ Results' = Results
    BY JobStays
  <2>2. \A n : FusedAt(n, js, ms)' <=> FusedAt(n, js, ms) BY <1>2
  <2>3. \A o, z : CutAt(Concatenated(js), ms, 0, 0, o, z)'
                  <=> CutAt(Concatenated(js), ms, 0, 0, o, z)
    BY <1>1
  <2> QED BY <2>1, <2>2, <2>3 DEF DoneAndLeft
<1>4. ASSUME NEW m, NEW p, NEW ts PROVE Tiling(m, p, ts)' <=> Tiling(m, p, ts)
  BY <1>1, JobStays DEF Tiling
<1>5. ASSUME NEW js PROVE Whole(js)' <=> Whole(js) BY JobStays DEF Whole
<1>6. ASSUME NEW ph, NEW js, NEW ms, NEW p, NEW ts, WorkAt(ph, js, ms, p, ts)
      PROVE  WorkAt(ph, js, ms, p, ts)'
  BY <1>3, <1>4, <1>5, <1>6 DEF WorkAt
<1> QED BY <1>6 DEF Working

\* The tensor is laid out as matrices, none of them done.
LEMMA PlanKeeps ==
  ASSUME TileInv, Plan PROVE TileInv'
<1> DEFINE s == tileJob.shape
           ms == matrices'
           N == tileJob.shape[1]
<1>1. /\ tileJob \in Jobs /\ tilePhase = "plan" /\ tilePhase' = "matrices" /\ tileJob' = tileJob
      /\ peak' = peak /\ tiles' = tiles /\ part' = part /\ joined' = joined
      /\ ~(Layout = "vector" /\ ReadSize < OutFeatures)
      /\ matrices' = IF Layout = "fused"
                       THEN [e \in 1 .. tileJob.shape[1] |->
                               [expert |-> e - 1, from |-> 0, rows |-> OutFeatures]]
                       ELSE Split(0, 0, OutFeatures, ReadSize)
  BY DEF TileInv, Plan, ReadSize
<1>2. tiles = <<>> /\ part = Nothing /\ joined = <<>>
  BY <1>1 DEF TileInv, Working, WorkAt
<1>3. /\ OutFeatures \in Nat \ {0} /\ ReadSize \in Nat \ {0}
      /\ Layout = "vector" => ReadSize >= OutFeatures
  <2>1. OutFeatures \in Nat \ {0} /\ ReadSize \in 1 .. OutFeatures BY <1>1, LayoutFacts, SizeFacts
  <2> QED BY <1>1, <2>1
<1>4. DoneAndLeft(<<>>, ms)
  <2>1. CASE Layout = "fused"
    <3>1. N \in Nat \ {0} BY <1>1, <2>1, LayoutFacts
    <3>2. <<>> = [e \in 1 .. 0 |-> QuantizedRows(e - 1, 0, OutFeatures)] OBVIOUS
    <3>3. ms = [e \in 1 .. (N - 0) |-> [expert |-> 0 + e - 1, from |-> 0, rows |-> OutFeatures]]
      <4>1. N - 0 = N /\ \A e \in 1 .. N : 0 + e - 1 = e - 1 BY <3>1
      <4> QED BY <1>1, <2>1, <4>1
    <3>4. FusedAt(0, <<>>, ms)
      <4> HIDE DEF ms
      <4> QED BY <3>2, <3>3 DEF FusedAt
    <3>5. 0 \in 0 .. N BY <3>1
    <3> HIDE DEF ms
    <3> QED BY <2>1, <3>4, <3>5 DEF DoneAndLeft
  <2>2. CASE Layout # "fused"
    <3>1. ms = Split(0, 0, OutFeatures, ReadSize) BY <1>1, <2>2
    <3>2. CutAt(Nothing, Split(0, 0, OutFeatures, ReadSize), 0, 0, OutFeatures, ReadSize)
      BY <1>3, CutBegins
    <3>3. <<>> \in Seq(Results) BY EmptySeq
    <3>4. Concatenated(<<>>) = Nothing
      <4>1. QuantizedRows(0, 0, 0) \in Results BY <1>1, QuantizedFacts
      <4> QED BY <1>1, <3>3, <4>1, ConcatenatedFacts
    <3> QED BY <2>2, <3>1, <3>2, <3>3, <3>4 DEF DoneAndLeft
  <2> QED BY <2>1, <2>2
<1>5. WorkAt("matrices", <<>>, ms, Nothing, <<>>)
  <2> HIDE DEF ms
  <2> QED BY <1>4 DEF WorkAt, Tiling
<1>6. Working'
  <2>1. WorkAt(tilePhase', joined', matrices', part', tiles') BY <1>1, <1>2, <1>5
  <2> QED BY <1>1, <2>1, WorkStays
<1>7. PeakFits' BY <1>1, PeakStays DEF TileInv
<1> QED BY <1>1, <1>6, <1>7 DEF TileInv

\* A call that fails is over and has no tiles.
LEMMA RaisesKeep ==
  ASSUME TileInv, PlanRaises \/ BeginRaises PROVE TileInv'
<1>1. /\ tileJob' = tileJob /\ peak' = peak /\ tilePhase' = "raised" /\ tiles' = tiles
      /\ tilePhase = "plan" \/ tiles = <<>>
  BY DEF PlanRaises, BeginRaises
<1>2. tiles = <<>> BY <1>1 DEF TileInv, Working, WorkAt
<1>3. Working'
  <2>1. WorkAt(tilePhase', joined', matrices', part', tiles') BY <1>1, <1>2 DEF WorkAt
  <2> QED BY <1>1, <2>1, WorkStays
<1> QED BY <1>1, <1>3, PeakStays DEF TileInv

\* While matrices are left the phase is theirs.
LEMMA AtMatrix ==
  ASSUME TileInv, matrices # <<>>, tilePhase = "matrices"
  PROVE  /\ DoneAndLeft(joined, matrices) /\ Tiling(Head(matrices), part, tiles)
         /\ Head(matrices).expert \in Nat /\ Head(matrices).from \in Nat
         /\ Head(matrices).rows \in Nat \ {0}
         /\ Layout = "vector" => Head(matrices).rows = OutFeatures
<1>1. DoneAndLeft(joined, matrices) /\ Tiling(Head(matrices), part, tiles)
  BY DEF TileInv, Working, WorkAt
<1> QED BY <1>1, MatrixFacts DEF TileInv

\* A matrix is cut into tiles, none of them done.
LEMMA BeginMatrixKeeps ==
  ASSUME TileInv, BeginMatrix PROVE TileInv'
<1> DEFINE m == Head(matrices)
           z == TileSize(m.rows)
<1>1. /\ tileJob \in Jobs /\ tilePhase = "matrices" /\ matrices # <<>> /\ part = Nothing
      /\ ~(Layout = "vector" /\ z < m.rows)
      /\ tiles' = Split(m.expert, m.from, m.rows, z)
      /\ tilePhase' = tilePhase /\ tileJob' = tileJob /\ matrices' = matrices
      /\ part' = part /\ joined' = joined /\ peak' = peak
  BY DEF TileInv, BeginMatrix, TileSize
<1>2. /\ DoneAndLeft(joined, matrices) /\ m.expert \in Nat /\ m.from \in Nat /\ m.rows \in Nat \ {0}
  BY <1>1, AtMatrix
<1>3. z \in Nat \ {0} /\ (Layout = "vector" => z >= m.rows)
  <2>1. z \in 1 .. m.rows BY <1>1, <1>2, SizeFacts
  <2> HIDE DEF z, m
  <2> QED BY <1>1, <1>2, <2>1
<1> HIDE DEF z, m
<1>4. CutAt(Nothing, tiles', m.expert, m.from, m.rows, z) BY <1>1, <1>2, <1>3, CutBegins
<1>5. WorkAt(tilePhase', joined', matrices', part', tiles')
  BY <1>1, <1>2, <1>4 DEF WorkAt, Tiling, m, z
<1>6. Working' BY <1>1, <1>5, WorkStays
<1> QED BY <1>1, <1>6, PeakStays DEF TileInv

\* The tile done joins the others; the estimate of what was given is judged.
LEMMA QuantizeTileKeeps ==
  ASSUME TileInv, QuantizeTile PROVE TileInv'
<1> DEFINE m == Head(matrices)
           z == TileSize(m.rows)
           t == Head(tiles)
           got == Cat(part, QuantizedRows(m.expert, t.from, t.rows))
<1>1. /\ tileJob \in Jobs /\ tiles # <<>> /\ part' = Cat(part, Quantized(t)) /\ tiles' = Tail(tiles)
      /\ peak' = IF t.rows <= RowUnit THEN peak
                 ELSE AtLeast(peak, Estimate(MatrixRows(t.rows), Width, LoadedBytes))
      /\ tilePhase' = tilePhase /\ tileJob' = tileJob /\ matrices' = matrices /\ joined' = joined
  BY DEF TileInv, QuantizeTile
<1>2. tilePhase = "matrices" /\ matrices # <<>> BY <1>1 DEF TileInv, Working, WorkAt
<1>3. /\ DoneAndLeft(joined, matrices) /\ Tiling(m, part, tiles)
      /\ m.expert \in Nat /\ m.from \in Nat /\ m.rows \in Nat \ {0}
      /\ Layout = "vector" => m.rows = OutFeatures
  BY <1>2, AtMatrix
<1>4. z \in 1 .. m.rows /\ (z >= m.rows \/ WholeBytes(z)) BY <1>1, <1>3, SizeFacts
<1>5. CutAt(part, tiles, m.expert, m.from, m.rows, z) BY <1>1, <1>3 DEF Tiling
<1> HIDE DEF m, z
<1>6. /\ t.expert = m.expert /\ t.from \in Nat /\ t.rows \in 1 .. m.rows /\ t.rows <= z
      /\ Layout = "vector" => t.rows = m.rows
      /\ CutAt(got, Tail(tiles), m.expert, m.from, m.rows, z)
  <2>1. z \in Nat \ {0} BY <1>3, <1>4
  <2> QED BY <1>1, <1>3, <1>4, <1>5, <2>1, CutFacts
<1> HIDE DEF t
<1>7. part' = got BY <1>1, <1>6 DEF Quantized
<1> HIDE DEF got
<1>8. WorkAt(tilePhase', joined', matrices', part', tiles')
  BY <1>1, <1>2, <1>3, <1>6, <1>7 DEF WorkAt, Tiling, m, z
<1>9. Working' BY <1>1, <1>8, WorkStays
<1>10. PeakFits'
  <2> DEFINE cost == Estimate(MatrixRows(t.rows), Width, LoadedBytes)
  <2>1. PeakFits /\ Usable \in Nat BY <1>1, UsableFacts DEF TileInv
  <2>2. t.rows \in Nat /\ z \in Nat BY <1>3, <1>4, <1>6
  <2>3. cost \in Nat
    <3>1. /\ MatrixRows(t.rows) \in Nat /\ Width \in Nat \ {0} /\ LoadedBytes \in Nat \ {0}
      <4>1. 0 \in Nat OBVIOUS
      <4> QED BY <1>1, <2>2, <4>1, QuantizedFacts, LayoutFacts
    <3> QED BY <1>1, <3>1, EstimateFacts
  <2>4. ASSUME Layout # "conv", ~(t.rows <= RowUnit) PROVE cost <= Usable
    <3>1. t.rows \in 1 .. TileRows(m.rows, InFeatures, LoadedBytes)
      BY <1>3, <1>4, <1>6 DEF z, TileSize
    <3>2. t.rows > RowUnit BY <2>2, <2>4, TilerAssumption
    <3>3. Layout = "vector" => t.rows = OutFeatures BY <1>3, <1>6
    <3> HIDE DEF cost
    <3> QED BY <1>1, <1>3, <2>4, <3>1, <3>2, <3>3, TileFits DEF cost
  <2> HIDE DEF cost
  <2>5. peak' \in Nat /\ (Layout # "conv" => peak' <= Usable)
    <3>1. peak \in Nat /\ (Layout # "conv" => peak <= Usable) BY <2>1 DEF PeakFits
    <3>2. peak' = IF t.rows <= RowUnit THEN peak ELSE AtLeast(peak, cost) BY <1>1 DEF cost
    <3> QED BY <2>1, <2>3, <2>4, <3>1, <3>2 DEF AtLeast
  <2> QED BY <1>1, <2>5, JobStays DEF PeakFits
<1> QED BY <1>1, <1>9, <1>10 DEF TileInv

\* The experts done and those left, when one more is.
LEMMA FusedMoves ==
  ASSUME tileJob \in Jobs, Layout = "fused", NEW n \in 0 .. tileJob.shape[1], NEW js, NEW ms,
         FusedAt(n, js, ms), ms # <<>>
  PROVE  /\ n + 1 \in 0 .. tileJob.shape[1]
         /\ Head(ms) = [expert |-> n, from |-> 0, rows |-> OutFeatures]
         /\ FusedAt(n + 1, Append(js, QuantizedRows(n, 0, OutFeatures)), Tail(ms))
<1> DEFINE N == tileJob.shape[1]
           k == N - n
           M(e) == [expert |-> n + e - 1, from |-> 0, rows |-> OutFeatures]
           Q(e) == QuantizedRows(e - 1, 0, OutFeatures)
<1>1. N \in Nat /\ n \in Nat /\ k \in Nat BY LayoutFacts
<1>2. ms = [e \in 1 .. k |-> M(e)] /\ js = [e \in 1 .. n |-> Q(e)] BY DEF FusedAt
<1> HIDE DEF k
<1>3. k # 0 BY <1>1, <1>2
<1>4. n + 1 \in 0 .. N /\ N - (n + 1) = k - 1 BY <1>1, <1>3 DEF k
<1>5. Head(ms) = M(1)
  <2>1. 1 \in 1 .. k BY <1>1, <1>3
  <2> HIDE DEF M
  <2> QED BY <1>1, <1>2, <2>1
<1>6. M(1) = [expert |-> n, from |-> 0, rows |-> OutFeatures]
  <2>1. n + 1 - 1 = n BY <1>1
  <2> QED BY <2>1
<1>7. Append(js, QuantizedRows(n, 0, OutFeatures)) = [e \in 1 .. (n + 1) |-> Q(e)]
  <2>1. Q(n + 1) = QuantizedRows(n, 0, OutFeatures)
    <3>1. n + 1 - 1 = n BY <1>1
    <3> QED BY <3>1
  <2> HIDE DEF Q
  <2>2. Append(js, Q(n + 1)) = [e \in 1 .. (n + 1) |-> IF e = n + 1 THEN Q(n + 1) ELSE js[e]]
    BY <1>1, <1>2
  <2>3. \A e \in 1 .. (n + 1) : (IF e = n + 1 THEN Q(n + 1) ELSE js[e]) = Q(e)
    BY <1>1, <1>2
  <2> QED BY <2>1, <2>2, <2>3
<1>8. Tail(ms) = [e \in 1 .. (k - 1) |-> [expert |-> (n + 1) + e - 1, from |-> 0, rows |-> OutFeatures]]
  <2> DEFINE S == {M(e) : e \in 1 .. k}
             v == Tail(ms)
  <2>1. ms \in Seq(S) /\ ms # <<>> /\ Len(ms) = k
    <3> HIDE DEF M
    <3>1. ms \in [1 .. k -> S] BY <1>2
    <3>2. ms \in Seq(S)
      <4> HIDE DEF S
      <4> QED BY <1>1, <3>1
    <3>3. Len(ms) = k
      <4> HIDE DEF S
      <4> QED BY <1>1, <1>2
    <3> QED BY <1>1, <1>3, <3>2, <3>3
  <2>2. \A e \in 1 .. k : ms[e] = M(e) BY <1>2
  <2> HIDE DEF S, M
  <2>3. v \in Seq(S) /\ Len(v) = k - 1 /\ \A e \in 1 .. (k - 1) : v[e] = ms[e + 1]
    BY <1>1, <2>1
  <2> HIDE DEF v
  <2>4. v = [e \in 1 .. (k - 1) |-> v[e]] BY <1>1, <1>3, <2>3
  <2>5. ASSUME NEW e \in 1 .. (k - 1) PROVE e + 1 \in 1 .. k /\ v[e] = M(e + 1)
    <3>1. e + 1 \in 1 .. k BY <1>1
    <3>2. ms[e + 1] = M(e + 1) BY <2>2, <3>1
    <3> QED BY <2>3, <3>1, <3>2
  <2>6. \A e \in 1 .. (k - 1) :
          M(e + 1) = [expert |-> (n + 1) + e - 1, from |-> 0, rows |-> OutFeatures]
    <3>1. \A e \in 1 .. (k - 1) : n + (e + 1) - 1 = (n + 1) + e - 1 BY <1>1
    <3> QED BY <3>1 DEF M
  <2> QED BY <2>4, <2>5, <2>6 DEF v
<1> HIDE DEF M, Q, N
<1> QED BY <1>4, <1>5, <1>6, <1>7, <1>8 DEF FusedAt, N, Q

\* A matrix whose tiles are all done joins the matrices done before it.
LEMMA EndMatrixKeeps ==
  ASSUME TileInv, EndMatrix PROVE TileInv'
<1> DEFINE m == Head(matrices)
           z == TileSize(m.rows)
<1>1. /\ tileJob \in Jobs /\ tilePhase = "matrices" /\ matrices # <<>> /\ tiles = <<>>
      /\ part # Nothing
      /\ joined' = Append(joined, part) /\ matrices' = Tail(matrices) /\ part' = Nothing
      /\ tilePhase' = tilePhase /\ tileJob' = tileJob /\ tiles' = tiles /\ peak' = peak
  BY DEF TileInv, EndMatrix
<1>2. /\ DoneAndLeft(joined, matrices) /\ Tiling(m, part, tiles)
      /\ m.expert \in Nat /\ m.from \in Nat /\ m.rows \in Nat \ {0}
  BY <1>1, AtMatrix
<1>3. part = QuantizedRows(m.expert, m.from, m.rows)
  <2>1. CutAt(part, tiles, m.expert, m.from, m.rows, z) BY <1>1, <1>2 DEF Tiling
  <2>2. z \in 1 .. m.rows /\ (z >= m.rows \/ WholeBytes(z)) BY <1>1, <1>2, SizeFacts
  <2> HIDE DEF z, m
  <2>3. z \in Nat \ {0} BY <1>2, <2>2
  <2> QED BY <1>1, <1>2, <2>1, <2>2, <2>3, CutFacts
<1> HIDE DEF m
<1>4. OutFeatures \in Nat \ {0} BY <1>1, LayoutFacts
<1>5. DoneAndLeft(Append(joined, part), Tail(matrices))
  <2>1. CASE Layout = "fused"
    <3>1. PICK n \in 0 .. tileJob.shape[1] : FusedAt(n, joined, matrices)
      BY <1>2, <2>1 DEF DoneAndLeft
    <3>2. /\ n + 1 \in 0 .. tileJob.shape[1]
          /\ m = [expert |-> n, from |-> 0, rows |-> OutFeatures]
          /\ FusedAt(n + 1, Append(joined, QuantizedRows(n, 0, OutFeatures)), Tail(matrices))
      BY <1>1, <2>1, <3>1, FusedMoves DEF m
    <3>3. part = QuantizedRows(n, 0, OutFeatures) BY <1>3, <3>2
    <3> QED BY <2>1, <3>2, <3>3 DEF DoneAndLeft
  <2>2. CASE Layout # "fused"
    <3>1. joined \in Seq(Results)
          /\ CutAt(Concatenated(joined), matrices, 0, 0, OutFeatures, ReadSize)
      BY <1>2, <2>2 DEF DoneAndLeft
    <3>2. ReadSize \in Nat \ {0} /\ (ReadSize >= OutFeatures \/ WholeBytes(ReadSize))
      BY <1>1, <1>4, SizeFacts
    <3>3. /\ m.expert = 0
          /\ CutAt(Cat(Concatenated(joined), QuantizedRows(0, m.from, m.rows)),
                   Tail(matrices), 0, 0, OutFeatures, ReadSize)
      <4>1. 0 \in Nat OBVIOUS
      <4> QED BY <1>1, <1>4, <3>1, <3>2, <4>1, CutFacts DEF m
    <3>4. part = QuantizedRows(0, m.from, m.rows) BY <1>3, <3>3
    <3>5. part \in Results BY <1>1, <1>2, <1>3, QuantizedFacts
    <3>6. Concatenated(Append(joined, part)) = Cat(Concatenated(joined), part)
      BY <1>1, <3>1, <3>5, ConcatenatedFacts
    <3>7. Append(joined, part) \in Seq(Results) BY <3>1, <3>5
    <3> QED BY <2>2, <3>3, <3>4, <3>6, <3>7 DEF DoneAndLeft
  <2> QED BY <2>1, <2>2
<1>6. WorkAt(tilePhase', joined', matrices', part', tiles') BY <1>1, <1>5 DEF WorkAt, Tiling
<1>7. Working' BY <1>1, <1>6, WorkStays
<1> QED BY <1>1, <1>7, PeakStays DEF TileInv

\* With no matrix left the results are those of the whole tensor.
LEMMA EndAddressKeeps ==
  ASSUME TileInv, EndAddress PROVE TileInv'
<1>1. /\ tileJob \in Jobs /\ tilePhase = "matrices" /\ matrices = <<>> /\ tilePhase' = "over"
      /\ joined' = IF Layout = "fused" THEN joined ELSE <<Concatenated(joined)>>
      /\ tileJob' = tileJob /\ tiles' = tiles /\ peak' = peak
  BY DEF TileInv, EndAddress
<1>2. DoneAndLeft(joined, <<>>) /\ tiles = <<>> BY <1>1 DEF TileInv, Working, WorkAt
<1>3. Whole(joined')
  <2>1. CASE Layout = "fused"
    <3> DEFINE N == tileJob.shape[1]
    <3>1. PICK n \in 0 .. N : FusedAt(n, joined, <<>>) BY <1>2, <2>1 DEF DoneAndLeft
    <3>2. N \in Nat /\ n \in Nat /\ n <= N BY <1>1, <2>1, LayoutFacts
    <3>3. N - n = 0
      <4> DEFINE k == N - n
      <4>1. k \in Nat /\ DOMAIN <<>> = 1 .. k BY <3>1, <3>2 DEF FusedAt
      <4> HIDE DEF k
      <4>2. k = 0 BY <4>1
      <4> QED BY <4>2 DEF k
    <3>4. n = N BY <3>2, <3>3
    <3>5. joined' = [e \in 1 .. N |-> QuantizedRows(e - 1, 0, OutFeatures)]
      BY <1>1, <2>1, <3>1, <3>4 DEF FusedAt
    <3> QED BY <2>1, <3>5 DEF Whole
  <2>2. CASE Layout # "fused"
    <3>1. CutAt(Concatenated(joined), <<>>, 0, 0, OutFeatures, ReadSize)
      BY <1>2, <2>2 DEF DoneAndLeft
    <3>2. OutFeatures \in Nat \ {0} /\ 0 \in Nat BY <1>1, LayoutFacts
    <3>3. ReadSize \in Nat \ {0} /\ (ReadSize >= OutFeatures \/ WholeBytes(ReadSize))
      BY <1>1, <3>2, SizeFacts
    <3>4. Concatenated(joined) = QuantizedRows(0, 0, OutFeatures)
      BY <1>1, <3>1, <3>2, <3>3, CutFacts
    <3> QED BY <1>1, <2>2, <3>4 DEF Whole
  <2> QED BY <2>1, <2>2
<1>4. WorkAt(tilePhase', joined', matrices', part', tiles') BY <1>1, <1>2, <1>3 DEF WorkAt
<1>5. Working' BY <1>1, <1>4, WorkStays
<1> QED BY <1>1, <1>5, PeakStays DEF TileInv

-----------------------------------------------------------------------------
(* The theorems.                                                           *)

\* What is to be known of a tensor whose quantization has begun.
LEMMA TileInvHolds == TileSpec => []TileInv
<1>1. TileInit => TileInv
  <2> SUFFICES ASSUME TileInit PROVE TileInv OBVIOUS
  <2>1. tileJob \in Jobs BY TilerAssumption DEF TileInit
  <2>2. Working BY DEF TileInit, Working, WorkAt
  <2>3. PeakFits
    <3>1. peak = 0 BY DEF TileInit
    <3> QED BY <2>1, <3>1, UsableFacts DEF PeakFits
  <2> QED BY <2>1, <2>2, <2>3 DEF TileInv
<1>2. TileInv /\ [TileNext]_tileVars => TileInv'
  <2> SUFFICES ASSUME TileInv, [TileNext]_tileVars PROVE TileInv' OBVIOUS
  <2>1. CASE Plan BY <2>1, PlanKeeps
  <2>2. CASE PlanRaises BY <2>2, RaisesKeep
  <2>3. CASE BeginMatrix BY <2>3, BeginMatrixKeeps
  <2>4. CASE BeginRaises BY <2>4, RaisesKeep
  <2>5. CASE QuantizeTile BY <2>5, QuantizeTileKeeps
  <2>6. CASE EndMatrix BY <2>6, EndMatrixKeeps
  <2>7. CASE EndAddress BY <2>7, EndAddressKeeps
  <2>8. CASE UNCHANGED tileVars
    <3>1. /\ tilePhase' = tilePhase /\ tileJob' = tileJob /\ matrices' = matrices
          /\ tiles' = tiles /\ part' = part /\ joined' = joined /\ peak' = peak
      BY <2>8 DEF tileVars
    <3>2. WorkAt(tilePhase', joined', matrices', part', tiles')
      BY <3>1 DEF TileInv, Working
    <3> QED BY <3>1, <3>2, WorkStays, PeakStays DEF TileInv
  <2> QED BY <2>1, <2>2, <2>3, <2>4, <2>5, <2>6, <2>7, <2>8 DEF TileNext
<1> QED BY <1>1, <1>2, PTL DEF TileSpec

\* However a tensor is cut into reads and tiles under a memory cap, what is
\* written is byte for byte what quantizing it whole would give (tiler.py's
\* quantize_address), and a tile is never empty nor outside its matrix.
THEOREM TensorsStayWhole == TileSpec => []TiledIsWhole
<1>1. TileInv => TiledIsWhole
  <2> SUFFICES ASSUME TileInv PROVE TiledIsWhole OBVIOUS
  <2>1. ResultIsWhole BY DEF TileInv, Working, WorkAt, ResultIsWhole, Whole
  <2>2. tilePhase \in {"idle", "plan", "matrices", "over", "raised"} /\ peak \in Nat
    BY DEF TileInv, Working, WorkAt, PeakFits
  <2>3. ASSUME NEW i \in DOMAIN tiles
        PROVE  /\ tiles[i].rows \in 1 .. Head(matrices).rows
               /\ tiles[i].expert = Head(matrices).expert
               /\ tiles[i].from + tiles[i].rows <= Head(matrices).from + Head(matrices).rows
    <3> DEFINE m == Head(matrices)
               z == TileSize(m.rows)
    <3>1. tiles # <<>> /\ tileJob \in Jobs BY DEF TileInv
    <3>2. tilePhase = "matrices" /\ matrices # <<>> BY <3>1 DEF TileInv, Working, WorkAt
    <3>3. /\ Tiling(m, part, tiles)
          /\ m.expert \in Nat /\ m.from \in Nat /\ m.rows \in Nat \ {0}
      BY <3>2, AtMatrix
    <3>4. CutAt(part, tiles, m.expert, m.from, m.rows, z) BY <3>1, <3>3 DEF Tiling
    <3>5. z \in 1 .. m.rows /\ (z >= m.rows \/ WholeBytes(z)) BY <3>1, <3>3, SizeFacts
    <3> HIDE DEF z, m
    <3>6. z \in Nat \ {0} BY <3>3, <3>5
    <3>7. /\ tiles[i].rows \in 1 .. m.rows /\ tiles[i].expert = m.expert
          /\ tiles[i].from + tiles[i].rows <= m.from + m.rows
      BY <3>1, <3>3, <3>4, <3>5, <3>6, CutFacts
    <3> QED BY <3>7 DEF m
  <2> QED BY <2>1, <2>2, <2>3 DEF TiledIsWhole, TileTypeOK
<1> QED BY <1>1, TileInvHolds, PTL

\* The quantizer is never given more than the cap of the user holds, by the
\* estimate for the dtype in memory (MatrixTiler, strict VRAM caps).
THEOREM TilesStayWithinCap == TileSpec => []QuantizedFits
<1>1. TileInv => QuantizedFits
  <2> SUFFICES ASSUME TileInv, tileJob.cap >= FloorMB, Layout # "conv"
               PROVE  peak <= tileJob.cap * MB
    BY DEF QuantizedFits
  <2>1. tileJob \in Jobs /\ peak \in Nat /\ peak <= Usable BY DEF TileInv, PeakFits
  <2>2. Usable \in Nat /\ Usable <= tileJob.cap * MB BY <2>1, UsableFacts
  <2>3. tileJob.cap * MB \in Nat
    <3>1. tileJob.cap \in Nat /\ MB \in Nat BY <2>1, TilerAssumption DEF Jobs
    <3> QED BY <3>1, TimesNat
  <2> QED BY <2>1, <2>2, <2>3
<1> QED BY <1>1, TileInvHolds, PTL

-----------------------------------------------------------------------------
(* The replay of a trace through simulated caches.                         *)

Accesses == [token : Int, key : Keys]
PolicyNames == {"Oracle", "OSPageCache", "SLRU", "TinyLFU", "LRU"}
Replayable == PolicyNames \X Int
Measured == [policy : PolicyNames, slots : Int, hits : Int, misses : Int, evictions : Int, held : Int]

\* The counters of the replay: every access is a hit or a miss, and what was
\* missed and not evicted is held.
CountersInv ==
  /\ step \in Nat /\ step <= Len(trace)
  /\ hits \in Nat /\ misses \in Nat /\ evictions \in Int
  /\ hits + misses = step
  /\ misses = evictions + Len(cache) + Len(protected)

\* The caches hold every key once, the tiers keep to their slots.
CachesInv ==
  /\ cache \in Distinct(Keys) /\ protected \in Distinct(Keys)
  /\ ToSet(cache) \cap ToSet(protected) = {}
  /\ todo # <<>> => /\ Len(cache) <= (IF Policy = "SLRU" THEN ProbationarySlots ELSE Slots)
                    /\ Len(protected) <= (IF Policy = "SLRU" THEN ProtectedSlots ELSE 0)

\* A frequency is at most a window above the accesses since it was halved.
FreqsInv ==
  /\ freqs \in [Keys -> Nat] /\ count \in 0 .. SampleWindow - 1
  /\ \A k \in Keys : freqs[k] <= SampleWindow + count

ReplaysInv ==
  /\ simPhase \in {"replay", "over"}
  /\ trace \in Seq(Accesses) /\ todo \in Seq(Replayable)
  /\ metrics \in Seq(Measured)
  /\ \A m \in ToSet(metrics) : m.misses = m.evictions + m.held

SimInv == ReplaysInv /\ CountersInv /\ CachesInv /\ FreqsInv

\* The accesses are replayed in an order of their own: a place holds one of them.
LEMMA AccessedIsKey ==
  ASSUME trace \in Seq(Accesses), step \in Nat, step < Len(trace)
  PROVE  Accessed \in Keys
<1>0. \A i \in DOMAIN trace : trace[i] \in Accesses OBVIOUS
<1> DEFINE n == Len(trace)
           N == 1 .. n
           before(i, j) == trace[i].token < trace[j].token
                           \/ (trace[i].token = trace[j].token /\ i < j)
           R == {p \in N \X N : before(p[1], p[2])}
           place(i) == 1 + Cardinality({j \in DOMAIN trace : before(j, i)})
           m == step + 1
<1>1. n \in Nat /\ DOMAIN trace = N /\ m \in N OBVIOUS
<1>2. \A i \in N : trace[i].token \in Int /\ trace[i].key \in Keys
  BY <1>0, <1>1 DEF Accesses
<1>3. \A i, j \in N : <<i, j>> \in R <=> before(i, j) OBVIOUS
<1>4. ASSUME NEW i \in N PROVE place(i) = RankIn(R, n, i)
  <2>1. {j \in DOMAIN trace : before(j, i)} = {j \in N : <<j, i>> \in R} BY <1>1, <1>3
  <2> QED BY <2>1 DEF RankIn
<1> HIDE DEF R
<1>5. \E i \in N : RankIn(R, n, i) = m
  <2>1. \A i \in N : <<i, i>> \notin R BY <1>1, <1>2, <1>3
  <2>2. \A i, j, k \in N : <<i, j>> \in R /\ <<j, k>> \in R => <<i, k>> \in R
    BY <1>1, <1>2, <1>3
  <2>3. \A i, j \in N : i # j => <<i, j>> \in R \/ <<j, i>> \in R BY <1>1, <1>2, <1>3
  <2>4. IsStrictOrder(R, n) BY <2>1, <2>2, <2>3 DEF IsStrictOrder
  <2> HIDE DEF m, n
  <2> QED BY <1>1, <2>4, RanksAreAll
<1>6. \E i \in DOMAIN trace : place(i) = m
  <2> HIDE DEF place, m
  <2> QED BY <1>1, <1>4, <1>5
<1> DEFINE c == CHOOSE i \in DOMAIN trace : place(i) = m
<1>7. c \in DOMAIN trace
  <2> HIDE DEF place, m
  <2> QED BY <1>6
<1>8. Accessed = trace[c].key BY <1>1 DEF Accessed, Replayed
<1> HIDE DEF c
<1> QED BY <1>1, <1>2, <1>7, <1>8

\* A key held is taken out.
LEMMA WithoutFacts ==
  ASSUME NEW d \in Distinct(Keys), NEW k \in ToSet(d)
  PROVE  /\ Without(d, k) \in Distinct(Keys)
         /\ ToSet(Without(d, k)) = ToSet(d) \ {k}
         /\ Len(Without(d, k)) = Len(d) - 1
<1>1. \E i \in DOMAIN d : d[i] = k BY DEF ToSet
<1> DEFINE n == CHOOSE i \in DOMAIN d : d[i] = k
<1>2. n \in DOMAIN d /\ d[n] = k BY <1>1
<1>3. Without(d, k) = RemoveAt(d, n) BY DEF Without
<1> HIDE DEF n
<1> QED BY <1>2, <1>3, RemoveAtFacts

\* A key that is accessed again becomes the most recent one.
LEMMA RefreshedFacts ==
  ASSUME NEW d \in Distinct(Keys), NEW k \in ToSet(d)
  PROVE  /\ Refreshed(d, k) \in Distinct(Keys)
         /\ ToSet(Refreshed(d, k)) = ToSet(d)
         /\ Len(Refreshed(d, k)) = Len(d)
<1> DEFINE e == Without(d, k)
<1>1. e \in Distinct(Keys) /\ ToSet(e) = ToSet(d) \ {k} /\ Len(e) = Len(d) - 1
  BY WithoutFacts
<1>2. k \in Keys /\ Len(d) \in Nat
  <2>1. d \in Seq(Keys) BY DEF Distinct
  <2> QED BY <2>1, ElementsAreFinite
<1>3. Refreshed(d, k) = Append(e, k) BY DEF Refreshed
<1> HIDE DEF e
<1>4. /\ Append(e, k) \in Distinct(Keys) /\ ToSet(Append(e, k)) = ToSet(e) \union {k}
      /\ Len(Append(e, k)) = Len(e) + 1
  BY <1>1, <1>2, AppendFacts
<1> QED BY <1>1, <1>2, <1>3, <1>4

\* What the code of every policy asks.
LEMMA ContainsIsIn == ASSUME NEW d \in Seq(Keys), NEW k PROVE Contains(d, k) <=> k \in ToSet(d)
BY DEF Contains, ToSet

\* The replay under way, and how many keys its tiers may hold.
LEMMA SlotFacts ==
  ASSUME todo \in Seq(Replayable), todo # <<>>
  PROVE  /\ Policy \in PolicyNames /\ Head(todo)[2] \in Int
         /\ Slots \in Nat \ {0} /\ ProtectedSlots \in Nat \ {0}
         /\ ProbationarySlots \in Nat \ {0}
<1>1. Head(todo) \in Replayable OBVIOUS
<1>2. Policy \in PolicyNames /\ Head(todo)[2] \in Int BY <1>1 DEF Policy, Replayable
<1>3. ASSUME NEW x \in Int PROVE AtLeastOne(x) \in Nat \ {0} BY DEF AtLeastOne
<1>4. Slots \in Nat \ {0} BY <1>2, <1>3 DEF Slots
<1>5. (4 * Head(todo)[2]) \div 5 \in Int BY <1>2
<1>6. ProtectedSlots \in Nat \ {0} BY <1>3, <1>5 DEF ProtectedSlots
<1>7. ProbationarySlots \in Nat \ {0}
  <2>1. Head(todo)[2] - ProtectedSlots \in Int BY <1>2, <1>6
  <2> QED BY <1>3, <2>1 DEF ProbationarySlots
<1> QED BY <1>2, <1>4, <1>6, <1>7

\* Every cache of a sweep has a slot in each tier.
LEMMA SlotsArePositive ==
  todo \in Seq(Replayable) /\ todo # <<>>
  => Slots \in Nat \ {0} /\ ProtectedSlots \in Nat \ {0} /\ ProbationarySlots \in Nat \ {0}
BY SlotFacts

\* The same after a step.
LEMMA SlotsStayPositive ==
  (todo \in Seq(Replayable) /\ todo # <<>>
   => Slots \in Nat \ {0} /\ ProtectedSlots \in Nat \ {0} /\ ProbationarySlots \in Nat \ {0})'
BY SlotsArePositive, PTL

\* Every policy for every capacity is a sequence of replays.
LEMMA ReplaysType ==
  ASSUME NEW capacities \in Seq(Int)
  PROVE  Replays(capacities) \in Seq(Replayable)
<1> DEFINE row(c) == [p \in DOMAIN Policies |-> <<Policies[p], capacities[c]>>]
           rows == [c \in DOMAIN capacities |-> row(c)]
<1>1. ASSUME NEW c \in DOMAIN capacities PROVE row(c) \in Seq(Replayable)
  <2>1. capacities[c] \in Int OBVIOUS
  <2>2. DOMAIN Policies = 1 .. 5 /\ \A p \in 1 .. 5 : Policies[p] \in PolicyNames
    <3>1. \A p \in 1 .. 5 : p = 1 \/ p = 2 \/ p = 3 \/ p = 4 \/ p = 5 OBVIOUS
    <3>2. DOMAIN Policies = 1 .. 5 BY DEF Policies
    <3>3. /\ Policies[1] = "Oracle" /\ Policies[2] = "OSPageCache" /\ Policies[3] = "SLRU"
          /\ Policies[4] = "TinyLFU" /\ Policies[5] = "LRU"
      BY DEF Policies
    <3> QED BY <3>1, <3>2, <3>3 DEF PolicyNames
  <2>3. \A p \in DOMAIN Policies : <<Policies[p], capacities[c]>> \in Replayable
    BY <2>1, <2>2 DEF Replayable
  <2> QED BY <2>2, <2>3
<1> HIDE DEF row
<1>2. rows \in Seq(Seq(Replayable))
  <2>1. DOMAIN capacities = 1 .. Len(capacities) /\ Len(capacities) \in Nat OBVIOUS
  <2> QED BY <1>1, <2>1
<1>3. Replays(capacities) = FlattenSeq(rows) BY DEF Replays, row
<1> HIDE DEF rows
<1> QED BY <1>2, <1>3, FlattenedType

\* Nothing is replayed yet.
LEMMA SimStarts == SimInit => SimInv
<1> SUFFICES ASSUME SimInit PROVE SimInv OBVIOUS
<1> USE DEF SimInit, Fresh
<1>1. trace \in Seq(Accesses) BY SimulationAssumption DEF Accesses
<1>2. todo \in Seq(Replayable)
  <2>1. PICK capacities \in Sweeps : todo = Replays(capacities) OBVIOUS
  <2> QED BY <2>1, SimulationAssumption, ReplaysType
<1>3. <<>> \in Distinct(Keys) /\ ToSet(<<>>) = {} BY EmptyFacts
<1>4. ReplaysInv
  <2>1. \A m \in ToSet(metrics) : m.misses = m.evictions + m.held BY <1>3
  <2> QED BY <1>1, <1>2, <2>1 DEF ReplaysInv
<1>5. CountersInv BY <1>1 DEF CountersInv
<1>6. CachesInv
  <2>1. todo # <<>> => /\ Slots >= 0 /\ ProbationarySlots >= 0 /\ ProtectedSlots >= 0
    BY <1>2, SlotFacts
  <2>2. Len(cache) = 0 /\ Len(protected) = 0 OBVIOUS
  <2> QED BY <1>3, <2>1, <2>2 DEF CachesInv
<1>7. FreqsInv BY SimulationAssumption DEF FreqsInv
<1> QED BY <1>4, <1>5, <1>6, <1>7 DEF SimInv

\* The facts an access starts from.
LEMMA AccessFacts ==
  ASSUME SimInv, NEW P \in SUBSET PolicyNames, Replaying(P)
  PROVE  /\ Accessed \in Keys /\ step + 1 \in Nat /\ step + 1 <= Len(trace)
         /\ cache \in Distinct(Keys) /\ protected \in Distinct(Keys)
         /\ Len(cache) \in Nat /\ Len(protected) \in Nat
         /\ Slots \in Nat \ {0} /\ ProtectedSlots \in Nat \ {0}
         /\ ProbationarySlots \in Nat \ {0}
         /\ todo # <<>> /\ Policy \in P
         /\ (Contains(cache, Accessed) <=> Accessed \in ToSet(cache))
         /\ (Contains(protected, Accessed) <=> Accessed \in ToSet(protected))
<1>1. trace \in Seq(Accesses) /\ step \in Nat /\ Len(trace) \in Nat /\ step < Len(trace)
  BY DEF SimInv, ReplaysInv, CountersInv, Replaying
<1>0. step + 1 \in Nat /\ step + 1 <= Len(trace) BY <1>1
<1>2. Accessed \in Keys BY <1>1, AccessedIsKey
<1>3. cache \in Distinct(Keys) /\ protected \in Distinct(Keys) BY DEF SimInv, CachesInv
<1>4. cache \in Seq(Keys) /\ protected \in Seq(Keys) BY <1>3 DEF Distinct
<1>5. todo \in Seq(Replayable) /\ todo # <<>> /\ Policy \in P
  BY DEF SimInv, ReplaysInv, Replaying
<1>6. Len(cache) \in Nat /\ Len(protected) \in Nat BY <1>4
<1>7. /\ Contains(cache, Accessed) <=> Accessed \in ToSet(cache)
      /\ Contains(protected, Accessed) <=> Accessed \in ToSet(protected)
  BY <1>4, ContainsIsIn
<1>8. Slots \in Nat \ {0} /\ ProtectedSlots \in Nat \ {0} /\ ProbationarySlots \in Nat \ {0}
  BY <1>5, SlotFacts
<1> QED BY <1>0, <1>2, <1>3, <1>5, <1>6, <1>7, <1>8

\* The three outcomes of an access of a cache of one tier, whatever the policy.
OneTier(admitted) ==
  \/ /\ Accessed \in ToSet(cache)
     /\ cache' \in {cache, Refreshed(cache, Accessed)}
     /\ Hit
  \/ /\ Accessed \notin ToSet(cache) /\ Len(cache) < Slots
     /\ cache' = Append(cache, Accessed)
     /\ MissWith(0)
  \/ /\ Accessed \notin ToSet(cache) /\ Len(cache) >= Slots
     /\ cache' \in admitted
     /\ MissWith(1)

\* A full cache drops one key for the one accessed, or is left as it is.
Admitted == {cache} \cup {Append(Without(cache, k), Accessed) : k \in ToSet(cache)}

\* The key a full cache drops may be its least recent one.
LEMMA LeastRecentOut ==
  ASSUME cache \in Distinct(Keys), Len(cache) > 0
  PROVE  Append(Tail(cache), Accessed) \in Admitted
<1>1. cache \in Seq(Keys) /\ IsInjective(cache) /\ cache # <<>>
  <2>1. cache \in Seq(Keys) /\ IsInjective(cache) BY DEF Distinct
  <2> QED BY <2>1, EmptySeq
<1> DEFINE n == CHOOSE i \in DOMAIN cache : cache[i] = Head(cache)
<1>2. 1 \in DOMAIN cache /\ Head(cache) = cache[1] /\ Tail(cache) = RemoveAt(cache, 1)
  BY <1>1, TailIsRemoval
<1>3. n \in DOMAIN cache /\ cache[n] = Head(cache) BY <1>2
<1>4. Without(cache, Head(cache)) = RemoveAt(cache, n) BY DEF Without
<1> HIDE DEF n
<1>5. n = 1 BY <1>1, <1>2, <1>3 DEF IsInjective
<1>6. Head(cache) \in ToSet(cache) BY <1>2 DEF ToSet
<1>7. Append(Tail(cache), Accessed) = Append(Without(cache, Head(cache)), Accessed)
  BY <1>2, <1>4, <1>5
<1> QED BY <1>6, <1>7 DEF Admitted

\* Such an access keeps the counters and the caches.
LEMMA OneTierKeeps ==
  ASSUME SimInv, NEW P \in SUBSET PolicyNames, "SLRU" \notin P, Replaying(P), OneTier(Admitted),
         step' = step + 1, UNCHANGED <<replayVars, protected>>
  PROVE  ReplaysInv' /\ CountersInv' /\ CachesInv'
<1>1. /\ Accessed \in Keys /\ step + 1 \in Nat /\ step + 1 <= Len(trace)
      /\ cache \in Distinct(Keys) /\ protected \in Distinct(Keys)
      /\ Len(cache) \in Nat /\ Len(protected) \in Nat /\ Slots \in Nat \ {0}
      /\ todo # <<>> /\ Policy \in P
  BY AccessFacts
<1>2. Len(cache) <= Slots /\ Len(protected) = 0 /\ ToSet(cache) \cap ToSet(protected) = {}
  <2>1. Policy # "SLRU" BY <1>1
  <2> QED BY <1>1, <2>1 DEF SimInv, CachesInv
<1>3. /\ hits \in Nat /\ misses \in Nat /\ evictions \in Int /\ hits + misses = step
      /\ misses = evictions + Len(cache) + Len(protected) /\ step \in Nat
  BY DEF SimInv, CountersInv
<1>4. ReplaysInv' BY DEF SimInv, ReplaysInv, replayVars
<1>5. ToSet(protected) = {}
  <2>1. protected \in Seq(Keys) BY <1>1 DEF Distinct
  <2>2. protected = <<>> BY <1>2, <2>1, EmptySeq
  <2> QED BY <2>2, EmptyFacts
<1>6. /\ cache' \in Distinct(Keys) /\ Len(cache') \in Nat /\ Len(cache') <= Slots
      /\ hits' \in Nat /\ misses' \in Nat /\ evictions' \in Int
      /\ hits' + misses' = step + 1
      /\ misses' = evictions' + Len(cache') + Len(protected)
  <2>1. CASE /\ Accessed \in ToSet(cache) /\ cache' \in {cache, Refreshed(cache, Accessed)}
             /\ Hit
    <3>1. cache' \in Distinct(Keys) /\ Len(cache') = Len(cache) BY <1>1, <2>1, RefreshedFacts
    <3> QED BY <1>1, <1>2, <1>3, <2>1, <3>1 DEF Hit
  <2>2. CASE /\ Accessed \notin ToSet(cache) /\ Len(cache) < Slots
             /\ cache' = Append(cache, Accessed) /\ MissWith(0)
    <3>1. cache' \in Distinct(Keys) /\ Len(cache') = Len(cache) + 1
      BY <1>1, <2>2, AppendFacts
    <3> QED BY <1>1, <1>2, <1>3, <2>2, <3>1 DEF MissWith
  <2>3. CASE /\ Accessed \notin ToSet(cache) /\ Len(cache) >= Slots
             /\ cache' \in Admitted /\ MissWith(1)
    <3>1. cache' \in Distinct(Keys) /\ Len(cache') = Len(cache)
      <4>1. CASE cache' = cache BY <1>1, <4>1
      <4>2. CASE cache' # cache
        <5>1. PICK k \in ToSet(cache) : cache' = Append(Without(cache, k), Accessed)
          BY <2>3, <4>2 DEF Admitted
        <5> DEFINE e == Without(cache, k)
        <5>2. e \in Distinct(Keys) /\ ToSet(e) = ToSet(cache) \ {k} /\ Len(e) = Len(cache) - 1
          BY <1>1, WithoutFacts
        <5> HIDE DEF e
        <5>3. Append(e, Accessed) \in Distinct(Keys) /\ Len(Append(e, Accessed)) = Len(e) + 1
          BY <1>1, <2>3, <5>2, AppendFacts
        <5>4. cache' = Append(e, Accessed) BY <5>1 DEF e
        <5> QED BY <1>1, <5>2, <5>3, <5>4
      <4> QED BY <4>1, <4>2
    <3> QED BY <1>1, <1>2, <1>3, <2>3, <3>1 DEF MissWith
  <2> QED BY <2>1, <2>2, <2>3 DEF OneTier
<1>7. CountersInv' BY <1>1, <1>6 DEF CountersInv, replayVars
<1>8. CachesInv'
  <2>1. Policy' = Policy /\ Slots' = Slots /\ protected' = protected
    BY DEF Policy, Slots, replayVars
  <2>2. Policy' # "SLRU" BY <1>1, <2>1
  <2>3. ToSet(protected)' = {} BY <1>5, <2>1
  <2> QED BY <1>1, <1>2, <1>6, <2>1, <2>2, <2>3 DEF CachesInv
<1> QED BY <1>4, <1>7, <1>8

\* LRU and the page cache of the system.
LEMMA AccessLRUKeeps == SimInv /\ AccessLRU => SimInv'
<1> SUFFICES ASSUME SimInv, AccessLRU PROVE SimInv' OBVIOUS
<1> DEFINE P == {"LRU", "OSPageCache"}
<1>0. P \in SUBSET PolicyNames /\ "SLRU" \notin P
  <2>1. P \subseteq PolicyNames BY DEF PolicyNames
  <2>2. "SLRU" \notin P OBVIOUS
  <2> QED BY <2>1, <2>2
<1>1. P \in SUBSET PolicyNames /\ "SLRU" \notin P /\ Replaying(P) BY <1>0 DEF AccessLRU
<1> HIDE DEF P
<1>2. /\ Accessed \in Keys /\ cache \in Distinct(Keys) /\ Len(cache) \in Nat
      /\ Slots \in Nat \ {0} /\ (Contains(cache, Accessed) <=> Accessed \in ToSet(cache))
  BY <1>1, AccessFacts
<1>3. OneTier(Admitted)
  <2>1. Len(cache) >= Slots => Append(Tail(cache), Accessed) \in Admitted
    BY <1>2, LeastRecentOut
  <2>2. \/ Contains(cache, Accessed) /\ cache' = Refreshed(cache, Accessed) /\ Hit
        \/ /\ ~Contains(cache, Accessed) /\ Len(cache) < Slots
           /\ cache' = Append(cache, Accessed) /\ MissWith(0)
        \/ /\ ~Contains(cache, Accessed) /\ Len(cache) >= Slots
           /\ cache' = Append(Tail(cache), Accessed) /\ MissWith(1)
    BY DEF AccessLRU
  <2> QED BY <1>2, <2>1, <2>2 DEF OneTier
<1>4. step' = step + 1 /\ UNCHANGED <<replayVars, protected>> BY DEF AccessLRU
<1>5. ReplaysInv' /\ CountersInv' /\ CachesInv' BY <1>1, <1>3, <1>4, OneTierKeeps
<1>6. FreqsInv' BY DEF SimInv, FreqsInv, AccessLRU
<1> QED BY <1>5, <1>6 DEF SimInv

\* The accesses since the last halving are counted around the window.
LEMMA FreqFacts ==
  ASSUME count \in 0 .. SampleWindow - 1
  PROVE  /\ (count + 1) % SampleWindow = IF count + 1 = SampleWindow THEN 0 ELSE count + 1
         /\ SampleWindow \in Nat \ {0}
<1>1. SampleWindow \in Nat \ {0} BY SimulationAssumption
<1>2. ASSUME NEW w \in Nat \ {0}, NEW c \in 0 .. w - 1
      PROVE  (c + 1) % w = IF c + 1 = w THEN 0 ELSE c + 1
  <2>1. CASE c + 1 = w BY <2>1
  <2>2. CASE c + 1 # w BY <2>2
  <2> QED BY <2>1, <2>2
<1> QED BY <1>1, <1>2

\* TinyLFU: the frequencies are halved before they outgrow two windows.
LEMMA FreqsKept ==
  ASSUME FreqsInv, Accessed \in Keys, freqs' = Recorded, count' = (count + 1) % SampleWindow
  PROVE  FreqsInv'
<1>1. /\ freqs \in [Keys -> Nat] /\ count \in 0 .. SampleWindow - 1
      /\ \A k \in Keys : freqs[k] <= SampleWindow + count
  BY DEF FreqsInv
<1>2. /\ SampleWindow \in Nat \ {0}
      /\ count' = IF count + 1 = SampleWindow THEN 0 ELSE count + 1
  BY <1>1, FreqFacts
<1> DEFINE counted == [freqs EXCEPT ![Accessed] = @ + 1]
<1>3. counted \in [Keys -> Nat] /\ \A k \in Keys : counted[k] <= SampleWindow + count + 1
  BY <1>1, <1>2
<1>4. freqs' = IF count + 1 >= SampleWindow THEN [k \in Keys |-> counted[k] \div 2] ELSE counted
  BY DEF Recorded
<1> HIDE DEF counted
<1>5. CASE count + 1 >= SampleWindow
  <2>1. count' = 0 /\ count + 1 = SampleWindow BY <1>1, <1>2, <1>5
  <2>2. ASSUME NEW k \in Keys
        PROVE  counted[k] \div 2 \in Nat /\ counted[k] \div 2 <= SampleWindow
    <3>1. counted[k] \in Nat /\ counted[k] <= 2 * SampleWindow BY <1>1, <1>2, <1>3, <2>1
    <3> QED BY <1>2, <3>1
  <2>3. freqs' = [k \in Keys |-> counted[k] \div 2] BY <1>4, <1>5
  <2> QED BY <1>2, <2>1, <2>2, <2>3 DEF FreqsInv
<1>6. CASE ~(count + 1 >= SampleWindow)
  <2>1. freqs' = counted /\ count' = count + 1 BY <1>1, <1>2, <1>4, <1>6
  <2> QED BY <1>1, <1>2, <1>3, <1>6, <2>1 DEF FreqsInv
<1> QED BY <1>5, <1>6

\* TinyLFU: what is turned away was missed and evicted at once.
LEMMA AccessTinyLFUKeeps == SimInv /\ AccessTinyLFU => SimInv'
<1> SUFFICES ASSUME SimInv, AccessTinyLFU PROVE SimInv' OBVIOUS
<1> DEFINE P == {"TinyLFU"}
<1>0. P \subseteq PolicyNames /\ "SLRU" \notin P
  <2>1. P \subseteq PolicyNames BY DEF PolicyNames
  <2>2. "SLRU" \notin P OBVIOUS
  <2> QED BY <2>1, <2>2
<1>1. P \in SUBSET PolicyNames /\ "SLRU" \notin P /\ Replaying(P) BY <1>0 DEF AccessTinyLFU
<1> HIDE DEF P
<1>2. /\ Accessed \in Keys /\ cache \in Distinct(Keys) /\ Len(cache) \in Nat
      /\ Slots \in Nat \ {0} /\ (Contains(cache, Accessed) <=> Accessed \in ToSet(cache))
  BY <1>1, AccessFacts
<1>3. OneTier(Admitted)
  <2>1. Len(cache) >= Slots => Append(Tail(cache), Accessed) \in Admitted
    BY <1>2, LeastRecentOut
  <2>2. cache \in Admitted BY DEF Admitted
  <2>3. \/ Contains(cache, Accessed) /\ cache' = Refreshed(cache, Accessed) /\ Hit
        \/ /\ ~Contains(cache, Accessed) /\ Len(cache) < Slots
           /\ cache' = Append(cache, Accessed) /\ MissWith(0)
        \/ /\ ~Contains(cache, Accessed) /\ Len(cache) >= Slots
           /\ cache' \in {cache, Append(Tail(cache), Accessed)} /\ MissWith(1)
    BY DEF AccessTinyLFU
  <2> QED BY <1>2, <2>1, <2>2, <2>3 DEF OneTier
<1>4. step' = step + 1 /\ UNCHANGED <<replayVars, protected>> BY DEF AccessTinyLFU
<1>5. ReplaysInv' /\ CountersInv' /\ CachesInv' BY <1>1, <1>3, <1>4, OneTierKeeps
<1>6. FreqsInv' BY <1>2, FreqsKept DEF SimInv, AccessTinyLFU
<1> QED BY <1>5, <1>6 DEF SimInv

\* The Oracle: whichever victim it takes is a key it holds.
LEMMA AccessOracleKeeps == SimInv /\ AccessOracle => SimInv'
<1> SUFFICES ASSUME SimInv, AccessOracle PROVE SimInv' OBVIOUS
<1> DEFINE P == {"Oracle"}
<1>0. P \subseteq PolicyNames /\ "SLRU" \notin P
  <2>1. P \subseteq PolicyNames BY DEF PolicyNames
  <2>2. "SLRU" \notin P OBVIOUS
  <2> QED BY <2>1, <2>2
<1>1. P \in SUBSET PolicyNames /\ "SLRU" \notin P /\ Replaying(P) BY <1>0 DEF AccessOracle
<1> HIDE DEF P
<1>2. /\ Accessed \in Keys /\ cache \in Distinct(Keys) /\ Len(cache) \in Nat
      /\ Slots \in Nat \ {0} /\ (Contains(cache, Accessed) <=> Accessed \in ToSet(cache))
  BY <1>1, AccessFacts
<1>3. OneTier(Admitted)
  <2>1. Victims \subseteq ToSet(cache) BY DEF Victims
  <2>2. \/ Contains(cache, Accessed) /\ Hit /\ UNCHANGED cache
        \/ /\ ~Contains(cache, Accessed) /\ Len(cache) < Slots
           /\ cache' = Append(cache, Accessed) /\ MissWith(0)
        \/ /\ ~Contains(cache, Accessed) /\ Len(cache) >= Slots
           /\ \E victim \in Victims : cache' = Append(Without(cache, victim), Accessed)
           /\ MissWith(1)
    BY DEF AccessOracle
  <2>3. (\E victim \in Victims : cache' = Append(Without(cache, victim), Accessed))
        => cache' \in Admitted
    BY <2>1 DEF Admitted
  <2> QED BY <1>2, <2>2, <2>3 DEF OneTier
<1>4. step' = step + 1 /\ UNCHANGED <<replayVars, protected>> BY DEF AccessOracle
<1>5. ReplaysInv' /\ CountersInv' /\ CachesInv' BY <1>1, <1>3, <1>4, OneTierKeeps
<1>6. FreqsInv' BY DEF SimInv, FreqsInv, AccessOracle
<1> QED BY <1>5, <1>6 DEF SimInv

\* The two tiers of SLRU: no key is in both, and each keeps to its slots.
Tiers(c, p) ==
  /\ c \in Distinct(Keys) /\ p \in Distinct(Keys)
  /\ ToSet(c) \cap ToSet(p) = {}
  /\ Len(c) \in Nat /\ Len(p) \in Nat
  /\ Len(c) <= ProbationarySlots /\ Len(p) <= ProtectedSlots

\* Before an access of the two-tiered cache: the tiers hold every key once and
\* keep to their slots, and the access is one of the trace.
LEMMA TiersHold ==
  ASSUME SimInv, AccessSLRU
  PROVE  /\ Tiers(cache, protected) /\ Accessed \in Keys
         /\ ProtectedSlots \in Nat \ {0} /\ ProbationarySlots \in Nat \ {0}
         /\ step + 1 \in Nat /\ step + 1 <= Len(trace) /\ Policy = "SLRU" /\ todo # <<>>
         /\ (Contains(cache, Accessed) <=> Accessed \in ToSet(cache))
         /\ (Contains(protected, Accessed) <=> Accessed \in ToSet(protected))
<1> DEFINE P == {"SLRU"}
<1>1. P \in SUBSET PolicyNames /\ Replaying(P)
  <2>1. P \subseteq PolicyNames BY DEF PolicyNames
  <2> QED BY <2>1 DEF AccessSLRU
<1>2. Policy \in P => Policy = "SLRU" OBVIOUS
<1> HIDE DEF P
<1>3. /\ Accessed \in Keys /\ step + 1 \in Nat /\ step + 1 <= Len(trace)
      /\ cache \in Distinct(Keys) /\ protected \in Distinct(Keys)
      /\ Len(cache) \in Nat /\ Len(protected) \in Nat
      /\ ProtectedSlots \in Nat \ {0} /\ ProbationarySlots \in Nat \ {0}
      /\ todo # <<>> /\ Policy \in P
      /\ (Contains(cache, Accessed) <=> Accessed \in ToSet(cache))
      /\ (Contains(protected, Accessed) <=> Accessed \in ToSet(protected))
  BY <1>1, AccessFacts
<1>4. /\ ToSet(cache) \cap ToSet(protected) = {}
      /\ Len(cache) <= ProbationarySlots /\ Len(protected) <= ProtectedSlots
  BY <1>2, <1>3 DEF SimInv, CachesInv
<1> QED BY <1>2, <1>3, <1>4 DEF Tiers

\* What an access of SLRU leaves: the tiers, and counters that add up.
SLRUKept(evicted) ==
  /\ Tiers(cache', protected')
  /\ \/ /\ hits' = hits + 1 /\ misses' = misses /\ evictions' = evictions + evicted
        /\ Len(cache') + Len(protected') + evicted = Len(cache) + Len(protected)
     \/ /\ hits' = hits /\ misses' = misses + 1 /\ evictions' = evictions + evicted
        /\ Len(cache') + Len(protected') + evicted = Len(cache) + Len(protected) + 1

\* A hit in the protected tier moves no key.
LEMMA ProtectedHitKeeps ==
  ASSUME Tiers(cache, protected), Accessed \in ToSet(protected), SLRUProtectedHit,
         evictions \in Int
  PROVE  SLRUKept(0)
<1>1. /\ protected' \in Distinct(Keys) /\ ToSet(protected') = ToSet(protected)
      /\ Len(protected') = Len(protected)
  BY RefreshedFacts DEF Tiers, SLRUProtectedHit
<1>2. cache' = cache /\ hits' = hits + 1 /\ misses' = misses /\ evictions' = evictions
  BY DEF SLRUProtectedHit, Hit
<1> QED BY <1>1, <1>2 DEF Tiers, SLRUKept

\* A miss enters the probationary tier.
LEMMA SLRUMissKeeps ==
  ASSUME Tiers(cache, protected), Accessed \in Keys, SLRUMiss,
         Accessed \notin ToSet(cache), Accessed \notin ToSet(protected),
         ProbationarySlots \in Nat \ {0}, evictions \in Int
  PROVE  \E evicted \in {0, 1} : SLRUKept(evicted)
<1> DEFINE full == Len(cache) >= ProbationarySlots
           c == IF full THEN Tail(cache) ELSE cache
           e == IF full THEN 1 ELSE 0
<1>1. /\ c \in Distinct(Keys) /\ Accessed \notin ToSet(c) /\ ToSet(c) \subseteq ToSet(cache)
      /\ Len(c) = Len(cache) - e /\ Len(c) < ProbationarySlots
  <2>1. CASE full
    <3>1. cache \in Distinct(Keys) /\ cache # <<>> /\ Len(cache) <= ProbationarySlots
      <4>1. cache \in Seq(Keys) /\ Len(cache) > 0 BY <2>1 DEF Tiers, Distinct
      <4> QED BY <4>1, EmptySeq DEF Tiers
    <3>2. /\ Tail(cache) \in Distinct(Keys) /\ Len(Tail(cache)) = Len(cache) - 1
          /\ ToSet(Tail(cache)) = ToSet(cache) \ {Head(cache)}
      BY <3>1, PoppedFirst
    <3>3. Len(cache) \in Nat BY DEF Tiers
    <3> QED BY <2>1, <3>1, <3>2, <3>3
  <2>2. CASE ~full BY <2>2 DEF Tiers
  <2> QED BY <2>1, <2>2
<1>2. /\ cache' = Append(c, Accessed) /\ protected' = protected
      /\ hits' = hits /\ misses' = misses + 1 /\ evictions' = evictions + e
  BY DEF SLRUMiss, MissWith
<1>3. e \in {0, 1} OBVIOUS
<1> HIDE DEF c, e
<1>4. /\ Append(c, Accessed) \in Distinct(Keys)
      /\ ToSet(Append(c, Accessed)) = ToSet(c) \union {Accessed}
      /\ Len(Append(c, Accessed)) = Len(c) + 1
  BY <1>1, AppendFacts
<1>5. Len(c) \in Nat
  <2>1. c \in Seq(Keys) BY <1>1 DEF Distinct
  <2> QED BY <2>1
<1>6. Tiers(cache', protected') BY <1>1, <1>2, <1>4, <1>5 DEF Tiers
<1>7. Len(cache') + Len(protected') + e = Len(cache) + Len(protected) + 1
  BY <1>1, <1>2, <1>3, <1>4, <1>5 DEF Tiers
<1>8. SLRUKept(e) BY <1>2, <1>6, <1>7 DEF SLRUKept
<1> QED BY <1>3, <1>8

\* A promotion may demote a protected key, which may push a probationary one out.
LEMMA PromoteKeeps ==
  ASSUME Tiers(cache, protected), Accessed \in Keys, SLRUPromote,
         Accessed \in ToSet(cache), Accessed \notin ToSet(protected),
         ProbationarySlots \in Nat \ {0}, ProtectedSlots \in Nat \ {0}, evictions \in Int
  PROVE  \E evicted \in {0, 1} : SLRUKept(evicted)
<1> DEFINE rest == Without(cache, Accessed)
           full == Len(protected) >= ProtectedSlots
           crowded == full /\ Len(rest) >= ProbationarySlots
           c == IF crowded THEN Tail(rest) ELSE rest
           p == IF full THEN Tail(protected) ELSE protected
           e == IF crowded THEN 1 ELSE 0
           demoted == IF full THEN <<Head(protected)>> ELSE <<>>
<1>1. /\ cache' = c \o demoted /\ protected' = Append(p, Accessed)
      /\ hits' = hits + 1 /\ misses' = misses /\ evictions' = evictions + e
  BY DEF SLRUPromote
<1>2. /\ cache \in Distinct(Keys) /\ protected \in Distinct(Keys)
      /\ ToSet(cache) \cap ToSet(protected) = {}
      /\ Len(cache) \in Nat /\ Len(protected) \in Nat
      /\ Len(cache) <= ProbationarySlots /\ Len(protected) <= ProtectedSlots
  BY DEF Tiers
<1>3. /\ rest \in Distinct(Keys) /\ ToSet(rest) = ToSet(cache) \ {Accessed}
      /\ Len(rest) = Len(cache) - 1
  BY <1>2, WithoutFacts
<1>4. Len(rest) \in Nat
  <2>1. rest \in Seq(Keys) BY <1>3 DEF Distinct
  <2> HIDE DEF rest
  <2> QED BY <2>1
<1>5. ~crowded BY <1>2, <1>3
<1> HIDE DEF rest
<1>6. c = rest /\ e = 0 BY <1>5
<1>7. CASE full
  <2>1. protected \in Seq(Keys) /\ protected # <<>>
    <3>1. protected \in Seq(Keys) /\ Len(protected) > 0 BY <1>2, <1>7 DEF Distinct
    <3> QED BY <3>1, EmptySeq
  <2>2. /\ Tail(protected) \in Distinct(Keys) /\ Head(protected) \in ToSet(protected)
        /\ ToSet(Tail(protected)) = ToSet(protected) \ {Head(protected)}
        /\ Len(Tail(protected)) = Len(protected) - 1
    BY <1>2, <2>1, PoppedFirst
  <2>3. Head(protected) \in Keys BY <2>1
  <2>4. cache' = Append(rest, Head(protected))
    <3>1. cache' = rest \o <<Head(protected)>> BY <1>1, <1>6, <1>7
    <3>2. rest \in Seq(Keys) BY <1>3 DEF Distinct
    <3> QED BY <2>3, <3>1, <3>2
  <2>5. /\ cache' \in Distinct(Keys) /\ ToSet(cache') = ToSet(rest) \union {Head(protected)}
        /\ Len(cache') = Len(rest) + 1
    BY <1>2, <1>3, <2>2, <2>3, <2>4, AppendFacts
  <2>6. protected' = Append(Tail(protected), Accessed) BY <1>1, <1>7
  <2>7. /\ protected' \in Distinct(Keys) /\ Len(protected') = Len(protected)
        /\ ToSet(protected') = ToSet(Tail(protected)) \union {Accessed}
    BY <1>2, <2>2, <2>6, AppendFacts
  <2>8. ToSet(cache') \cap ToSet(protected') = {} BY <1>2, <1>3, <2>2, <2>5, <2>7
  <2>9. Tiers(cache', protected') BY <1>2, <1>3, <2>5, <2>7, <2>8 DEF Tiers
  <2>10. Len(cache') + Len(protected') + 0 = Len(cache) + Len(protected)
    BY <1>2, <1>3, <2>5, <2>7
  <2> QED BY <1>1, <1>6, <2>9, <2>10 DEF SLRUKept
<1>8. CASE ~full
  <2>1. cache' = rest
    <3>1. rest \in Seq(Keys) BY <1>3 DEF Distinct
    <3>2. cache' = rest \o <<>> BY <1>1, <1>6, <1>8
    <3> QED BY <3>1, <3>2
  <2>2. protected' = Append(protected, Accessed) BY <1>1, <1>8
  <2>3. /\ protected' \in Distinct(Keys) /\ Len(protected') = Len(protected) + 1
        /\ ToSet(protected') = ToSet(protected) \union {Accessed}
    BY <1>2, <2>2, AppendFacts
  <2>4. ToSet(cache') \cap ToSet(protected') = {} BY <1>2, <1>3, <2>1, <2>3
  <2>5. Tiers(cache', protected') BY <1>2, <1>3, <1>4, <1>8, <2>1, <2>3, <2>4 DEF Tiers
  <2>6. Len(cache') + Len(protected') + 0 = Len(cache) + Len(protected)
    BY <1>2, <1>3, <2>1, <2>3
  <2> QED BY <1>1, <1>6, <2>5, <2>6 DEF SLRUKept
<1> QED BY <1>7, <1>8

\* An access of the two-tiered cache, with promotion, demotion and eviction.
LEMMA AccessSLRUKeeps == SimInv /\ AccessSLRU => SimInv'
<1> SUFFICES ASSUME SimInv, AccessSLRU PROVE SimInv' OBVIOUS
<1>1. /\ Tiers(cache, protected) /\ Accessed \in Keys
      /\ ProtectedSlots \in Nat \ {0} /\ ProbationarySlots \in Nat \ {0}
      /\ step + 1 \in Nat /\ step + 1 <= Len(trace) /\ Policy = "SLRU" /\ todo # <<>>
      /\ (Contains(cache, Accessed) <=> Accessed \in ToSet(cache))
      /\ (Contains(protected, Accessed) <=> Accessed \in ToSet(protected))
  BY TiersHold
<1>2. /\ hits \in Nat /\ misses \in Nat /\ evictions \in Int /\ hits + misses = step
      /\ misses = evictions + Len(cache) + Len(protected)
  BY DEF SimInv, CountersInv
<1>3. PICK evicted \in {0, 1} : SLRUKept(evicted)
  <2>1. CASE SLRUProtectedHit
    <3>1. Accessed \in ToSet(protected) BY <1>1, <2>1 DEF SLRUProtectedHit
    <3> QED BY <1>1, <1>2, <2>1, <3>1, ProtectedHitKeeps
  <2>2. CASE SLRUPromote
    <3>1. Accessed \in ToSet(cache) /\ Accessed \notin ToSet(protected)
      BY <1>1, <2>2 DEF SLRUPromote
    <3> QED BY <1>1, <1>2, <2>2, <3>1, PromoteKeeps
  <2>3. CASE SLRUMiss
    <3>1. Accessed \notin ToSet(cache) /\ Accessed \notin ToSet(protected)
      BY <1>1, <2>3 DEF SLRUMiss
    <3> QED BY <1>1, <1>2, <2>3, <3>1, SLRUMissKeeps
  <2> QED BY <2>1, <2>2, <2>3 DEF AccessSLRU
<1>4. step' = step + 1 /\ UNCHANGED <<replayVars, freqs, count>> BY DEF AccessSLRU
<1>5. ReplaysInv' BY <1>4 DEF SimInv, ReplaysInv, replayVars
<1>6. Len(cache) \in Nat /\ Len(protected) \in Nat /\ Len(cache') \in Nat /\ Len(protected') \in Nat
  BY <1>1, <1>3 DEF Tiers, SLRUKept
<1>7. CountersInv'
  <2>1. /\ hits' \in Nat /\ misses' \in Nat /\ evictions' \in Int
        /\ hits' + misses' = hits + misses + 1
        /\ misses' = evictions' + Len(cache') + Len(protected')
    <3> DEFINE c == Len(cache)
               p == Len(protected)
               d == Len(cache')
               q == Len(protected')
    <3>1. c \in Nat /\ p \in Nat /\ d \in Nat /\ q \in Nat /\ misses = evictions + c + p
      BY <1>2, <1>6
    <3>2. \/ /\ hits' = hits + 1 /\ misses' = misses /\ evictions' = evictions + evicted
             /\ d + q + evicted = c + p
          \/ /\ hits' = hits /\ misses' = misses + 1 /\ evictions' = evictions + evicted
             /\ d + q + evicted = c + p + 1
      BY <1>3 DEF SLRUKept
    <3> HIDE DEF c, p, d, q
    <3>3. /\ hits' \in Nat /\ misses' \in Nat /\ evictions' \in Int
          /\ hits' + misses' = hits + misses + 1 /\ misses' = evictions' + d + q
      BY <1>2, <3>1, <3>2
    <3> QED BY <3>3 DEF d, q
  <2> QED BY <1>1, <1>2, <1>4, <2>1 DEF CountersInv, replayVars
<1>8. CachesInv'
  <2>1. /\ Policy' = Policy /\ ProtectedSlots' = ProtectedSlots
        /\ ProbationarySlots' = ProbationarySlots
    BY <1>4 DEF Policy, ProtectedSlots, ProbationarySlots, replayVars
  <2>2. Tiers(cache', protected') BY <1>3 DEF SLRUKept
  <2> QED BY <1>1, <2>1, <2>2 DEF CachesInv, Tiers
<1>9. FreqsInv' BY <1>4 DEF SimInv, FreqsInv
<1> QED BY <1>5, <1>7, <1>8, <1>9 DEF SimInv

\* The next policy starts with nothing held; the results of this one add up.
LEMMA EndReplayKeeps == SimInv /\ EndReplay => SimInv'
<1> SUFFICES ASSUME SimInv, EndReplay PROVE SimInv' OBVIOUS
<1> USE DEF EndReplay, Renewed
<1>1. /\ trace \in Seq(Accesses) /\ todo \in Seq(Replayable) /\ todo # <<>>
      /\ metrics \in Seq(Measured) /\ \A m \in ToSet(metrics) : m.misses = m.evictions + m.held
      /\ simPhase \in {"replay", "over"}
  BY DEF SimInv, ReplaysInv
<1> DEFINE r == [policy |-> Policy, slots |-> Head(todo)[2], hits |-> hits, misses |-> misses,
                 evictions |-> evictions, held |-> Len(cache) + Len(protected)]
<1>2. r \in Measured /\ r.misses = r.evictions + r.held
  <2>1. Head(todo) \in Replayable BY <1>1
  <2>2. Policy \in PolicyNames /\ Head(todo)[2] \in Int BY <2>1 DEF Policy, Replayable
  <2>3. hits \in Int /\ misses \in Int /\ evictions \in Int
        /\ misses = evictions + Len(cache) + Len(protected)
    BY DEF SimInv, CountersInv
  <2>4. Len(cache) \in Nat /\ Len(protected) \in Nat
    <3>1. cache \in Seq(Keys) /\ protected \in Seq(Keys) BY DEF SimInv, CachesInv, Distinct
    <3> QED BY <3>1
  <2> QED BY <2>2, <2>3, <2>4 DEF Measured
<1>3. metrics' = Append(metrics, r) OBVIOUS
<1> HIDE DEF r
<1>4. metrics' \in Seq(Measured) BY <1>1, <1>2, <1>3
<1>5. ASSUME NEW m \in ToSet(metrics') PROVE m.misses = m.evictions + m.held
  <2>1. PICK i \in 1 .. Len(metrics) + 1 : m = Append(metrics, r)[i]
    BY <1>1, <1>2, <1>3 DEF ToSet
  <2>2. CASE i = Len(metrics) + 1
    <3>1. m = r BY <1>1, <1>2, <2>1, <2>2
    <3> QED BY <1>2, <3>1
  <2>3. CASE i # Len(metrics) + 1
    <3>1. i \in 1 .. Len(metrics) /\ m = metrics[i] BY <1>1, <1>2, <2>1, <2>3
    <3>2. m \in ToSet(metrics) BY <1>1, <3>1 DEF ToSet
    <3> QED BY <1>1, <3>2
  <2> QED BY <2>2, <2>3
<1>6. todo' \in Seq(Replayable) BY <1>1
<1>7. ReplaysInv' BY <1>1, <1>4, <1>5, <1>6 DEF ReplaysInv
<1>8. CountersInv' BY <1>1 DEF CountersInv
<1>9. CachesInv'
  <2>1. <<>> \in Distinct(Keys) /\ ToSet(<<>>) = {} BY EmptyFacts
  <2>2. todo' # <<>> => Slots' >= 0 /\ ProbationarySlots' >= 0 /\ ProtectedSlots' >= 0
    BY <1>6, SlotsStayPositive
  <2>3. Len(cache') = 0 /\ Len(protected') = 0 OBVIOUS
  <2> QED BY <2>1, <2>2, <2>3 DEF CachesInv
<1>10. FreqsInv' BY SimulationAssumption DEF FreqsInv
<1> QED BY <1>7, <1>8, <1>9, <1>10 DEF SimInv

\* Every access, and the end of a replay and of the sweep, keep the invariant.
LEMMA SimInvKept == SimInv /\ [SimNext]_simVars => SimInv'
<1> SUFFICES ASSUME SimInv, [SimNext]_simVars PROVE SimInv' OBVIOUS
<1>1. CASE AccessLRU BY <1>1, AccessLRUKeeps
<1>2. CASE AccessSLRU BY <1>2, AccessSLRUKeeps
<1>3. CASE AccessTinyLFU BY <1>3, AccessTinyLFUKeeps
<1>4. CASE AccessOracle BY <1>4, AccessOracleKeeps
<1>5. CASE EndReplay BY <1>5, EndReplayKeeps
<1>6. CASE Decide \/ Report \/ UNCHANGED simVars
  <2>1. /\ simPhase' \in {simPhase, "over"}
        /\ UNCHANGED <<trace, todo, cache, protected, freqs, count, step, hits, misses,
                       evictions, metrics>>
    BY <1>6 DEF Decide, Report, simVars
  <2>2. ReplaysInv' BY <2>1 DEF SimInv, ReplaysInv
  <2>3. CountersInv' BY <2>1 DEF SimInv, CountersInv
  <2>4. CachesInv'
    BY <2>1 DEF SimInv, CachesInv, Policy, Slots, ProtectedSlots, ProbationarySlots
  <2>5. FreqsInv' BY <2>1 DEF SimInv, FreqsInv
  <2> QED BY <2>2, <2>3, <2>4, <2>5 DEF SimInv
<1> QED BY <1>1, <1>2, <1>3, <1>4, <1>5, <1>6 DEF SimNext

\* The invariant says of the finished replays what the property says.
LEMMA SimInvAccounts == SimInv => MetricsAccount
<1> SUFFICES ASSUME SimInv PROVE MetricsAccount OBVIOUS
<1>1. /\ cache \in Distinct(Keys) /\ protected \in Distinct(Keys)
      /\ ToSet(cache) \cap ToSet(protected) = {}
  BY DEF SimInv, CachesInv
<1>2. cache \in Seq(Keys) /\ protected \in Seq(Keys) BY <1>1 DEF Distinct
<1>3. Len(cache) \in Nat /\ Len(protected) \in Nat BY <1>2
<1>4. IsInjective(cache \o protected)
  <2> DEFINE s == cache \o protected
  <2>1. /\ DOMAIN s = 1 .. (Len(cache) + Len(protected))
        /\ \A i \in DOMAIN s : s[i] = IF i <= Len(cache) THEN cache[i]
                                      ELSE protected[i - Len(cache)]
    BY <1>2
  <2>2. /\ \A i, j \in 1 .. Len(cache) : cache[i] = cache[j] => i = j
        /\ \A i, j \in 1 .. Len(protected) : protected[i] = protected[j] => i = j
    BY <1>1, <1>2 DEF Distinct, IsInjective
  <2>3. \A i \in 1 .. Len(cache), j \in 1 .. Len(protected) : cache[i] # protected[j]
    BY <1>1, <1>2 DEF ToSet
  <2> HIDE DEF s
  <2>4. ASSUME NEW i \in DOMAIN s, NEW j \in DOMAIN s, s[i] = s[j] PROVE i = j
    <3>1. CASE i <= Len(cache) /\ j <= Len(cache) BY <1>3, <2>1, <2>2, <2>4, <3>1
    <3>2. CASE i <= Len(cache) /\ ~(j <= Len(cache))
      <4>1. i \in 1 .. Len(cache) /\ j - Len(cache) \in 1 .. Len(protected)
        BY <1>3, <2>1, <2>4, <3>2
      <4> QED BY <2>1, <2>3, <2>4, <3>2, <4>1
    <3>3. CASE ~(i <= Len(cache)) /\ j <= Len(cache)
      <4>1. j \in 1 .. Len(cache) /\ i - Len(cache) \in 1 .. Len(protected)
        BY <1>3, <2>1, <2>4, <3>3
      <4> QED BY <2>1, <2>3, <2>4, <3>3, <4>1
    <3>4. CASE ~(i <= Len(cache)) /\ ~(j <= Len(cache))
      <4>1. i - Len(cache) \in 1 .. Len(protected) /\ j - Len(cache) \in 1 .. Len(protected)
        BY <1>3, <2>1, <2>4, <3>4
      <4>2. i - Len(cache) = j - Len(cache) BY <2>1, <2>2, <2>4, <3>4, <4>1
      <4> QED BY <1>3, <2>1, <2>4, <4>2
    <3> QED BY <3>1, <3>2, <3>3, <3>4
  <2>5. IsInjective(s) BY <2>4 DEF IsInjective
  <2> QED BY <2>5 DEF s
<1>5. Held \subseteq Keys BY <1>2, ElementsAreFinite DEF Held
<1>6. Cardinality(Held) = Len(cache) + Len(protected)
  <2>1. /\ IsFiniteSet(ToSet(cache)) /\ Cardinality(ToSet(cache)) = Len(cache)
        /\ IsFiniteSet(ToSet(protected)) /\ Cardinality(ToSet(protected)) = Len(protected)
    BY <1>1, LenIsCardinality
  <2>2. Cardinality(ToSet(cache) \cup ToSet(protected))
        = Cardinality(ToSet(cache)) + Cardinality(ToSet(protected))
          - Cardinality(ToSet(cache) \cap ToSet(protected))
    BY <2>1, FS_Union
  <2>3. Cardinality(ToSet(cache) \cap ToSet(protected)) = 0 BY <1>1, FS_EmptySet
  <2> QED BY <1>3, <2>1, <2>2, <2>3 DEF Held
<1>7. freqs \in [Keys -> 0 .. 2 * SampleWindow] /\ count \in 0 .. SampleWindow - 1
  <2>1. /\ freqs \in [Keys -> Nat] /\ count \in 0 .. SampleWindow - 1
        /\ \A k \in Keys : freqs[k] <= SampleWindow + count
    BY DEF SimInv, FreqsInv
  <2>2. \A k \in Keys : freqs[k] \in 0 .. 2 * SampleWindow BY <2>1, SimulationAssumption
  <2> QED BY <2>1, <2>2
<1>8. step \in 0 .. Len(trace) /\ hits + misses = step
  <2>1. trace \in Seq(Accesses) BY DEF SimInv, ReplaysInv
  <2> QED BY <2>1 DEF SimInv, CountersInv
<1>9. SimTypeOK BY <1>4, <1>5, <1>7, <1>8 DEF SimTypeOK, SimInv, ReplaysInv, CachesInv
<1>10. EvictionsAccount
  <2>1. misses = evictions + Cardinality(Held)
    <3>1. evictions \in Int /\ misses = evictions + Len(cache) + Len(protected)
      BY DEF SimInv, CountersInv
    <3> QED BY <1>3, <1>6, <3>1
  <2> QED BY <2>1 DEF EvictionsAccount, SimInv, ReplaysInv
<1> QED BY <1>9, <1>10 DEF MetricsAccount

\* For every trace and every sweep of capacities, whatever the policy: each access
\* is a hit or a miss, every miss is counted as evicted or is held, in the metrics
\* too; no key is held twice and no tier has more than its slots (the simulators
\* of sim/cache.py, whose metrics sim/report.py compares).
THEOREM ReplaysAddUp == SimSpec => []MetricsAccount
<1>1. SimInit => SimInv BY SimStarts
<1>2. SimInv /\ [SimNext]_simVars => SimInv' BY SimInvKept
<1>3. SimInv => MetricsAccount BY SimInvAccounts
<1> QED BY <1>1, <1>2, <1>3, PTL DEF SimSpec
=============================================================================
