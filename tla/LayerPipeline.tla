--------------------------- MODULE LayerPipeline ---------------------------
(***************************************************************************)
(* The quantization pipeline (pipeline/layer_pipeline.py) with its job     *)
(* manifest (manifest.py): tensors are quantized in the order of the       *)
(* checkpoint, staged in a shard writer and recorded in a manifest that a  *)
(* later process resumes from.  The model keeps what is on the disk        *)
(* (manifest, shard files, index) apart from what a process holds (its     *)
(* copy of the manifest, the staged buffer, the weight map), and lets the  *)
(* process be killed, or a read or a write fail, at every step.            *)
(*                                                                         *)
(* A shard file is the set of the tensors it holds; a file torn by a kill  *)
(* or a failed write holds none.  <<i, 0>> is model-i.safetensors and      *)
(* <<i, n>> is model-i-of-n.safetensors.                                   *)
(***************************************************************************)
EXTENDS Integers, Sequences, FiniteSets, FiniteSetsExt, Functions

CONSTANTS Order,          \* the tensors, in the order of the address table
          Bytes,          \* the staged size of each tensor
          MaxShardBytes,  \* the size at which a shard is flushed
          MaxFaults,      \* bound: kills and exceptions of a behaviour
          Absent,         \* a file that is not there
          Torn            \* a file cut short by a kill

Tensors == Range(Order)

Names == (1 .. Len(Order)) \X (0 .. Len(Order))

\* A manifest: the status of each tensor and the counter of completed ones.
Manifest == [status : [Tensors -> {"pending", "completed", "failed"}],
             completed : 0 .. Len(Order) + MaxFaults]

ASSUME PipelineAssumption ==
  /\ Order \in Seq(Tensors) /\ \A i, j \in DOMAIN Order : Order[i] = Order[j] => i = j
  /\ Bytes \in [Tensors -> Nat \ {0}]
  /\ MaxShardBytes \in Nat \ {0}
  /\ MaxFaults \in Nat
  /\ Absent # Torn /\ Absent \notin Manifest
  /\ \A S \in SUBSET Tensors : Absent \notin [S -> Names] /\ Torn \notin [S -> Names]

VARIABLES disk,       \* the manifest file, or Absent
          files,      \* the shard files: a function from names to sets of tensors
          index,      \* model.safetensors.index.json: Absent, Torn or a weight map
          pc,         \* the step the process is at; "off" when there is none
          mem,        \* the process's manifest, Absent when there is no process
          pos,        \* the tensor of the loop, or the shard to rename
          buffer,     \* the tensors staged for the next shard
          written,    \* how many shards this process has written
          weightMap,  \* the shard of each tensor this process has written
          faults      \* faults so far

onDisk == <<disk, files, index>>
writer == <<buffer, written, weightMap>>
vars == <<disk, files, index, pc, mem, pos, buffer, written, weightMap, faults>>

Empty == [t \in {} |-> {}]

InitialManifest == [status |-> [t \in Tensors |-> "pending"], completed |-> 0]

TotalBytes(S) == MapThenSumSet(LAMBDA t : Bytes[t], S)

Running == pc \notin {"off", "done", "failed"}

\* The process is over: what it held is gone.
Ends(how) ==
  /\ pc' = how
  /\ mem' = Absent
  /\ pos' = 1
  /\ buffer' = {}
  /\ written' = 0
  /\ weightMap' = Empty

Goto(label) == pc' = label

Init ==
  /\ disk = Absent /\ files = Empty /\ index = Absent
  /\ pc = "off" /\ mem = Absent /\ pos = 1
  /\ buffer = {} /\ written = 0 /\ weightMap = Empty
  /\ faults = 0

-----------------------------------------------------------------------------
\* run: a manifest found on the disk is resumed, else an initial one is saved.
\* The shard writer of the new process starts at shard 1 with nothing written.
Start ==
  /\ ~Running
  /\ mem' = IF disk = Absent THEN InitialManifest ELSE disk
  /\ disk' = mem'
  /\ pos' = 1
  /\ Goto("loop")
  /\ UNCHANGED <<files, index, faults>> /\ UNCHANGED writer

Current == Order[pos]
Finished(t) == mem.status[t] = "completed"

\* A tensor the manifest calls completed is skipped.
Skip ==
  /\ pc = "loop" /\ pos <= Len(Order) /\ Finished(Current)
  /\ pos' = pos + 1
  /\ UNCHANGED <<disk, files, index, pc, mem, faults>> /\ UNCHANGED writer

\* The tensor is streamed and quantized, or read unchanged.
Quantize ==
  /\ pc = "loop" /\ pos <= Len(Order) /\ ~Finished(Current)
  /\ Goto("add")
  /\ UNCHANGED <<disk, files, index, mem, pos, faults>> /\ UNCHANGED writer

\* add_tensor, add_quantized_result: is the buffer flushed before t is staged?
MustFlush(t) == buffer # {} /\ TotalBytes(buffer) + Bytes[t] > MaxShardBytes

\* The files fs once S is saved under the name n, over a file of that name.
Saved(fs, n, S) == [m \in DOMAIN fs \cup {n} |-> IF m = n THEN S ELSE fs[m]]

\* The name of the shard the next flush writes.
ShardName == <<written + 1, 0>>

\* Mutant: the weight map is that of the last shard.
FlushForgets ==
  /\ files' = Saved(files, ShardName, buffer)
  /\ weightMap' = [t \in buffer |-> ShardName]
  /\ written' = written + 1
  /\ buffer' = {}

\* flush: the buffer becomes a shard file; a file of that name is overwritten.
Flush ==
  /\ files' = Saved(files, ShardName, buffer)
  /\ weightMap' = [t \in DOMAIN weightMap \cup buffer |->
                     IF t \in buffer THEN ShardName ELSE weightMap[t]]
  /\ written' = written + 1
  /\ buffer' = {}

FlushFull ==
  /\ pc = "add" /\ MustFlush(Current)
  /\ Flush
  /\ UNCHANGED <<disk, index, pc, mem, pos, faults>>

Stage ==
  /\ pc = "add" /\ ~MustFlush(Current)
  /\ buffer' = buffer \cup {Current}
  /\ Goto("mark")
  /\ UNCHANGED <<disk, files, index, mem, pos, written, weightMap, faults>>

Marked(m, t) == [status |-> [m.status EXCEPT ![t] = "completed"],
                 completed |-> m.completed + 1]

\* The tensor is marked completed and the manifest saved (write and rename of
\* a temporary file: a kill leaves the old manifest or the new one).
MarkCompleted ==
  /\ pc = "mark"
  /\ mem' = Marked(mem, Current)
  /\ disk' = mem'
  /\ pos' = pos + 1
  /\ Goto("loop")
  /\ UNCHANGED <<files, index, faults>> /\ UNCHANGED writer

-----------------------------------------------------------------------------
\* finalize, first the buffer that remains.
FinalFlush ==
  /\ pc = "loop" /\ pos > Len(Order) /\ buffer # {}
  /\ Flush
  /\ UNCHANGED <<disk, index, pc, mem, pos, faults>>

\* Mutant: the early return of finalize is missing.
NeverNothing == FALSE

NothingWritten == DOMAIN weightMap = {}
LoopIsOver == pc = "loop" /\ pos > Len(Order) /\ buffer = {}

\* A process that wrote nothing keeps the index it finds; one it cannot parse
\* raises.
KeepIndex ==
  /\ LoopIsOver /\ NothingWritten /\ index # Absent
  /\ Ends(IF index = Torn THEN "failed" ELSE "done")
  /\ UNCHANGED onDisk /\ UNCHANGED faults

BeginRename ==
  /\ LoopIsOver
  /\ ~NothingWritten \/ index = Absent
  /\ pos' = 1
  /\ Goto("rename")
  /\ UNCHANGED <<disk, files, index, mem, faults>> /\ UNCHANGED writer

Total == IF written > 1 THEN written ELSE 1

\* Mutant: every shard gets the name of the last one.
LastName(i) == <<Total, Total>>

FinalName(i) == <<i, Total>>

\* One shard is renamed to its final name, replacing a file of that name.
RenameShard ==
  /\ pc = "rename" /\ pos <= written
  /\ files' = LET rest == [n \in DOMAIN files \ {<<pos, 0>>} |-> files[n]]
              IN  Saved(rest, FinalName(pos), files[<<pos, 0>>])
  /\ weightMap' = [t \in DOMAIN weightMap |->
                     IF weightMap[t] = <<pos, 0>> THEN FinalName(pos) ELSE weightMap[t]]
  /\ pos' = pos + 1
  /\ UNCHANGED <<disk, index, pc, mem, buffer, written, faults>>

\* The index is written last, in place.
WriteIndex ==
  /\ pc = "rename" /\ pos > written
  /\ index' = weightMap
  /\ Ends("done")
  /\ UNCHANGED <<disk, files, faults>>

-----------------------------------------------------------------------------

\* The tensor of the loop is recorded as failed.
FailureRecord(m) == [m EXCEPT !.status[Current] = "failed"]

Flushing ==
  \/ pc = "add" /\ MustFlush(Current)
  \/ pc = "loop" /\ pos > Len(Order) /\ buffer # {}

\* What the file being written may be after a write that did not return.
TearsShard ==
  files' \in {files, Saved(files, ShardName, {})}

\* An exception while the tensor is read, quantized or staged: it is marked
\* failed, that is saved unless saving fails as well, and the process ends.
TensorFails ==
  /\ faults < MaxFaults
  /\ \/ pc = "loop" /\ pos <= Len(Order) /\ ~Finished(Current) /\ files' = files
     \/ pc = "add" /\ MustFlush(Current) /\ TearsShard
  /\ disk' \in {disk, FailureRecord(mem)}
  /\ Ends("failed")
  /\ faults' = faults + 1
  /\ UNCHANGED index

\* Saving the mark raises: the same handler runs, with the counter advanced.
SaveFails ==
  /\ faults < MaxFaults
  /\ pc = "mark"
  /\ disk' \in {disk, FailureRecord(Marked(mem, Current))}
  /\ Ends("failed")
  /\ faults' = faults + 1
  /\ UNCHANGED <<files, index>>

\* The process is killed, or finalize raises: nothing is recorded, and a shard
\* or the index being written is torn.
Killed ==
  /\ faults < MaxFaults
  /\ Running
  /\ \/ files' = files /\ index' = index
     \/ Flushing /\ TearsShard /\ index' = index
     \/ pc = "rename" /\ pos > written /\ index' = Torn /\ files' = files
  /\ Ends("off")
  /\ faults' = faults + 1
  /\ UNCHANGED disk

Progress ==
  \/ Skip \/ Quantize \/ FlushFull \/ Stage \/ MarkCompleted
  \/ FinalFlush \/ KeepIndex \/ BeginRename \/ RenameShard \/ WriteIndex

Next ==
  \/ Start
  \/ Skip \/ Quantize \/ FlushFull \/ Stage \/ MarkCompleted
  \/ FinalFlush \/ KeepIndex \/ BeginRename \/ RenameShard \/ WriteIndex
  \/ TensorFails \/ SaveFails \/ Killed

\* A running process goes on; nobody is obliged to start one.
Spec == Init /\ [][Next]_vars /\ WF_vars(Progress)

-----------------------------------------------------------------------------
\* Types of the variables.
TypeOK ==
  /\ disk \in Manifest \cup {Absent}
  /\ DOMAIN files \subseteq Names /\ \A n \in DOMAIN files : files[n] \subseteq Tensors
  /\ index \in {Absent, Torn} \/ (DOMAIN index \subseteq Tensors /\ Range(index) \subseteq Names)
  /\ pc \in {"off", "loop", "add", "mark", "rename", "done", "failed"}
  /\ mem \in Manifest \cup {Absent}
  /\ pos \in 1 .. Len(Order) + 1
  /\ buffer \subseteq Tensors
  /\ written \in 0 .. Len(Order)
  /\ DOMAIN weightMap \subseteq Tensors /\ Range(weightMap) \subseteq Names
  /\ faults \in 0 .. MaxFaults

\* Whatever a process has flushed is, at every step up to its end, in the file
\* its weight map names: flushing, the numbering of shards and the renames of
\* finalize never separate a tensor from its shard (ShardWriter.flush and
\* finalize).
FlushedIsKept ==
  \A t \in DOMAIN weightMap :
    /\ weightMap[t] \in DOMAIN files
    /\ t \in files[weightMap[t]]

IndexIsMap == index \notin {Absent, Torn}

\* An index that can be read is true: each entry names a shard that holds the
\* tensor, after any kills, exceptions, resumed runs and reruns.
IndexIsTrue ==
  IndexIsMap => \A t \in DOMAIN index :
                  /\ index[t] \in DOMAIN files
                  /\ t \in files[index[t]]

\* A job that no fault ever interrupted leaves an index of all its tensors and
\* a manifest that counts them all (QuantizationPipeline.run, is_complete).
FreshRunIsWhole ==
  pc = "done" /\ faults = 0 =>
    /\ IndexIsMap /\ DOMAIN index = Tensors
    /\ disk.completed = Len(Order)

\* A shard exceeds the staging limit only when it holds a single tensor, which
\* is larger by itself (max_shard_size_mb is the budget's max_cpu_staging_mb).
ShardIsBounded ==
  \A n \in DOMAIN files : TotalBytes(files[n]) > MaxShardBytes => Cardinality(files[n]) = 1

\* A tensor the saved manifest calls completed stays completed: neither the
\* handler of an exception nor a resumed run takes it back.
CompletedStays ==
  [][disk # Absent =>
       /\ disk' # Absent
       /\ \A t \in Tensors : disk.status[t] = "completed" => disk'.status[t] = "completed"]_vars

\* Once the index is there, running the job again changes neither the shards
\* nor the index (the early return of finalize and the skipped tensors).
RerunChangesNothing ==
  [][IndexIsMap => UNCHANGED <<files, index>>]_vars

\* Every process that is started comes to an end: done, failed or killed.
EveryRunEnds == Running ~> ~Running

\* Types, and what the shards and the index say of each other.
IndexSound == TypeOK /\ FlushedIsKept /\ IndexIsTrue /\ ShardIsBounded

\* Jobs come to an end, and what is done stays done.
JobsEndForGood == CompletedStays /\ RerunChangesNothing /\ EveryRunEnds
=============================================================================
