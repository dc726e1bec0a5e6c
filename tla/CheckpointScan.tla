--------------------------- MODULE CheckpointScan ---------------------------
(***************************************************************************)
(* How the program learns where the tensors of a checkpoint are: a pool of *)
(* threads reads the headers of its shards, and what they say becomes the  *)
(* inventory of a scan, compared with the published index                  *)
(* (audit/headers.py), or a table of addresses (metadata/tensor_index.py), *)
(* from which tensors, rows and experts are read (streaming/reader.py).    *)
(*                                                                         *)
(* Shards and tensors are numbers, in the order their names sort.          *)
(***************************************************************************)
EXTENDS Integers, Sequences, SequencesExt, FiniteSets, FiniteSetsExt

CONSTANTS
  ScanJobs,      \* calls: [files, local, table, strict, fast, map, total, retries];
                 \* files: of each shard [size, header, parses, tensors], and of each
                 \* of its tensors [shape, at, len, width]; map, total: the index
  MaxWorkers,    \* threads of the pool
  ProbeBytes,    \* the first request for a header
  SampleLimit,   \* shards of a fast table
  DefaultShard,  \* "model.safetensors"
  DetailLimit    \* discrepancies of a kind that are listed

\* A header may declare any lengths; nothing says they are right.
Declared == [shape : Seq(Nat), at : Nat, len : Int, width : Nat]

ASSUME ScanAssumption ==
  /\ \A j \in ScanJobs :
       /\ DOMAIN j.map \subseteq Nat /\ j.retries \in Int
       /\ \A s \in DOMAIN j.files :
            /\ j.files[s].size \in Nat /\ j.files[s].header \in Nat
            /\ \A n \in DOMAIN j.files[s].tensors :
                 n \in Nat /\ j.files[s].tensors[n] \in Declared
  /\ MaxWorkers \in Nat \ {0} /\ ProbeBytes \in Nat \ {0}
  /\ SampleLimit \in Nat \ {0} /\ DetailLimit \in Nat \ {0}

VARIABLES scanPhase,  \* "idle" (not called), "start", "collect", "leave" (an exception
                      \* waits for the pool), "returned", "raised"
          scanJob,
          published,  \* the index as the program has it: [map, total]
          shards,     \* the shards to read, in order
          tasks,      \* the future of each: [state, tries, result]
          inventory,  \* tensor -> its address
          failures,   \* shards of a scan that could not be read
          report,     \* discrepancies: [kind, of]
          read        \* the last bytes read: [tensor, shard, from, to, first, count]

scanVars == <<scanPhase, scanJob, published, shards, tasks, inventory, failures, report, read>>

NoIndex == [map |-> <<>>, total |-> 0]
NoRead == [tensor |-> 0, shard |-> 0, from |-> 0, to |-> 0, first |-> 0, count |-> 0]

ScanBlank ==
  /\ published = NoIndex /\ shards = <<>> /\ tasks = <<>> /\ inventory = <<>>
  /\ failures = {} /\ report = {} /\ read = NoRead

ScanInit == scanPhase = "start" /\ scanJob \in ScanJobs /\ ScanBlank
ScanIdle == scanPhase = "idle" /\ scanJob = (CHOOSE j \in ScanJobs : TRUE) /\ ScanBlank

Files == scanJob.files
Elements(shape) == FoldLeft(LAMBDA a, b : a * b, 1, shape)
Sorted(S) == SetToSortSeq(S, <)

-----------------------------------------------------------------------------
(* What to read.                                                           *)

\* The shards the index names; without one, the files of the repository.
Discovered(known) ==
  IF DOMAIN known.map # {} THEN Sorted({known.map[n] : n \in DOMAIN known.map})
  ELSE Sorted(DOMAIN Files)

\* A fast look at a remote repository takes the first shards and the last.
Sampled(all) ==
  IF scanJob.fast /\ ~scanJob.local /\ Len(all) > SampleLimit
    THEN SubSeq(all, 1, SampleLimit - 1) \o <<Last(all)>> ELSE all

Submit(chosen) ==
  /\ shards' = chosen
  /\ tasks' = [i \in DOMAIN chosen |-> [state |-> "queued", tries |-> 0, result |-> "none"]]
  /\ scanPhase' = "collect"
  /\ UNCHANGED <<scanJob, inventory, failures, report, read>>

\* fetch_model_index: a remote index that cannot be fetched is no index.
Fetched == {[map |-> scanJob.map, total |-> scanJob.total]} \cup
           (IF scanJob.local THEN {} ELSE {NoIndex})

StartScan ==
  /\ scanPhase = "start" /\ ~scanJob.table
  /\ published' \in Fetched
  /\ Discovered(published') # <<>>
  /\ Submit(Discovered(published'))

\* ShardScanError: no shards found.
NothingToScan ==
  /\ scanPhase = "start" /\ ~scanJob.table
  /\ published' \in Fetched
  /\ Discovered(published') = <<>>
  /\ scanPhase' = "raised"
  /\ UNCHANGED <<scanJob, shards, tasks, inventory, failures, report, read>>

\* A table takes a repository without shards to have one of the usual name.
StartTable ==
  /\ scanPhase = "start" /\ scanJob.table
  /\ published' \in Fetched
  /\ Submit(IF Discovered(published') = <<>> THEN <<DefaultShard>>
            ELSE Sampled(Discovered(published')))

-----------------------------------------------------------------------------
(* The threads.                                                            *)

Fetching(i) == tasks[i].state = "running"

\* A free thread takes the task submitted first.
Begin(i) ==
  /\ scanPhase \in {"collect", "leave"}
  /\ tasks[i].state = "queued"
  /\ \A j \in 1 .. i - 1 : tasks[j].state # "queued"
  /\ Cardinality({j \in DOMAIN tasks : Fetching(j)}) < MaxWorkers
  /\ tasks' = [tasks EXCEPT ![i].state = "running"]
  /\ UNCHANGED <<scanPhase, scanJob, published, shards, inventory, failures, report, read>>

Ended(i, result) ==
  /\ tasks' = [tasks EXCEPT ![i].state = "done", ![i].result = result]
  /\ UNCHANGED <<scanPhase, scanJob, published, shards, inventory, failures, report, read>>

Present(i) == shards[i] \in DOMAIN Files

\* A header can be read from a file that parses.
LocallyReadable(i) == Present(i) /\ Files[shards[i]].parses

\* A server answers the first request as demanded only if the file is at least
\* as long as the request.
RemotelyReadable(i) == LocallyReadable(i) /\ Files[shards[i]].size >= ProbeBytes

Readable(i) == IF scanJob.local THEN LocallyReadable(i) ELSE RemotelyReadable(i)

ReadsHeader(i) == Fetching(i) /\ Readable(i) /\ Ended(i, "header")

\* A local shard that is not there: an error of the scan, but for a table a
\* header without tensors.
LocalMissing(i) ==
  /\ Fetching(i) /\ scanJob.local /\ ~Present(i)
  /\ Ended(i, IF scanJob.table THEN "empty" ELSE "error")

\* An attempt may raise if the bytes are bad or come over the network.
MayRaise(i) == Fetching(i) /\ (Present(i) \/ ~scanJob.local) /\ (~Readable(i) \/ ~scanJob.local)

Attempts == IF scanJob.retries < 1 THEN 1 ELSE scanJob.retries

\* Mutant: attempts are not counted.
RetryForEver(i) ==
  /\ MayRaise(i) /\ ~scanJob.table
  /\ tasks[i].tries + 1 < Attempts
  /\ UNCHANGED scanVars

\* _read_header tries again after a pause.
Retry(i) ==
  /\ MayRaise(i) /\ ~scanJob.table
  /\ tasks[i].tries + 1 < Attempts
  /\ tasks' = [tasks EXCEPT ![i].tries = @ + 1]
  /\ UNCHANGED <<scanPhase, scanJob, published, shards, inventory, failures, report, read>>

GiveUp(i) ==
  /\ MayRaise(i) /\ ~scanJob.table
  /\ tasks[i].tries + 1 >= Attempts
  /\ Ended(i, "error")

\* _fetch_single_shard tries once; a remote failure raises in strict mode only.
TableRaises(i) ==
  /\ MayRaise(i) /\ scanJob.table
  /\ Ended(i, IF scanJob.local \/ scanJob.strict THEN "error" ELSE "empty")

Work(i) == Begin(i) \/ ReadsHeader(i) \/ LocalMissing(i) \/ Retry(i) \/ GiveUp(i) \/ TableRaises(i)

-----------------------------------------------------------------------------
(* The caller.                                                             *)

\* TensorAddress: the offsets of a header count from its end.
Address(s, n) ==
  LET t == Files[s].tensors[n]  h == Files[s].header
  IN  [shard |-> s, shape |-> t.shape, width |-> t.width, start |-> h + t.at,
       end |-> h + t.at + t.len]

\* tensors[name] = ...: the header taken last wins.
Merged(s) ==
  [n \in DOMAIN inventory \cup DOMAIN Files[s].tensors |->
     IF n \in DOMAIN Files[s].tensors THEN Address(s, n) ELSE inventory[n]]

\* as_completed yields the futures in the order they end; of those that have
\* ended, any may come next.
Take(i) == scanPhase = "collect" /\ tasks[i].state = "done"
           /\ tasks' = [tasks EXCEPT ![i].state = "taken"]

TakeHeader(i) ==
  /\ Take(i) /\ tasks[i].result \in {"header", "empty"}
  /\ inventory' = IF tasks[i].result = "header" THEN Merged(shards[i]) ELSE inventory
  /\ UNCHANGED <<scanPhase, scanJob, published, shards, failures, report, read>>

\* A scan notes the failure and goes on.
TakeFailure(i) ==
  /\ Take(i) /\ tasks[i].result = "error" /\ ~scanJob.table
  /\ failures' = failures \cup {shards[i]}
  /\ UNCHANGED <<scanPhase, scanJob, published, shards, inventory, report, read>>

\* A table raises, once the pool has worked off all that was submitted.
TakeException(i) ==
  /\ Take(i) /\ tasks[i].result = "error" /\ scanJob.table
  /\ scanPhase' = "leave"
  /\ UNCHANGED <<scanJob, published, shards, inventory, failures, report, read>>

LeavePool ==
  /\ scanPhase = "leave"
  /\ \A i \in DOMAIN tasks : tasks[i].state \in {"done", "taken"}
  /\ scanPhase' = "raised"
  /\ UNCHANGED <<scanJob, published, shards, tasks, inventory, failures, report, read>>

Finding(kind, S) == {[kind |-> kind, of |-> x] : x \in S}
Listed(S) == {x \in S : Cardinality({y \in S : y < x}) < DetailLimit}
ScannedBytes ==
  FoldSet(LAMBDA n, sum : sum + inventory[n].end - inventory[n].start, 0, DOMAIN inventory)

\* Mutant: where the index says a tensor is, is not compared.
NotCompared == {{}}

\* At most one tensor found in another shard than the index says is reported:
\* the first in the order of the index.
Misplaced ==
  LET wrong == {n \in DOMAIN published.map \cap DOMAIN inventory : inventory[n].shard # published.map[n]}
  IN  IF wrong = {} THEN {{}} ELSE {Finding("shard_mismatch", {n}) : n \in wrong}

\* verify_scan without the misplaced tensors.
Compared ==
  Finding("shard_unreadable", failures)
  \cup (IF DOMAIN published.map = {} THEN {} ELSE
          Finding("missing_tensor", Listed(DOMAIN published.map \ DOMAIN inventory))
          \cup Finding("extra_tensor", Listed(DOMAIN inventory \ DOMAIN published.map)))
  \cup (IF published.total # 0 /\ ScannedBytes # published.total
          THEN Finding("total_size_mismatch", {ScannedBytes}) ELSE {})

AllTaken == scanPhase = "collect" /\ \A i \in DOMAIN tasks : tasks[i].state = "taken"

FinishScan ==
  /\ AllTaken /\ ~scanJob.table
  /\ ~(scanJob.strict /\ failures # {})
  /\ scanPhase' = "returned"
  /\ \E misplaced \in Misplaced : report' = Compared \cup misplaced
  /\ UNCHANGED <<scanJob, published, shards, tasks, inventory, failures, read>>

StrictRaises ==
  /\ AllTaken /\ ~scanJob.table
  /\ scanJob.strict /\ failures # {}
  /\ scanPhase' = "raised"
  /\ UNCHANGED <<scanJob, published, shards, tasks, inventory, failures, report, read>>

FinishTable ==
  /\ AllTaken /\ scanJob.table
  /\ scanPhase' = "returned"
  /\ UNCHANGED <<scanJob, published, shards, tasks, inventory, failures, report, read>>

-----------------------------------------------------------------------------
(* Reading what was found.  A read that raises changes nothing.            *)

Reads(n, from, to, first, count) ==
  /\ read' = [tensor |-> n, shard |-> inventory[n].shard, from |-> from, to |-> to,
              first |-> first, count |-> count]
  /\ UNCHANGED <<scanPhase, scanJob, published, shards, tasks, inventory, failures, report>>

Reading(n) == scanPhase = "returned" /\ n \in DOMAIN inventory

\* A remote range is accepted if the file has it and it is as long as the
\* elements asked for (of an empty range nothing is read); a local file is opened by its own library, which demands
\* that its header be right (external).
RemoteRange(n, from, to, count) ==
  /\ ~scanJob.local
  /\ from < to /\ to <= Files[inventory[n].shard].size
  /\ to - from = count * inventory[n].width

LocallySound(s) ==
  \A n \in DOMAIN Files[s].tensors :
    LET t == Files[s].tensors[n]
    IN  t.len = Elements(t.shape) * t.width /\ Files[s].header + t.at + t.len <= Files[s].size

LocalElements(n, first, count) ==
  /\ scanJob.local /\ LocallySound(inventory[n].shard)
  /\ LET t == Address(inventory[n].shard, n)
     IN  Reads(n, t.start + first * t.width, t.start + (first + count) * t.width, first, count)

ReadTensor(n) ==
  /\ Reading(n)
  /\ LET a == inventory[n]  count == Elements(a.shape)
     IN  \/ RemoteRange(n, a.start, a.end, count) /\ Reads(n, a.start, a.end, 0, count)
         \/ LocalElements(n, 0, count)

\* The bytes of a row, or of an expert, follow from those of the tensor.
Stride(len, parts) == IF parts < 1 THEN len ELSE len \div parts

\* read_slice of rows: of a matrix by their bytes, of any other tensor after
\* reading it whole.  A scalar has no rows.
ReadSlice(n) ==
  /\ Reading(n) /\ inventory[n].shape # <<>>
  /\ \E from \in 0 .. inventory[n].shape[1] - 1, to \in 1 .. inventory[n].shape[1] :
       LET a == inventory[n]
           rows == a.shape[1]
           perRow == Elements(Tail(a.shape))
           stride == Stride(a.end - a.start, rows)
           start == a.start + from * stride
           end == a.start + to * stride
       IN  /\ from < to
           /\ \/ /\ Len(a.shape) = 2 /\ (a.end - a.start) % rows = 0
                 /\ RemoteRange(n, start, end, (to - from) * perRow)
                 /\ Reads(n, start, end, from * perRow, (to - from) * perRow)
              \/ /\ Len(a.shape) # 2
                 /\ RemoteRange(n, a.start, a.end, rows * perRow)
                 /\ Reads(n, a.start + from * perRow * a.width, a.start + to * perRow * a.width,
                          from * perRow, (to - from) * perRow)
              \/ Len(a.shape) >= 2 /\ LocalElements(n, from * perRow, (to - from) * perRow)

\* read_3d_expert_slice.
ReadExpert(n) ==
  /\ Reading(n) /\ Len(inventory[n].shape) = 3
  /\ \E expert \in 0 .. inventory[n].shape[1] - 1 :
       LET a == inventory[n]
           size == Elements(Tail(a.shape))
           stride == Stride(a.end - a.start, a.shape[1])
           start == a.start + expert * stride
       IN  \/ /\ (a.end - a.start) % a.shape[1] = 0
              /\ RemoteRange(n, start, start + stride, size)
              /\ Reads(n, start, start + stride, expert * size, size)
           \/ LocalElements(n, expert * size, size)

Collect == \E i \in DOMAIN tasks : TakeHeader(i) \/ TakeFailure(i) \/ TakeException(i)

ScanRun ==
  \/ StartScan \/ NothingToScan \/ StartTable
  \/ \E i \in DOMAIN tasks : Work(i)
  \/ Collect \/ LeavePool \/ FinishScan \/ StrictRaises \/ FinishTable

ScanNext ==
  ScanRun \/ \E n \in DOMAIN inventory : ReadTensor(n) \/ ReadSlice(n) \/ ReadExpert(n)

\* Every request has a time limit and every pause ends: some thread goes on
\* while there is something to do.
ScanFair == WF_scanVars(ScanRun)

ScanSpec == ScanInit /\ [][ScanNext]_scanVars /\ ScanFair

-----------------------------------------------------------------------------
\* Types; the pool has no more threads at work than it may.
ScanTypeOK ==
  /\ scanPhase \in {"idle", "start", "collect", "leave", "returned", "raised"}
  /\ \A i \in DOMAIN tasks :
       /\ tasks[i].state \in {"queued", "running", "done", "taken"}
       /\ tasks[i].tries < Attempts
       /\ tasks[i].result \in {"none", "header", "empty", "error"}
  /\ Cardinality({i \in DOMAIN tasks : Fetching(i)}) <= MaxWorkers
  /\ failures \subseteq ToSet(shards)

\* A scan that returns with an index and reports nothing has found every tensor
\* of the index, no other, each in the shard the index says and where the header
\* of that shard says, whatever the order the headers came in (verify_scan).
CleanScanIsTrue ==
  (scanPhase = "returned" /\ ~scanJob.table /\ report = {} /\ DOMAIN published.map # {}) =>
    /\ DOMAIN inventory = DOMAIN published.map
    /\ \A n \in DOMAIN inventory : inventory[n] = Address(published.map[n], n)

\* What is built in strict mode has every tensor of every shard (a scan reads
\* all shards or raises).  Not so a table of local files, whose missing shards
\* are passed over, nor a sampled one.
StrictIsWhole ==
  (/\ scanPhase = "returned" /\ scanJob.strict
   /\ ~(scanJob.table /\ scanJob.local) /\ ~(scanJob.table /\ scanJob.fast)) =>
    \A s \in ToSet(shards) : s \in DOMAIN Files /\ DOMAIN Files[s].tensors \subseteq DOMAIN inventory

\* A read that succeeds has read exactly the bytes of the elements asked for, by
\* the header of the shard and the width of the dtype, even where the lengths in
\* the header are wrong.
ReadBytesAreExact ==
  read # NoRead =>
    LET t == Files[read.shard].tensors[read.tensor]
        start == Files[read.shard].header + t.at
    IN  /\ read.from = start + read.first * t.width
        /\ read.to = start + (read.first + read.count) * t.width

\* A scan is true as far as it was compared, whole if it was to be, and what is
\* read afterwards is what was asked for.
ScansAreTrue == ScanTypeOK /\ CleanScanIsTrue /\ StrictIsWhole /\ ReadBytesAreExact

\* Every scan ends, however its shards and the network fail.
ScanEnds == scanPhase = "start" ~> scanPhase \in {"returned", "raised"}
=============================================================================
