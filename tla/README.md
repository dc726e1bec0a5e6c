# Verification of PocketTitan

PocketTitan compiles mixture-of-experts checkpoints that are larger than memory
into packages, and runs them by paging experts between a remote repository, the
disk, RAM and VRAM. These modules specify the parts of it whose correctness
depends on the order of things (what is written before what, what a crash, a
broken connection or another thread may do in between, what is still in a
bounded cache afterwards) and on addresses that several parts compute apart from
one another. TLC checks them on small instances, and tlapm checks proofs of the
main properties for instances of every size.

    tlc -workers 2 -config PageStore_crash.cfg MCPageStore.tla
    tlapm PackageWriterProofs.tla

Source paths below are relative to `src/pockettitan/`. `PROJECT.json` gives, for
every definition that models code, the lines it stands for.

## 1. Inventory

### The data path of a package

| part | state it keeps | operations | talks to |
|---|---|---|---|
| scan of a checkpoint (`audit/headers.py`, `metadata/tensor_index.py`) | headers by shard, an inventory or a table of addresses | discover, read headers in a pool, retry, compare with the index | remote ranges or local files |
| streaming reader (`streaming/reader.py`) | none | read a tensor, rows, an expert | the table; remote ranges |
| quantization pipeline (`pipeline/`, `manifest.py`) | `manifest.json`, shard files, the index; in memory a manifest, a staged buffer and a weight map | quantize, stage, flush, mark, finalize, resume | reader, tiler |
| tiler and budget (`scheduler/`) | none | estimate, split, quantize tiles, join | quantizer |
| planner and format (`package/plan.py`, `format.py`, `slicing.py`) | a plan: items with offsets and strides, a fingerprint | plan, align, slice | feeds the writer |
| package writer (`package/writer.py`, `integrity.py`) | `dense/blob.bin`, `experts/bank.bin`, `ple/table.bin`, `journal.json`, `checksums.json`, `manifest.json`; in memory a `BuildJournal` | `build`, one loop per region, `_save_journal`, `_write_metadata` | reads through the streaming reader; replaces files with `durable_replace` |
| pool of dense downloads (`_iter_dense_tensors`) | futures in flight, bytes reserved, a cancel event | submit, take, yield, shut down | threads run `read_tensor`; the consumer is `_write_dense` |
| range requests (`metadata/safetensors_header.py`, `streaming/reader.py`) | bytes received, attempt number | request, resume, back off, cancel | a remote server that may do anything |
| validation and decoding (`package/validator.py`, `decode.py`) | none | compare a package with its descriptors, decode samples | read what the writer left |

### The data path of inference

| part | state it keeps | operations | talks to |
|---|---|---|---|
| expert page store (`domainslice/store.py`) | page files, manifests, an sqlite index, partial files with journals; leases, reservations, a lock | `materialize`: look up, reserve, prepare, fetch, commit; `release` | pool of download workers; remote ranges |
| slots in memory (`domainslice/fast_cache.py`) | an arena of slots, LRU orders of RAM and VRAM, two device streams | `get_or_load`, `prefetch_batch`, evict | page store; the device |
| paged OLMoE model (`runtime/hf/olmoe_*.py`) | built layers, leased pages | build, run a token, route, lease and release | page store, slots |
| speculative decoding (`domainslice/speculative.py`, `generate.py`) | text, KV cache, drafted and accepted tokens | prefill, draft, verify, stream | paged model |
| expert residency (`runtime/expert/cache.py`, `manager.py`) | two partitions of a segmented LRU, a hot tier in VRAM, access counts | `get`, `put`, `fetch_expert` | expert bank of a package |
| prefetcher (`runtime/prefetch.py`) | futures by expert, a pool of threads | issue, await with a timeout | `put` of the same cache, without a lock |
| session adapter (`runtime/session.py`) | routing counts, pinned experts, frozen flag | record, step, pin, reset | `fetch_expert`, `get`, the hot tier |
| per-layer embeddings (`runtime/ple/`) | a row cache | hash a history, look up, decode | table of a package |
| package model (`runtime/hf/loader.py`, `weights.py`, `modules.py`) | a cache of decoded weights | load, read whole entries, rows, heads | the dense region of a package |
| engine (`runtime/engine.py`) | none of its own | wires residency, prefetch and session | |

### The rest

The cache simulators (`sim/`) replay routing traces and decide on them; they are
modelled. Components without a protocol are not: model adapters, precision
allocation, calibration, quantizers other than round-to-nearest, exporters,
kernels, the hypothesis experiments, profiling, the command line.
`PROJECT.json` lists each with its files and the reason.

### Where it is hard

* **Crashes between two durable steps.** The writer syncs, then records; the page
  store writes page, manifest and index row, and downloads into files whose tail
  may or may not be on the disk. The pipeline marks tensors completed before their
  shard is written.
* **Threads without a common lock.** The prefetcher's pool writes the segmented
  LRU while the token thread reads it. Two `materialize` calls share files; only
  some of their steps hold the store's lock. Headers arrive in the order in which
  threads finish.
* **A device behind the host.** Tables of slots change when work is enqueued, the
  slots when it is executed, on two streams.
* **Bounded resources that several parties fill.** The byte budget of the page
  store (pages and reservations), the slots of the two partitions, the staging
  memory of downloads, the VRAM tier (promotion and pinning), the memory cap of
  the tiler.
* **Addresses computed twice.** Planner, writer, validator and four readers each
  compute where a weight lies.
* **A server that breaks off.** Both downloaders resume in the middle.
* **Endings.** A failed slice, a raised exception, an interrupt, an eos in the
  middle of a draft: the rest has to be cancelled, cropped and given back, and the
  call must end.

What makes each part correct is stated in section 4 property by property, and
the hazards in `PROJECT.json` name the line where each one bites and the
properties that would catch it.

## 2. Plan

All of the plan is written, in this order:

| modules | what they are | abstract specification |
|---|---|---|
| `PageStore`, `PageStoreProofs` | the expert page store | `PageCache` |
| `PackageWriter`, `PackageWriterProofs` | package builds across failures and crashes | `ResumableBuild` |
| `ExpertRuntime`, `ExpertRuntimeProofs` | SLRU cache, manager, prefetcher, session | |
| `RangeFetch`, composed in `DenseDownloads`; `DenseDownloadsProofs` | a pool of range fetches that feeds the writer | |
| `FastCache`, extended by `PagedRunner`; in `InferenceProofs` | slots in memory, and the runner that uses them | |
| `SpeculativeDecode`, in `InferenceProofs` | text generation | `GreedyDecode` |
| `PackageLayout`, `PackagePlan`, composed in `Package`; `PackageProofs` | addresses, plan, write, validate, read | |
| `LayerPipeline`, `CheckpointScan`, `MatrixTiler`, `CacheSimulation`, side by side in `MCOffline`; `OfflineProofs` | the quantization pipeline and its manifest; tools that run before a package is served | |
| `DataTheorems` | what the proofs need of least numbers, ranks, sequences without repetition, folds, joined sequences, quotients, and sums over finite sets | |

What could come next: proofs that the bytes of a package stay what was packed from
the write to every read, and that the Oracle is optimal (section 5 says what they would need). No
module that is proved about declares a RECURSIVE operator.

Bounds follow one rule: the smallest instance in which each hazard of the
component happens at least once together with the next one: two actors, two
slices, a crash after a crash, one eviction that meets a reservation. Each run's
section names them.

## 3. How the modules correspond to the code

### PageStore

A thread in `CompositeWeightStore.materialize` is a record `th[a]` with a program
counter; each of its steps is one access that another thread can observe.

| code (`domainslice/store.py`) | action |
|---|---|
| `lookup`: absent, corrupt, hit | `LookupMiss`, `LookupCorrupt`, `LookupHit` |
| `_discard`, eviction inside `_ensure_capacity` | `DropPage`, `DropManifest`, `DropRow` |
| `remote.resolve` | `Resolve`, `ResolveFails` |
| `reserve`, `_ensure_capacity`, `cancel_reservation` | `Reserve`, `FitRoom`, `FitEvict`, `FitFails`, `CancelReservation` |
| `prepare_fragments` | `PrepareRead`, `PrepareSlice` per slice, `PrepareWrite` |
| `fetch_slice_to_file` in a worker | `FetchStat`, `FetchOpen`, `FetchBlock`, `FetchEnd`, `FetchAbort` |
| `record_fragment` in its `finally` | `FetchRecord` |
| first failed future, siblings cancelled | `CancelFetch`, `FetchFailed` |
| `commit` | `StartCommit`, `FitRoom`, `Assemble`, `WriteManifest`, `IndexPage`, `CleanUp` |
| `release` | `Release` |

The code's lock is `lock`; critical sections whose intermediate states are only
seen after a crash are still split at every durable step. Bytes are blocks:
block *i* of a correct slice is *i*, a hole or a lost block is 0; a checksum is
the content it was taken from, so equal checksums mean equal content. A partial
file is its data and how much of it was synced. A crash keeps any prefix at
least as long as the synced part; with `HardCrash` the length may survive
without the blocks. `Orphaned` models POSIX unlink: a worker with the file open
goes on writing into a file no directory names.

A page in `Shared` may be faulted in by two threads at once, which is what a
prefetch and a demand fault together do; for the other pages the callers keep to
one thread at a time. Section 6 says what happens without that discipline.

### PackageWriter

`durable` is what a slot holds after a crash, `cache` what a read returns now.
`Start` loads the journal or starts afresh, and refuses to resume another plan's;
`PickBatch`/`WriteItem`/`SyncBatch`/`RecordBatch` are the loops of `_write_dense`
(batch of one), `_write_experts` and `_write_ple`; `WriteChecksums`,
`WriteManifest` and `Finish` are the end of `build` (`_write_metadata`, the last
journal record). `Fail` is an exception anywhere, `Crash` loses or tears any
subset of the unsynced slots. Journal, checksums and manifest go through
`durable_replace`, whose completed rename is taken as durable (it syncs the file
and not its directory, see section 7).

### ExpertRuntime

Python's ordered dicts are sequences without repetition. Every access to one of
them that another thread can see is a step, because no lock protects them: `get`
has nine, `put` ten. An expert's payload is a function of its key and is left
out. `Raise` follows an exception to where it is caught: a task ends, a fetch
propagates, the session adapter goes on with the next expert. `hits` is a
history variable: distinct experts in order of their last hit. The pool's workers
take tasks in order of submission (`Take`), read and `put`. `Awaited` may happen
before the task is done, since the wait has a timeout.

### RangeFetch and DenseDownloads

One fetch per item goes through the loop over attempts of `stream_remote_bytes`:
`Attempt`, `Backoff`, `OpenFails`/`OpenRefused`/`OpenAnswered`, `Guard` and `Read`
per block; `Convert` is `_bytes_to_tensor`. The server is external: it may refuse,
answer a wrong range, or stop at any byte. Byte *k* of a range is written *k*, so
"exact" compares contents and not lengths. `late` counts network operations
begun after the cancel event.

`DenseDownloads` is the generator. `Submit`, `RefuseItem`, `Submitted` are
`submit_available`; `Take` and `Await` are `popleft` and `future.result()`;
`Resume` and `Abandon` are what the consumer does at the `yield`; `Interrupt` is
a KeyboardInterrupt while waiting; `SetCancel`, `CancelNext`, `Shutdown`, `Join`
are the `finally` clause. The path for a local reader or a single worker, which
reads one tensor after another, is not modelled.

### LayerPipeline

The disk (`disk` the manifest, `files`, `index`) is kept apart from what a process
holds (`mem`, `buffer`, `written`, `weightMap`). `Start` is `run` with the manifest
it finds or a new one; `Skip`, `Quantize`, `FlushFull`, `Stage`, `MarkCompleted`
are the loop over the address table with `ShardWriter.add_*` and `flush`;
`FinalFlush`, `KeepIndex`, `BeginRename`, `RenameShard` (one file at a time) and
`WriteIndex` are `finalize`. `TensorFails` and `SaveFails` are the exception
handler of the loop, which may itself fail to save; `Killed` is a kill anywhere,
or an exception in `finalize`, and tears the file being written. A shard is the
set of its tensors, a torn one holds none. The manifest is written to a
temporary file and renamed, the index is written in place.

### FastCache and PagedRunner

`FastCache` has the tables of `ExpertFastCache` and `ExpertVRAMArena` as
sequences in the order of Python's ordered dicts, and behind them the device:
`current` and `prefetch` are the queues of two streams, `pool` what the slots hold.
`Prefetch` is `prefetch_batch` for one expert, `VramHit`, `RamHit` and
`LoadFromPage` the three ways through `get_or_load`; each changes the tables at
once and enqueues copies, waits (`after`) and reads. `DeviceCurrent` and
`DevicePrefetch` execute the head of a queue. `misread` records that a kernel read
another expert's weights, `overtaken` that one stream took a slot the other
still had work on. `Route` takes place on an empty current stream, because the
routing comes to the host by `tolist`.

`PagedRunner` is a pass as a list of tasks `todo`: `BuildProgram` and
`ResidentProgram` are `_init_resident_backbone` and `run` with a resident backbone,
`StreamedProgram` is `run` without one. `Route` extends the list by what
`PagedOlmoeSparseMoeBlock.forward` does for the experts chosen, `Committed` is
`_apply_commit_routing`. `Lease`, `UsePage` and the action `GetFromStore` are a
`materialize`, a use and the `release` in its `finally`; `Fail` is an exception in
any of them, and drops the rest of the list.

### SpeculativeDecode and GreedyDecode

The weights are abstracted to `goal`, the text the full model wants: a run over
the KV cache of the prompt and the first *n* tokens of the goal, all computed by
the full model, wants token *n+1*; a run over any other cache may want anything
(`Wants`). An entry of the cache is a token and whether the full model computed
it. `Prefill`, `PlainStep`, `First`, `Round`, `Stream` are the loop of
`generate_olmoe_text`; `DraftStep`, `EndDraft` (crop, restore the gates),
`VerifyStep` and `Bonus` are `generate_step`; `Raise` is an exception in one of its
runs. `Round` crashes where the code reads the last token of an empty text.
`GreedyDecode` is one token of the goal after the other, up to eos or the limit.

### PackageLayout, PackagePlan and Package

A weight is a pair of tensor and index; a byte says what it was made from (codes
of these weights, one half of the scale of this group), so a byte read at a
wrong place, cut at a wrong bit or paired with a wrong scale shows. No values are
computed, except whether a group lies on one side of zero (`Insane`).
`PackageLayout` has the address arithmetic of `format.py`, what
`rtn.py` packs where, and `decode.py`. `PackagePlan` has `plan_package`: order of
every region, slicing of fused and separate experts, canary selection, PLE rows in
pages, totals and every refusal.

`Package` is the life of one package: `PlanPackage`, `StartBuild`, `WriteItem`,
`WriteMetadata`, `Finish`; then at most one damage from outside (`Corrupt`,
`Truncate`, `Delete`, `Undescribe`, `ReplaceConfig`); `Validate` in fast and full
mode, with its early returns and the look-ups that raise; and the readers:
`Get`, `ReadLinear`, `ReadEmbedding`, `LoadModel` (`runtime/hf`), `ReadExpert`
(`runtime/expert`), `ReadStep` (`runtime/ple`, with the hash in `WordBits`-bit
wrapping arithmetic). A checksum is the content it was computed from. The two
readers that do less than read are modelled as they are: `ReadExpert` decodes two
projections of a record, each found by its name or else by its place (`Taken`), and
`ReadEmbedding` zeroes the row of the padding token.

### CheckpointScan, MatrixTiler, CacheSimulation

`CheckpointScan`: `StartScan` and `StartTable` are the two callers; `Begin`,
`ReadsHeader`, `LocalMissing`, `Retry`, `GiveUp`, `TableRaises` a task of the pool,
`TakeHeader`, `TakeFailure`, `TakeException` and `LeavePool` the loop over completed
futures, `FinishScan`, `StrictRaises` and `FinishTable` what is returned. Then
`ReadTensor`, `ReadSlice` and `ReadExpert` are the streaming reader. What the
headers say is part of the job and may be wrong.

`MatrixTiler`: `Plan` is the tiling by address (before the tensor is read, by the
dtype of the checkpoint), `BeginMatrix` the tiling of what was read, by the dtype
it has in memory; `QuantizeTile`, `EndMatrix` and `EndAddress` run and join the
tiles. What a tile becomes is `PackageLayout`'s. These three modules and
`LayerPipeline` are independent; `MCOffline` lets a behaviour be one of theirs,
because each is small.

`CacheSimulation`: one action per policy and access (`AccessLRU`, the actions of
`AccessSLRU`, `AccessTinyLFU`, `AccessOracle`), `EndReplay` between capacities and
policies, `Decide` and `Report` for the gate. `OSPageCache` is an LRU.

## 4. The runs

The largest, `DenseDownloads_feed`, `ExpertRuntime_race` and `ExpertRuntime_session`,
have about a million states and take a minute or two on two cores. A property of a run is often the
conjunction of several that belong together; the parts are named below. The type
invariants are among them.

### PageStore

* `PageStore_crash` (36,990 states): one page of two slices of two blocks, two
  callers, two workers, two failed requests, two crashes, one decayed page. Two
  slices are needed for one to finish while the other fails, two blocks for a
  partial slice, a second crash for a crash during recovery.
  `PublishedPageIsExact`: what verifies is the source's bytes. `ProgressIsKept`: a
  journal record only grows until its page is published. `ImplementsPageCache`:
  pages appear whole, are withdrawn only while no one uses them, and survive
  restarts.
* `PageStore_evict` (244,750 states): three pages of which one fills the cache of
  two units alone, two callers, two slices, a failed request, a decayed page.
  `Accounting`: pages and reservations together fit (`BudgetHonoured`), and room is
  promised before payload is requested and not lost while it comes in
  (`DownloadHoldsReservation`). `HeldPageStays`: no eviction takes a page in use.
  `EveryCallReturns`, under fairness. No crashes here; see section 6.

Fairness: weak fairness of each thread's own steps (the scheduler runs threads,
`Work` includes those of its workers) and of its release (callers release in a
`finally`). Nothing is assumed about the environment: failed requests, crashes and
decay are bounded by `MaxFaults`, `MaxCrashes`, `MaxRots` and never forced. In both
runs `Shared` is empty and `HardCrash` FALSE; section 6 says what happens otherwise.

### PackageWriter

* `PackageWriter_resume` (3,299 states): two plans over one directory, every build
  resumed; two dense items, three experts in batches of two (a full and a short
  batch), one PLE shard; two failures and three crashes. `JournalIsTrue`: recorded
  items are on the disk (`JournaledIsDurable`), a finished package is whole
  (`FinishedIsWhole`). `OneBatchAtRisk`; the refinement `ImplementsResumableBuild`,
  which also says that committed work is not repeated; and `EventuallyFinished`
  under weak fairness of `Progress`: whoever runs builds starts them again, as the
  resume option is meant for; the bounds make failures stop.

### ExpertRuntime

* `ExpertRuntime_session` (715,596 states): no pool, four experts over three slots
  (one probationary, two protected: promotion, demotion and eviction all happen,
  and an expert is left over), VRAM of one, pinning of one, warm-up of two tokens,
  seven calls. `PartitionsSound`: at every step each partition keeps to its slots
  (`ResidencyBounded`) and no expert is in both (`OnePartition`). `WarmStays`: as
  many of the experts hit last as there are protected slots are there.
  `FetchSucceeds`; `PinnedAreProtected`.
* `ExpertRuntime_race` (1,097,978 states, up to the symmetry of experts): one worker
  and one task race with nine calls over five experts and two slots, one in each
  partition. `PrefetchSound`: races cost the probationary partition at most three
  slots per task begun and the protected one two (`OvershootBounded`): a task may put
  back the expert it demoted, store its own again after the token thread demoted it,
  and take from the token thread the expert it is refreshing. Five experts are enough
  to exceed either bound, so it is the code and not the number of experts that keeps
  to them. The protected partition does reach its bound of three; the probationary
  one reaches three of the four it may have. The mutant, which sees a partition full
  only at exactly its number of slots, is harmless until a race has overfilled one.
  Section 5 has the bound for all constants.
* `ExpertRuntime_prefetch` (211,800 states): one worker and two tasks race with four
  calls over three experts. `MainNeverWaits`: the token thread
  leaves every call under fairness of its own steps alone; nothing is asked of the
  pool, which may hang forever. This is the invariant `prefetch.py:16` announces, as
  far as it can be said without time: no wait is unbounded.

### DenseDownloads

* `DenseDownloads_feed` (1,053,451 states): four tensors of 1, 1, 1 and 2 bytes and
  three workers. A download reserves twice its size; under the limit of 6 bytes the
  first three fill the pool and the limit, and the fourth has to wait for two of
  them; under the limit of 3 only one fits at a time and the fourth never does, so
  that the refusal meets a download in flight. Blocks of up to two bytes; three
  attempts, so that a resumed attempt can break off again; interrupts and a consumer
  that fails at every point. `FeedIsRight`: right bytes in plan order
  (`FeedIsExact`), all of them unless an exception ends the iteration
  (`FeedIsWhole`). `StagingSound`: memory stays within the limit (`StagingBounded`).
  `EndIsClean`: a cancelled download stops at its next check (`CancelIsPrompt`),
  none outlives the generator (`NothingRunsAfterEnd`). `EventuallyEnds`. The
  generator ends, hence no deadlock check. Fairness: threads run, network
  operations end (each has a timeout), the consumer finishes its tensor or fails.

`StagingBounded` counts what the futures refer to. Between the release of a
reservation and the next `popleft` the generator's local `future` still refers to
the last tensor; in that window memory may exceed the limit by that tensor, and
the property says so. Without this allowance TLC finds it violated.

### PagedRunner

* `PagedRunner_pass` (164,127 states): two layers of two experts, so that all four
  compete; VRAM for none (the path on the CPU) or two, RAM for two; at most two
  operations waiting in a stream; top-k of 2, and 1 in a draft; any number of
  passes, one failing page. With two slots the experts of one layer fit and those of
  the next evict them. `TiersSound`: both tiers within their capacity
  (`TiersAreBounded`), and the slots divided without remainder or overlap among
  entries and the stack (`SlotsAreDivided`). `ReadsAreRight`: a kernel reads wrong
  weights only after one stream took a slot the other still had work on
  (`overtaken`; this does happen, section 6). `PassesAreWhole`: no lease outlives its
  pass (`NoLeaseOutlivesPass`), logits come from every layer (`EveryLayerRuns`), no
  expert is executed twice (`ExecutesDistinct`), and a pass ends. Fairness: the host's steps and each
  stream's; a stream executes what is enqueued, that is what a device does.

### SpeculativeDecode

* `SpeculativeDecode_greedy` (107,154 states): every goal over two words and eos of
  length 6, the longest a limit of 3 and drafts of up to two can look at (`Horizon`;
  the module's assumption says how it follows), limits of 0, 1 and 3 so that a round
  ends before, at and past the limit, drafts of one or two. `ImplementsGreedy`: the
  refinement of `GreedyDecode`. `CacheIsExact`: at the head of a round the KV cache is that
  of the text without its last token, computed by the full model. `TextIsGoal`:
  what is streamed is a prefix of the goal (`StreamsGoal`), all of it when the
  generation returns (`ReturnsAll`), and the generation ends; weak fairness of the
  program's own steps. The crash on an empty text is part of what `ReturnsAll`
  says, and deadlock is checked against `DecodeStopped`.

### Package

* `Package_life` (14,522 states): twenty-two orders over pages of 16 bytes: fused
  experts and separate ones (gate_up and down; gate, up and down; a single matrix),
  full and canary profiles, with and without vision, rows narrower and wider than a
  page, weights wider than fp16 and so kept as fp16, heads that leave the table at
  either end, every refusal of the planner, and the orders whose build fails: fp16
  experts, fp16 rows, rows that end within a byte, codes wider than a byte. Five
  histories, hashed in words of 5 bits so that products wrap to negative numbers.
  `PlanIsSound`: no two items share a byte, none leaves its region and rows do not
  cross pages (`ItemsApart`), packaged and dropped weights are together the source if
  the routing covers every expert and text is among the features (`NothingVanishes`).
  `ReadsAndCaches`: every reader returns the checkpoint's weights, with the padding
  token's row zeroed, or raises; an expert is returned whole if it is a pair of
  gate_up and down, and otherwise what is returned are projections of that expert and
  no other's bytes (`ReadsAreExact`; section 6 says what is lost); the caches hold what
  a read would return (`CachesAreExact`). `AcceptedIsRight`: an accepted package
  decodes to the checkpoint, every projection of its experts included
  (`AcceptedIsExact`), one accepted in full mode is byte for byte as
  written in what a manifest describes (`FullyAcceptedIsAsWritten`), and every hash
  of every history has a row of its head (`AcceptedRowsExist`).
  `FreshIsAccepted`: an undamaged package is accepted. `LoadedModelIsWhole`: a
  loaded model has every parameter. A package's life ends, hence no deadlock check.
* `Package_offcentre`: finding, section 6. The order of `Package_life` whose rows end
  within a byte has a shard long enough for the writer to refuse it; section 6 says what
  becomes of shorter ones.

### The offline tools

* `Offline_tools` (129,481 states). *Scan:* seven repositories (right ones, an index
  that contradicts the headers, duplicate names, missing, unreadable and damaged
  shards) scanned or tabulated, locally or remotely, strict or not, sampled or
  whole, by two threads. `ScansAreTrue`: a scan without findings is true
  (`CleanScanIsTrue`), one that returns in strict mode is whole (`StrictIsWhole`;
  not for a table of local or sampled shards), and a read that succeeds is of the
  bytes of the elements asked for, wrong lengths in the header notwithstanding
  (`ReadBytesAreExact`). `ScanEnds`: every scan ends, under fairness of its steps
  (requests have timeouts). *Tiler:* ten shapes, five caps, two dtypes, two widths, three
  groupings. `TiledIsWhole`: the joined tiles are what quantizing the whole would
  give. `QuantizedFits`: no tile exceeds the cap by the estimate; not below the
  floor of the budget, and not for convolutions. *Cache simulation:* all traces of
  seven accesses over up to four keys, and of five of two interleaved prompts; one to
  three slots. `MetricsAccount`: every miss is a key still held or counted as evicted.
  `OracleBounds`: no policy that keeps what it misses beats the Oracle on a trace in
  token order (`OracleIsOptimal`), and the gate decides against a cache only if no
  such policy reaches its threshold (`GateIsJustified`). *Pipeline* (1,837 of the
  states): four tensors, of which the first two share a shard, the third fills one and
  the fourth is larger than the limit; two faults, so that a resumed run can be killed
  again; any number of runs. `IndexSound`: what a process flushed is where its weight
  map says through every rename (`FlushedIsKept`), an index that parses is true after
  any faults (`IndexIsTrue`), and only a tensor too large by itself exceeds the limit
  of a shard (`ShardIsBounded`). `FreshRunIsWhole`: a job without faults indexes every
  tensor. `JobsEndForGood`: completed tensors stay completed, a rerun of an indexed
  job touches neither shards nor index, and every process ends. Fairness: a process
  that runs goes on (`Progress`); no one has to start one. Scan, tiler and simulation
  end, hence no deadlock check.

Every property of a passing run has a mutant: a plausible bug in one definition
(a dropped guard, a skipped sync, a lease not taken, a crop one entry short) under
which TLC finds the property violated. The mutated definitions stand before the
ones they mutate.

## 5. What is proved

For every value of the constants the modules' assumptions allow. A theorem that
assumes more says so here, and section 6 says what goes wrong without it.

Page store. All theorems assume `Shared = {}`: callers do not fault in one page
twice at once.

* `PageStoreProofs!StoreIsSound`, `TypesAndReservations`, `HoldersKeepTheirPages`: the
  types, `DownloadHoldsReservation` and `HeldPageStays`, through crashes and decay.
  `StoreInv` says that the lock is held exactly at the steps that need it
  (`LockInv`), no page is faulted in twice at once (`Alone`), what a worker found and
  where it stands in its open file is still true of the file (`WorkInv`), a victim
  has no lease while it is being removed (`VictimInv`), leases count the holders
  (`LeaseInv`), a page that is held or being indexed is published with its manifest
  (`HeldInv`), and who prepares or fetches holds a reservation (`ReserveInv`).
  `HeldPageStays` needs `LockInv`, `VictimInv`, `HeldInv` and `LeaseInv` together: an
  eviction spans three steps, and it is another thread that takes the lease.
* `PublishedPagesAreExact`, assuming also `~HardCrash`: every partial file, journal
  record and copy of a record that a scan works on is the source's bytes from the
  first on (`FilesExact`), and a published page is whole or visibly rotten
  (`PagesExact`). The source being a sequence in order, "exact" is "block *i* is *i*".
* `RecordsOnlyGrow`, assuming also `~HardCrash`: `ProgressIsKept`. A record covers
  synced bytes only, so no crash takes back what it says; whatever of a file is not
  synced yet is still being written (`ProgressInv`).
* `StoreImplementsCache`, assuming also `~HardCrash`: each step is one of `PageCache`
  under the mapping, or a stutter. A page becomes available when its manifest is
  written, and goes only when nobody uses it.
* `BooksAreInOrder`, assuming `MaxCrashes = 0`: `Accounting`. A published page has a row
  or its committer is about to write one (`RowInv`), a victim's file goes before its
  row (`GoneInv`), and who commits has made room for it (`RoomInv`). Room is a sum
  over pages, see `DataTheorems`. A crash between manifest and row breaks `RowInv`.

Package writer.

* `PackageWriterProofs!TypeCorrect`: `TypeOK` is inductive.
* `PackageWriterProofs!JournalSafe`, `FinishedPackageIsWhole`, and together
  `JournalTellsTheTruth`: under `SafeStarts` (every build resumes, or all builds are
  of one plan), `JournaledIsDurable` and `FinishedIsWhole`. Neither is inductive: a
  write could hit a recorded slot, a record could name an unsynced one. `DurableInv`
  adds that recorded slots have no unsynced write (`JournalHolds`), that the running
  build's own journal is as true as the one on disk (`MemHolds`), that written
  items of the batch are in the file, and synced before they are recorded
  (`BatchHolds`), and that writer and journal are of one plan (`OnePlanAtWork`).
  `FinishedInv` adds that a finished journal records every item beside its plan's
  descriptors (`FinishedHolds`), and that the descriptors are the plan's as soon as
  each is written (`MetadataHolds`): a build may rewrite them while the journal on
  disk already says finished. `SafeStarts` is needed, see section 6.
* `PackageWriterProofs!WorkIsNotRepeated`, `ResumedBuildsImplement`: when every build
  resumes, `CommittedIsNotRepeated` and the refinement of `ResumableBuild`. The
  running build's journal is the one on disk or there is none yet
  (`SameJournal`); only `RecordBatch` commits and only `Finish` publishes. A build
  without resume takes back what was committed, so the assumption is needed.
* `PackageWriterProofs!CrashCostsOneBatch`: when every build resumes, `OneBatchAtRisk`.
  `RiskInv`: a slot that holds anything, before or after a crash, is of a recorded
  item or of the batch that follows what is recorded (`Contained`), whichever process
  wrote it. The next process picks the same batch again, because the pick depends on
  the journal alone.

Expert residency.

* `ExpertRuntimeProofs!ResidencyIsBounded`, `ExpertsAreInOnePartition`, together
  `PartitionsAreSound`: assuming `Workers = {}`. Along the way: how an ordered dict
  changes under insertion, removal and refresh. `SlotsInv` adds where the current
  key is at each program counter (`KeyPlace`: not in any partition between its
  removal and insertion) and where there is room (`Room`). With workers both fail,
  see section 6.
* `ExpertRuntimeProofs!FetchesSucceed`: assuming also `ProbationaryCapacity < Capacity`,
  that is, a protected slot (a cache of one expert has none and pops it empty).
* `ExpertRuntimeProofs!HitExpertsStayWarm`: `WarmStays`, assuming `Workers = {}`.
  `WarmInv`: protected is the end of the list of last hits, in its order, and either
  all of it or full, but for the slot a demotion makes just before a promotion.
* `ExpertRuntimeProofs!PinnedExpertsAreSafe`: `PinnedAreProtected`, assuming `Workers = {}`
  and a protected slot. `PinInv`: the experts the first loop is done with
  are in VRAM (`InVram`); an expert the second loop has looked up is as near to the
  recent end of protected as there were look-ups since, and there are no more of these than
  protected slots, so no later look-up demotes it (`InRam`). It needs that nothing
  raises on the way, which `FetchesSucceed` rests on too.
* `ExpertRuntimeProofs!PrefetchIsSound`: `PrefetchSound`, with any number of workers and
  no further assumption. The bound of each partition is an account (`PoolAccounts`):
  a task brings a budget of three cold and two warm insertions; each worker's place
  in its code says which it may still make on what it has read, which may be true no
  longer; what a partition holds and what is still due never exceed its share and
  the budget.

Dense downloads.

* `DenseDownloadsProofs!FeedExact`, `FeedWhole`, together `TheFeedIsRight`: what is
  received is a prefix of the range, and the response delivers next the byte after
  it (`ExactFetch`); what was fed, is taken and is in flight is the plan up to
  `next`, in order (`OrderInv`); an iteration that has not failed closes only with
  nothing in flight and nothing left to submit (`WholeInv`). The point is that an
  item that does not fit leaves something in flight.
* `DenseDownloadsProofs!PoolIsEmptyAtEnd`, `PromptCancel`, together `TheEndIsClean`:
  `StopInv`, with what is queued or running at each step of the `finally` clause; a
  fetch with a late operation is past its last one (`PromptFetch`).
* `DenseDownloadsProofs!TypeCorrect`, `StagingStaysInLimit`, `WidenedStagingIsBounded`:
  the types, with `reserved` within the limit; `StagingSound` assuming `Widened = {}`;
  and without that assumption memory within twice the limit, which is as much as
  FP8 tensors can exceed it. `StagingInv`: `reserved` is the sum of the reservations
  of the items submitted and not released (`Reserved`), and each fetch stays within
  its range and its attempts (`Bounded`).

Quantization pipeline.

* `OfflineProofs!IndexIsSound`, `FreshRunsAreWhole`, `CompletedIsForGood`,
  `RerunsChangeNothing`: `IndexSound`, `FreshRunIsWhole`, and of `JobsEndForGood` all
  but that every run ends, through any kills and exceptions. `Inv` says how the saved manifest counts and what a process holds of it
  (`ManifestInv`), that the loop leaves only completed tensors behind
  (`ProcessInv`), where each flushed tensor is while shards have their first or
  their final names (`ShardInv`), that only a single tensor may exceed the limit
  (`SizeInv`), that an index exists only of a completed job, so that no later
  process flushes or renames (`IndexInv`), and that until a fault everything
  completed is staged or flushed (`FreshInv`).

The offline tools.

* `OfflineProofs!ScansStayTrue`: `ScansAreTrue`, for every set of files and index. A
  header may declare any shapes, offsets, widths and even negative lengths; only
  that they are numbers is assumed. `ScanInv`: a task that is done has a result, and
  a header only of a shard that is there (`ResultsInv`); what the caller has taken
  is in the inventory, among the failures, or ends the call (`TakenInv`); every
  address is that of a tensor some header declares (`InventoryInv`). That a clean
  scan is true follows at its end only, when all tasks are taken and the report is
  computed; that a read is exact rests on multiplication being associative, as the
  stride is a product of dimensions and the offset another.
* `OfflineProofs!TensorsStayWhole`, `TilesStayWithinCap`: `TiledIsWhole` and
  `QuantizedFits`, for every shape without a zero dimension, one to eight bits, any
  group, dtype, cap and workspace. `TileInv` (`Working`, `PeakFits`) says that what is
  done of a tensor, joined, is the one result of its first rows, that what is left
  is the other rows cut into runs, and that the place between them is at a whole
  byte of codes (`WholeBytes`) unless nothing is left. The lemma behind it: the codes
  and numbers of some rows followed by those of the rows below them are those of
  all, if the first rows end at a whole byte; and they do, because a tile is a
  multiple of 64 rows, which is assumed of `RowUnit` as a multiple of 8. That a tile
  fits rests on the estimate being linear in rows but for its rounding, and on an
  estimate of a vector as one row being no more than that of its elements as rows.
* `OfflineProofs!ReplaysAddUp`: `MetricsAccount`, for every trace and sweep. `SimInv`: each
  miss is held or evicted (`CountersInv`), both tiers hold distinct keys apart from
  one another and within their slots (`CachesInv`), a frequency is at most a window
  above the accesses since it was halved (`FreqsInv`). Each policy's step was a step
  of one tier that hits, fills or replaces (`OneTier`), but for the promotion of SLRU.

Paged model.

* `InferenceProofs!TiersAreSound`, `TheReadsAreRight`: `TiersSound` and
  `ReadsAreRight`, for streams of any length. `CacheInv`: the tables of cache and
  arena agree, each slot either free or of one expert in VRAM; and as long as no
  stream has overtaken the other (`InStep`), the copies still to be made into a slot
  wait in one stream, the last of them leaves the expert its entry names (`Settles`),
  and each read in the queue comes after the copy it needs, or after a wait for it,
  with no copy into its slot between (`ReadsFind`). `ReadsAreRight` says that a
  misread needs an overtaking; that is not inductive without the queues.
* `InferenceProofs!PassesAreWholeSoFar`: the parts of `PassesAreWhole` that are not
  about the end of a pass. `RunnerInv`: what is left of a pass is work on experts and
  then the end of the streamed program, of the program that builds a backbone, or of
  the loop over resident layers; the length of that end is how many layers were
  built or run (`Progress`); a lease is held only while the next task needs its page.
  That the experts executed differ rests on the ranking by score being a
  permutation, and on commit routing replacing an expert by one not chosen.

Generation.

* `InferenceProofs!TheCacheIsExact`, `TheTextIsTheGoal`,
  `SpeculationIsGreedy`: for any draft model, length of drafts, prompt and limit, the
  cache at the head of a round is the text's, what is streamed is a prefix of the
  goal, and generation implements `GreedyDecode`. None is inductive: what a
  verification may want depends on the cache, the cache on what was accepted.
  `DecodeInv` says for each phase what the cache is: exact up to the text's last
  token at the head of a round; exact below the draft's entries while it runs
  (`AtDraft`), which is what makes `crop(-len(draft_tokens))` right
  (`CropGivesExact`); exact up to the accepted tokens while they are verified
  (`AtVerify`); ahead of the stream by the tokens not yet streamed (`AtStream`). The
  central lemma `RunGoal` says that a run of the full model for the goal's next
  token keeps the cache exact and wants the token after it.

Packages.

* `PackageProofs!PlansAreSound`: `PlanIsSound`, for every order that the planner does not
  refuse, any page size and any alignment. What is assumed of an order is `IsOrder`,
  which TLC evaluates on the run's orders: tensors have distinct names and no empty
  dimension; no two projections of an expert, and no two shards of the table, have
  the same place; table shards are matrices; experts and the table are text
  (`DEFAULT_RULES` gives them no other capability). The invariant `PlanInv` is only
  that a plan is the plan of its order; the work is in what `Plan` computes.
  *Addresses* (`AddressesApart`): the offset of a dense entry is a fold over those
  before it that never decreases past an entry's end (`DensePlaces`), so no entry
  reaches into a later one (`OneAfterTheOther`); record slots are distinct for the
  full bank, where layer and expert are a quotient and a remainder, and for a
  canary's, where they are places in the bank (`RecordIndexFacts`); a record's
  sections end before its stride (`RecordFacts`); and rows, numbered by page and
  place in the page, lie apart and within it (`RowsInPages`, `RowsApart`).
  *Totals* (`TotalsAddUp`): the tensors fall into dense ones, experts, table, hash
  index and what is dropped, each once; what the experts of a layer take is what its
  bank has, whether the bank is fused, as a shape is its first dimension times the
  rest, or not, as every tensor has one owner (`LayerParams`); and shards correspond
  one to one to the tensors of the table (`PleParams`).

* `PackageProofs!QuantizedIsUnpacked`: for every shape and every precision a quantizer
  packs (`Packable`: up to eight bits, or from sixteen on, when the weights are stored
  as fp16), the record has the length the plan reserved (`LengthReserved`),
  `decode_record` gives back every weight that was packed, and `decode_rows` every
  range of rows. A record is three sections, each as long as
  the layout says (`Sections`); the k-th weight is in the byte and the place the reader
  looks (`CodePlace`, `CodeUnpacked`), both halves of the number of its group lie where
  the reader takes them from, and its group is the one the number was computed of
  (`GroupPlace`, `NumberUnpacked`). `WeightUnpacked` states this of any view of a
  record (`IsView`), and the three ways to decode rows, by the strides of one row, of
  weights stored as they are, and out of the whole matrix where rows begin within a
  byte, are such views (`StoredRowView`, `PackedRowView`, `StretchOfStretch`). The
  weights are positions: what rounding does to a value is not modelled.

Data. `DataTheorems` has what these proofs need of sums over finite sets (`SumTakeOut`,
`SumPutIn`, `SumIsMonotone`, `SumIsBounded`, `SumOfChanged`, and of sums by parts, scaled
or renamed: `SumByParts`, `SumScaled`, `SumRenamed`), of sequences without
repetition, of folds (`FoldBase`, `FoldStep`), of sequences joined to one
(`FlattenedAppend`), and of ranks: a strict order gives the elements of a finite set
the ranks from 0 (`RanksAreAll`), which is how the modules sort. `Sum` and the folds
are recursive functions of the library; their laws are proved by a minimal
counterexample or by the uniqueness of the table they compute, as the induction
theorems of the library take an operator, which the provers cannot instantiate.
The provers know nothing of `SelectSeq`; the modules proved about remove an element
by its position (`RemoveAt`).

Only model-checked:

* liveness, which rests on fairness and ENABLED, out of the prover's reach:
  `EveryCallReturns`, `EventuallyFinished`, `MainNeverWaits`, `EventuallyEnds`, and that
  jobs, passes and replays end;
* of packages `ReadsAndCaches`, `AcceptedIsRight`, `FreshIsAccepted` and
  `LoadedModelIsWhole`: proved are the plan and the codec, and not that every byte of a
  file stays as it was packed while others are written, and that caches, experts and
  rows put decoded records together in order. For rows it holds only
  if they end with a byte or the build fails (section 6). The exclusive or of the hash is a constant of
  `Package`, given its value by the run;
* of the cache simulators `OracleBounds`: that no policy beats the Oracle compares two
  replays of one trace, by an exchange argument along the trace.

## 6. Where the code and its claims differ

One is a run that ends in a counterexample:

* `Package_offcentre`: the full validation refuses a package whose zero points lie
  below zero or above the code range (`package/validator.py:529`), while the
  quantizer writes such zero points for every group on one side of zero and
  `rtn.py:73-74` says they must not be clamped.

The others were seen in the same models with other constants, or while modelling,
and the runs keep away from them:

* Page store. With `HardCrash = TRUE` `PublishedPageIsExact` fails: `prepare_fragments`
  trusts a full-size partial file without a journal record and records the checksum
  of what it finds (`store.py:507-518`), although `store.py:294-296` says unjournaled
  suffix bytes are discarded. With `Shared` pages it fails as well: the second call
  truncates the partial file under the first (`store.py:262-264`), and `commit` takes
  the checksum of the result as the page's own; the two share one reservation, so
  `DownloadHoldsReservation` fails when one is cancelled; and the second commit
  replaces a page under a handle, so `HeldPageStays` fails. After a crash between
  manifest and index row, `lookup` re-indexes the page without asking for room
  (`PageStore_evict` with `MaxCrashes = 1`: `BudgetHonoured` fails).
* Package writer. A build without resume leaves the old journal in place until its
  first batch is recorded (`writer.py:276-305`); after a crash, a resume of the old
  plan skips slots the new plan has overwritten (`Starts` with such a build:
  `JournaledIsDurable` fails).
* Expert residency. With a worker two `put`s both see room and both insert
  (`cache.py:91-96`): `ResidencyBounded` fails, the extra expert is never removed,
  and every later `put` of a new expert fails the assertion at `cache.py:99`. A
  cache of one slot has no protected partition, and promotion pops it empty
  (`Capacity = 1`: `FetchSucceeds` fails). Pinning stores into the VRAM tier without
  the test promotion makes (`session.py:60`, `manager.py:53`), and pinning in RAM
  only looks experts up, so those that were evicted are not read again
  (`session.py:71`); `PinnedAreProtected` is stated for those still there.
* Dense downloads. FP8 tensors (`Widened`) take four times their source bytes while
  they are converted; the reservation is twice (`writer.py:397`, `reader.py:242`).
* Pipeline. Tensors are completed before their shard is flushed, and a resumed run
  numbers shards from one and indexes its own tensors only (`layer_pipeline.py:279`):
  after a fault the finished job's index need not be whole. The manifest found is
  resumed without comparing model or quantization (`layer_pipeline.py:193`).
* Paged model. An eviction does not wait for the other stream, so a
  slot is written while a kernel still has to read it (`fast_cache.py:188`).
  `_resident_layers` is set before its layers are built (`olmoe_model.py:192`): a
  runner used again after a failure there has fewer layers.
* Generation. In speculative mode a limit of 0 still yields a token, an eos as first
  token is an IndexError, and the temperature matters for the first token only.
* Packages. The quantizer packs the codes of a table shard one after the other, the
  writer cuts them into rows of equal bytes and compares only the length of the
  section (`writer.py:778-779`), although each row is to decode "without touching
  anything else" (`writer.py:756-758`). Two or three rows of three two-bit codes pass
  (`Order(Core \o Table(3, 2), 0, Q4, "full", GoodHeads)` violates
  `ReadsAreExact` and `AcceptedIsExact`): rows after the first begin within a byte and
  decode to weights of others. The validator, which knows no weights, accepts them.
  `validate` raises instead of reporting on a manifest without a region, or
  a shortened or missing file in full mode. Codec ids depend on the method only, so
  the dictionary keeps the bits of the last. `resolve_group_size` may enlarge a
  record, though its comment says never (7 columns, group 4, 4 bits: 18 bytes for 8).
  The row layout takes the width of one table tensor and no other is compared with
  it (`plan.py:268-273`). Codes of 9 to 15 bits are planned and divide by zero when they
  are packed (`rtn.py:172`). 16-bit experts or rows are
  planned, and the build fails. The planner accepts any projections of an expert
  (`slicing.py:28`) and the validator any record, but `decode_expert_payload` decodes
  two (`manager.py:117-135`), `gate_up_proj` or else the first and `down_proj` or else the
  second: of gate, up and down it takes gate for gate_up and drops up, and a record of a
  single projection is an IndexError. Rows of the padding token are zeroed when they
  are read (`weights.py:253-254`), where `nn.Embedding` returns what the checkpoint has;
  the two differ for a checkpoint whose padding row is not zero. Routed
  experts without routing in the config, and experts whose number lies beyond it, are neither packaged nor counted as dropped;
  if text is not among the features, experts and table are counted as dropped and
  packaged all the same (`plan.py:454`). `build_ple_index` checks the last
  head's range only. `PleRowStore` of capacity 0 raises.
* Scan. A strict table passes over missing local shards; a lenient one loses remote
  ones silently; a remote shard smaller than the probe of 128 KiB cannot be read;
  with duplicate names and no index the inventory depends on the order of threads.
* Tiler. Convolutions are estimated by their first two dimensions; a vector that needs
  tiling raises; the floor of 256 MB exceeds smaller caps.
* Cache simulation. TinyLFU, which may bypass the cache, can beat the Oracle, called
  an upper bound at `sim/cache.py:187`; so can LRU where prompts are interleaved,
  because the Oracle's future is in another order. SLRU of capacity 1 has two slots.

## 7. What is not modelled

* Tensor arithmetic, other quantizers, kernels, calibration, precision allocation,
  model adapters, exporters, hypothesis experiments, reports, the command line:
  computation or wiring without a protocol.
* The JSON of headers and configurations, URL resolution, statistics, logging and disk
  preflight.
* PLE index tensors and runtime assets in the build across crashes; closing the bank
  or the pool of the prefetcher while tasks run.
* Of validation: vocabulary, codec registry, versions and provenance, sidecar files
  that do not parse.
* Of the paged model: the path for several tokens at once and the reference experts;
  the allocator's reuse of memory without an arena. The ring buffer: its slots are
  allocated and counted, but the transfer does not use them.
* The journal, checksums and manifest as directory entries: a completed rename is
  taken as durable.
* Time: timeouts and back-offs may end at any moment, which includes the right one.
