---------------------------- MODULE PackageWriter ----------------------------
(***************************************************************************)
(* PackageWriter.build of package/writer.py: the dense, expert and PLE     *)
(* regions are written in place in batches; a batch is fsynced and then    *)
(* recorded in a journal that is replaced atomically; the descriptors come *)
(* last.  A build may fail or crash anywhere and be started again, resumed *)
(* or not, with the same plan or another one.                              *)
(*                                                                         *)
(* Content <<P, i>> of slot i is what plan P puts there (encoding is       *)
(* deterministic); a checksum is the content it was computed from.  The    *)
(* slots of two plans overlap: writing slot i for one plan destroys what   *)
(* the other had there.                                                    *)
(***************************************************************************)
EXTENDS Integers, FiniteSets, FiniteSetsExt

CONSTANTS
  Plans,        \* build plans; two plans have different fingerprints
  Items,        \* work items, numbered in plan order
  Region,       \* Region[i]: file item i belongs to
  BatchSize,    \* BatchSize[r]: items per journal record in region r
  Starts,       \* <<plan, resume>> of the builds that may be started
  None, Empty, Torn,
  MaxFails,     \* bound: builds that end with an exception
  MaxCrashes    \* bound: crashes

Regions == {"dense", "experts", "ple"}

ASSUME PackageWriterAssumption ==
  /\ Items \subseteq Nat /\ IsFiniteSet(Items)
  /\ Region \in [Items -> Regions]
  /\ BatchSize \in [Regions -> Nat \ {0}]
  /\ Starts \subseteq Plans \X BOOLEAN
  /\ MaxFails \in Nat /\ MaxCrashes \in Nat
  /\ None \notin [plan : Plans, done : SUBSET Items, finished : BOOLEAN]
  /\ Torn \notin Plans \X Items /\ Empty \notin Plans \X Items

\* The two ways to use an output directory that keep its journal honest: every
\* build resumes, or every build is of the same plan.
SafeStarts ==
  \/ \A s \in Starts : s[2]
  \/ \A s, t \in Starts : s[1] = t[1]

VARIABLES
  \* -- on disk --
  durable,    \* durable[i]: content of slot i that survives a crash
  cache,      \* cache[i]: content a read of slot i returns now
  journal,    \* journal.json: [plan, done, finished] or None
  checksums,  \* integrity checksums.json: [plan, done] or None
  manifest,   \* manifest.json: [plan, content] with the regions' sha256, or None
  \* -- in the building process --
  pc,         \* where build is
  mem,        \* its journal
  batch,      \* the batch being written
  todo,       \* the part of it not yet written
  \* -- bounds --
  fails, crashes

files == <<durable, cache, journal, checksums, manifest>>
build == <<pc, mem, batch, todo>>
vars  == <<files, build, fails, crashes>>

Contents == {Empty, Torn} \union (Plans \X Items)
Journals == [plan : Plans, done : SUBSET Items, finished : BOOLEAN]

\* No build is running.
Idle == pc' = "off" /\ mem' = None /\ batch' = {} /\ todo' = {}

Fresh(P) == [plan |-> P, done |-> {}, finished |-> FALSE]

Init ==
  /\ durable = [i \in Items |-> Empty] /\ cache = [i \in Items |-> Empty]
  /\ journal = None /\ checksums = None /\ manifest = None
  /\ pc = "off" /\ mem = None /\ batch = {} /\ todo = {}
  /\ fails = 0 /\ crashes = 0

-----------------------------------------------------------------------------
(* build: the journal is loaded or started afresh.  A resumed build goes   *)
(* on from the journal on disk; one for another plan refuses it, and ends  *)
(* without having changed anything.                                        *)

Loaded(P, resume) == IF resume /\ journal # None THEN journal ELSE Fresh(P)

Start(P, resume) ==
  /\ pc = "off" /\ <<P, resume>> \in Starts
  /\ Loaded(P, resume).plan = P
  /\ mem' = Loaded(P, resume)
  /\ pc' = "pick" /\ batch' = {} /\ todo' = {}
  /\ UNCHANGED <<files, fails, crashes>>

Pending == Items \ mem.done

\* The n first items of S in plan order.
FirstOf(S, n) == {i \in S : Cardinality({j \in S : j < i}) < n}

\* Mutant: the region's pending items make one batch.
NextRegion == {i \in Pending : Region[i] = Region[Min(Pending)]}

\* The regions are written in plan order, each in batches of its pending items.
NextBatch ==
  LET r == Region[Min(Pending)]
  IN  FirstOf({i \in Pending : Region[i] = r}, BatchSize[r])

PickBatch ==
  /\ pc = "pick" /\ Pending # {}
  /\ batch' = NextBatch /\ todo' = NextBatch
  /\ pc' = "write"
  /\ UNCHANGED <<files, mem, fails, crashes>>

\* seek and write of one encoded item.
WriteItem(i) ==
  /\ pc = "write" /\ i \in todo /\ \A j \in todo : i <= j
  /\ cache' = [cache EXCEPT ![i] = <<mem.plan, i>>]
  /\ todo' = todo \ {i}
  /\ UNCHANGED <<durable, journal, checksums, manifest, pc, mem, batch, fails, crashes>>

\* Mutant: the journal is saved without an fsync before it.
SyncSkipped ==
  /\ pc = "write" /\ todo = {}
  /\ pc' = "record"
  /\ UNCHANGED <<files, mem, batch, todo, fails, crashes>>

\* flush and fsync of the region file.
SyncBatch ==
  /\ pc = "write" /\ todo = {}
  /\ durable' = [i \in Items |-> IF \E b \in batch : Region[b] = Region[i]
                                   THEN cache[i] ELSE durable[i]]
  /\ pc' = "record"
  /\ UNCHANGED <<cache, journal, checksums, manifest, mem, batch, todo, fails, crashes>>

\* Mutant: the record of a batch replaces the records before it.
RecordOnlyBatch ==
  /\ pc = "record"
  /\ mem' = [mem EXCEPT !.done = batch]
  /\ journal' = mem'
  /\ pc' = "pick" /\ batch' = {}
  /\ UNCHANGED <<durable, cache, checksums, manifest, todo, fails, crashes>>

\* Mutant: the batch never becomes part of the journal.
RecordNothing ==
  /\ pc = "record"
  /\ journal' = mem
  /\ pc' = "pick" /\ batch' = {}
  /\ UNCHANGED <<durable, cache, checksums, manifest, mem, todo, fails, crashes>>

RecordBatch ==
  /\ pc = "record"
  /\ mem' = [mem EXCEPT !.done = @ \union batch]
  /\ journal' = mem'
  /\ pc' = "pick" /\ batch' = {}
  /\ UNCHANGED <<durable, cache, checksums, manifest, todo, fails, crashes>>

-----------------------------------------------------------------------------
(* _write_metadata and the final journal record.                           *)

WriteChecksums ==
  /\ pc = "pick" /\ Pending = {}
  /\ checksums' = [plan |-> mem.plan, done |-> mem.done]
  /\ pc' = "manifest"
  /\ UNCHANGED <<durable, cache, journal, manifest, mem, batch, todo, fails, crashes>>

WriteManifest ==
  /\ pc = "manifest"
  /\ manifest' = [plan |-> mem.plan, content |-> cache]
  /\ pc' = "finish"
  /\ UNCHANGED <<durable, cache, journal, checksums, mem, batch, todo, fails, crashes>>

Finish ==
  /\ pc = "finish"
  /\ journal' = [mem EXCEPT !.finished = TRUE]
  /\ Idle
  /\ UNCHANGED <<durable, cache, checksums, manifest, fails, crashes>>

-----------------------------------------------------------------------------
(* An exception ends the build; a crash ends the process and settles what  *)
(* became of the writes that were not synced.                              *)

Fail ==
  /\ pc # "off" /\ fails < MaxFails
  /\ fails' = fails + 1
  /\ Idle
  /\ UNCHANGED <<files, crashes>>

Dirty == {i \in Items : cache[i] # durable[i]}

\* Of the unsynced slots some are lost, some torn, the others as written.
Crash ==
  /\ crashes < MaxCrashes
  /\ crashes' = crashes + 1
  /\ \E lost, torn \in SUBSET Dirty :
       durable' = [i \in Items |-> IF i \in torn THEN Torn
                                   ELSE IF i \in lost THEN durable[i] ELSE cache[i]]
  /\ cache' = durable'
  /\ Idle
  /\ UNCHANGED <<journal, checksums, manifest, fails>>

Progress ==
  \/ \E P \in Plans, resume \in BOOLEAN : Start(P, resume)
  \/ PickBatch \/ (\E i \in Items : WriteItem(i)) \/ SyncBatch \/ RecordBatch
  \/ WriteChecksums \/ WriteManifest \/ Finish

Next == Progress \/ Fail \/ Crash

Spec == Init /\ [][Next]_vars

\* The build is scheduled, and whoever runs it starts it again when it ended.
FairSpec == Spec /\ WF_vars(Progress)

-----------------------------------------------------------------------------
(* Properties.                                                             *)

PCs == {"off", "pick", "write", "record", "manifest", "finish"}

\* Every variable stays in its type.
TypeOK ==
  /\ durable \in [Items -> Contents] /\ cache \in [Items -> Contents]
  /\ journal \in Journals \union {None}
  /\ checksums \in [plan : Plans, done : SUBSET Items] \union {None}
  /\ manifest \in [plan : Plans, content : [Items -> Contents]] \union {None}
  /\ pc \in PCs
  /\ mem \in Journals \union {None} /\ (pc = "off" <=> mem = None)
  /\ batch \subseteq Items /\ todo \subseteq batch /\ (pc # "write" => todo = {})
  /\ fails \in 0..MaxFails /\ crashes \in 0..MaxCrashes

\* What the journal on disk claims is on disk: every recorded item survives
\* any crash with the bytes its checksum was computed from (the fsync comes
\* before the journal record in _write_dense, _write_experts and _write_ple).
JournaledIsDurable ==
  journal # None => \A i \in journal.done : durable[i] = <<journal.plan, i>>

\* A journal that says finished belongs to a whole package: every item is on
\* disk, checksums and manifest are this plan's and describe those bytes.
FinishedIsWhole ==
  journal # None /\ journal.finished =>
    /\ \A i \in Items : durable[i] = <<journal.plan, i>>
    /\ checksums = [plan |-> journal.plan, done |-> Items]
    /\ manifest = [plan |-> journal.plan, content |-> durable]

\* A resumed build writes no slot the journal on disk has recorded: committed
\* work is not repeated.
CommittedIsNotRepeated ==
  [][\A i \in Items : pc = "write" /\ i \in todo /\ i \notin todo' =>
       journal = None \/ i \notin journal.done]_vars

\* At any moment at most one batch of written items is not yet recorded: that
\* is all the work a crash can cost.
OneBatchAtRisk ==
  LET risk == {i \in Items : \E P \in Plans : cache[i] = <<P, i>>
                               /\ (journal = None \/ i \notin journal.done)}
  IN \E r \in Regions : Cardinality(risk) <= BatchSize[r] /\ \A i \in risk : Region[i] = r

\* The builds implement ResumableBuild: what counts as committed is what the
\* journal records and the disk holds.
Build == INSTANCE ResumableBuild WITH
  committed <- IF journal = None THEN {}
               ELSE {i \in journal.done : durable[i] = <<journal.plan, i>>},
  published <- journal # None /\ journal.finished
ImplementsResumableBuild == Build!BuildSpec

\* Builds are retried: whatever failed or crashed, the package is finished in
\* the end (the bounds make failures and crashes stop).
EventuallyFinished == <>[](journal # None /\ journal.finished)

\* What the journal says is so, of every item recorded and of a finished package.
JournalIsTrue == JournaledIsDurable /\ FinishedIsWhole
==============================================================================
