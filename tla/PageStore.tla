------------------------------ MODULE PageStore ------------------------------
(***************************************************************************)
(* The on-demand expert page store of domainslice/store.py: several        *)
(* threads call CompositeWeightStore.materialize over one                  *)
(* PocketTitanPageStore.  A page is made of slices, each downloaded into   *)
(* its own partial file by a pool of workers, resumed from a journal after *)
(* a failure or a crash, assembled, published and indexed; completed pages *)
(* are evicted least recently used first to keep a byte budget.            *)
(*                                                                         *)
(* The bytes of a slice are SliceLen blocks; block i of a correct file is  *)
(* the number i, 0 is a block that holds none of the source's data.  A     *)
(* checksum is the content it was computed from.                           *)
(***************************************************************************)
EXTENDS Integers, SequencesExt

CONSTANTS
  Pages, Actors,
  None,          \* a file, journal entry or lock holder that is not there
  Slices,        \* slice numbers of a page
  SliceLen,      \* blocks of a slice
  Stride,        \* Stride[p]: size of p's page in the cache
  MaxCache,      \* max_cache_bytes
  Workers,       \* download_workers
  Shared,        \* pages that two threads may fault in at once
  HardCrash,     \* whether a crash may spoil blocks that were not fsynced
  MaxCalls,      \* bound: materialize calls of the whole run
  MaxFaults,     \* bound: failed network requests
  MaxCrashes,    \* bound: crashes
  MaxRots        \* bound: pages decaying on disk

ASSUME PageStoreAssumption ==
  /\ IsFiniteSet(Actors)
  /\ Slices \subseteq Nat /\ IsFiniteSet(Slices) /\ Slices # {}
  /\ SliceLen \in Nat \ {0} /\ Workers \in Nat \ {0}
  /\ Stride \in [Pages -> Nat \ {0}] /\ MaxCache \in Nat \ {0}
  /\ Shared \subseteq Pages /\ HardCrash \in BOOLEAN
  /\ None \notin Pages \union Actors \union Seq(Nat)
  /\ None \notin [Slices -> Seq(Nat)] \union [data : Seq(Nat), synced : Nat]
  /\ {MaxCalls, MaxFaults, MaxCrashes, MaxRots} \subseteq Nat

VARIABLES
  \* -- on disk --
  page,      \* page[p]: content of pages/<p>.ptpage, or None
  manifest,  \* manifest[p]: content whose sha256 pages/<p>.json holds, or None
  index,     \* the sqlite rows, least recently used first
  part,      \* part[p][s]: partial file [data, synced], or None; the first
             \* "synced" blocks survive a crash
  journal,   \* journal[p][s]: content recorded for the slice, or None
  pdir,      \* pages that have a partial directory
  \* -- in memory --
  lock,      \* holder of the store's lock
  leases,    \* leases[p]: handles out on p
  reserved,  \* pages with reserved capacity
  th,        \* th[a]: the materialize call thread a is in
  wk,        \* wk[a][s]: a's download worker for slice s
  \* -- bounds --
  calls, faults, crashes, rots

disk    == <<page, manifest, index>>
partial == <<part, journal, pdir>>
memory  == <<lock, leases, reserved>>
bounds  == <<calls, faults, crashes, rots>>
vars    == <<disk, partial, memory, th, wk, bounds>>

-----------------------------------------------------------------------------
(* Contents.                                                               *)

RightSlice == [i \in 1..SliceLen |-> i]
RightPage  == [s \in Slices |-> RightSlice]
Rotten     == [s \in Slices |-> [i \in 1..SliceLen |-> 0]]

NoEntries == [s \in Slices |-> None]
Idle   == [pc |-> "idle", page |-> None, back |-> None, victim |-> None,
           scan |-> {}, copy |-> NoEntries, cancel |-> FALSE]
NoWork == [s \in Slices |-> [st |-> "off", append |-> FALSE, at |-> 0]]

Data(p, s) == part[p][s].data
SizeOf(p, s) == IF part[p][s] = None THEN 0 ELSE Len(Data(p, s))
Present(p, s) == part[p][s] # None

\* A block written at the end of the file (mode "ab") or at the stream's own
\* position (mode "wb"), which leaves a hole when the file is shorter.
Written(data, append, at) ==
  IF append THEN Append(data, at + 1)
  ELSE [i \in 1..Max({Len(data), at + 1}) |->
          IF i = at + 1 THEN i ELSE IF i <= Len(data) THEN data[i] ELSE 0]

File(data, synced) == [data |-> data, synced |-> synced]

Init ==
  /\ page = [p \in Pages |-> None] /\ manifest = [p \in Pages |-> None]
  /\ index = <<>>
  /\ part = [p \in Pages |-> NoEntries] /\ journal = [p \in Pages |-> NoEntries]
  /\ pdir = {}
  /\ lock = None /\ leases = [p \in Pages |-> 0] /\ reserved = {}
  /\ th = [a \in Actors |-> Idle] /\ wk = [a \in Actors |-> NoWork]
  /\ calls = 0 /\ faults = 0 /\ crashes = 0 /\ rots = 0

-----------------------------------------------------------------------------
(* Helpers shared by the operations.                                       *)

At(a, pc) == th[a].pc = pc
My(a) == th[a].page
Goto(a, pc) == th' = [th EXCEPT ![a].pc = pc]

\* DELETE of a row, and INSERT OR REPLACE of one as the most recent.
Without(p) ==
  IF Contains(index, p) THEN RemoveAt(index, CHOOSE i \in DOMAIN index : index[i] = p)
  ELSE index
Touched(p) == Append(Without(p), p)
Occupancy == SumFunctionOnSet(Stride, ToSet(index))
\* Mutant: downloads in flight are not counted.
ReservedIgnored(p) == 0

ReservedElsewhere(p) == SumFunctionOnSet(Stride, reserved \ {p})
\* Mutant: leased pages may be evicted.
LeaseIgnored(p) == TRUE

Unleased(p) == leases[p] = 0

\* The room test of _ensure_capacity, and the rows it may evict.
Fits(p) == Occupancy + ReservedElsewhere(p) + Stride[p] <= MaxCache
Victims(p) == {i \in DOMAIN index : index[i] # p /\ Unleased(index[i])}

\* Workers of other threads that have p's slices S open keep writing to files
\* no directory names any more.
Orphaned(p, S) ==
  [b \in Actors |-> [s \in Slices |->
     IF My(b) = p /\ s \in S /\ wk[b][s].st = "open"
       THEN [wk[b][s] EXCEPT !.st = "orphan"] ELSE wk[b][s]]]

-----------------------------------------------------------------------------
(* lookup: one critical section decides between a miss, a corrupt page     *)
(* that is discarded whoever leases it, and a hit that takes a lease.      *)

Missing(p)  == page[p] = None \/ manifest[p] = None
Verified(p) == page[p] = manifest[p]

\* The callers' discipline the store relies on for a page that is not Shared.
MayCall(a, p) == p \in Shared \/ \A b \in Actors \ {a} : My(b) = p => At(b, "held")

Enter(a, p) ==
  /\ At(a, "idle") /\ lock = None /\ calls < MaxCalls /\ MayCall(a, p)
  /\ calls' = calls + 1
  /\ UNCHANGED <<page, manifest, partial, reserved, wk, faults, crashes, rots>>

LookupMiss(a, p) ==
  /\ Enter(a, p) /\ Missing(p)
  /\ index' = Without(p)
  /\ th' = [th EXCEPT ![a].pc = "resolve", ![a].page = p]
  /\ UNCHANGED <<lock, leases>>

LookupCorrupt(a, p) ==
  /\ Enter(a, p) /\ ~Missing(p) /\ ~Verified(p)
  /\ lock' = a
  /\ th' = [th EXCEPT ![a].pc = "dropPage", ![a].page = p,
                      ![a].back = "resolve", ![a].victim = p]
  /\ UNCHANGED <<index, leases>>

LookupHit(a, p) ==
  /\ Enter(a, p) /\ ~Missing(p) /\ Verified(p)
  /\ index' = Touched(p)
  /\ leases' = [leases EXCEPT ![p] = @ + 1]
  /\ th' = [th EXCEPT ![a].pc = "held", ![a].page = p]
  /\ UNCHANGED lock

-----------------------------------------------------------------------------
(* Removing a page under the lock (_discard, and the eviction in           *)
(* _ensure_capacity): page file, manifest, row, in that order.             *)

DropPage(a) ==
  /\ At(a, "dropPage") /\ Goto(a, "dropManifest")
  /\ page' = [page EXCEPT ![th[a].victim] = None]
  /\ UNCHANGED <<manifest, index, partial, memory, wk, bounds>>

DropManifest(a) ==
  /\ At(a, "dropManifest") /\ Goto(a, "dropRow")
  /\ manifest' = [manifest EXCEPT ![th[a].victim] = None]
  /\ UNCHANGED <<page, index, partial, memory, wk, bounds>>

\* Mutant: the row of an evicted page is left in the index.
RowKept(a) ==
  /\ At(a, "dropRow")
  /\ IF th[a].back = "resolve"
       THEN th' = [th EXCEPT ![a].pc = "resolve", ![a].back = None, ![a].victim = None]
            /\ lock' = None
       ELSE th' = [th EXCEPT ![a].pc = "fit", ![a].victim = None]
            /\ UNCHANGED lock
  /\ UNCHANGED <<disk, partial, leases, reserved, wk, bounds>>

DropRow(a) ==
  /\ At(a, "dropRow")
  /\ index' = Without(th[a].victim)
  /\ IF th[a].back = "resolve"
       THEN th' = [th EXCEPT ![a].pc = "resolve", ![a].back = None, ![a].victim = None]
            /\ lock' = None
       ELSE th' = [th EXCEPT ![a].pc = "fit", ![a].victim = None]
            /\ UNCHANGED lock
  /\ UNCHANGED <<page, manifest, partial, leases, reserved, wk, bounds>>

-----------------------------------------------------------------------------
(* remote.resolve, then reserve: the capacity the page will take is set    *)
(* aside before a payload byte is requested.                               *)

Resolve(a) ==
  /\ At(a, "resolve") /\ Goto(a, "reserve")
  /\ UNCHANGED <<disk, partial, memory, wk, bounds>>

ResolveFails(a) ==
  /\ At(a, "resolve") /\ faults < MaxFaults
  /\ faults' = faults + 1
  /\ th' = [th EXCEPT ![a] = Idle]
  /\ UNCHANGED <<disk, partial, memory, wk, calls, crashes, rots>>

\* A page that is reserved already is not reserved again.
Reserve(a) ==
  /\ At(a, "reserve") /\ lock = None
  /\ IF My(a) \in reserved
       THEN Goto(a, "prepare") /\ UNCHANGED lock
       ELSE th' = [th EXCEPT ![a].pc = "fit", ![a].back = "reserve"] /\ lock' = a
  /\ UNCHANGED <<disk, partial, leases, reserved, wk, bounds>>

\* _ensure_capacity succeeds: reserve notes the reservation and lets go of the
\* lock, commit goes on to assemble the page.
FitRoom(a) ==
  /\ At(a, "fit") /\ Fits(My(a))
  /\ IF th[a].back = "reserve"
       THEN /\ reserved' = reserved \union {My(a)}
            /\ lock' = None
            /\ th' = [th EXCEPT ![a].pc = "prepare", ![a].back = None]
       ELSE /\ th' = [th EXCEPT ![a].pc = "assemble", ![a].back = None]
            /\ UNCHANGED <<lock, reserved>>
  /\ UNCHANGED <<disk, partial, leases, wk, bounds>>

\* The least recently used row nobody leases becomes the victim.
FitEvict(a) ==
  /\ At(a, "fit") /\ ~Fits(My(a)) /\ Stride[My(a)] <= MaxCache
  /\ Victims(My(a)) # {}
  /\ th' = [th EXCEPT ![a].pc = "dropPage",
                      ![a].victim = index[Min(Victims(My(a)))]]
  /\ UNCHANGED <<disk, partial, memory, wk, bounds>>

\* CacheBudgetError: out of reserve it ends the call, out of commit the
\* reservation is cancelled first.
FitFails(a) ==
  /\ At(a, "fit") /\ ~Fits(My(a))
  /\ Stride[My(a)] > MaxCache \/ Victims(My(a)) = {}
  /\ lock' = None
  /\ th' = IF th[a].back = "reserve" THEN [th EXCEPT ![a] = Idle]
           ELSE [th EXCEPT ![a].pc = "cancel", ![a].back = None]
  /\ UNCHANGED <<disk, partial, leases, reserved, wk, bounds>>

CancelReservation(a) ==
  /\ At(a, "cancel") /\ lock = None
  /\ reserved' = reserved \ {My(a)}
  /\ th' = [th EXCEPT ![a] = Idle]
  /\ wk' = [wk EXCEPT ![a] = NoWork]
  /\ UNCHANGED <<disk, partial, lock, leases, bounds>>

-----------------------------------------------------------------------------
(* prepare_fragments: not under the lock.  The journal is read once, each  *)
(* partial file is checked against its record, the journal written back.   *)

PrepareRead(a) ==
  /\ At(a, "prepare")
  /\ pdir' = pdir \union {My(a)}
  /\ th' = [th EXCEPT ![a].pc = "inspect", ![a].scan = Slices,
                      ![a].copy = journal[My(a)]]
  /\ UNCHANGED <<disk, part, journal, memory, wk, bounds>>

\* Mutant: only a file that ends where its record ends is kept.
KeptOnlyEqual(data, rec) ==
  IF Len(data) > SliceLen THEN None
  ELSE IF rec # None THEN (IF rec = data THEN rec ELSE None)
  ELSE IF Len(data) = SliceLen THEN data ELSE None

\* What is kept of a partial file whose journal record is rec.
Kept(data, rec) ==
  IF Len(data) > SliceLen THEN None
  ELSE IF rec # None THEN (IF IsPrefix(rec, data) THEN rec ELSE None)
  ELSE IF Len(data) = SliceLen THEN data ELSE None

PrepareSlice(a) ==
  LET p == My(a)
      s == Min(th[a].scan)
      kept == Kept(Data(p, s), th[a].copy[s])
  IN
  /\ At(a, "inspect") /\ th[a].scan # {}
  /\ IF ~Present(p, s)
       THEN th' = [th EXCEPT ![a].scan = @ \ {s}] /\ UNCHANGED <<part, wk>>
       ELSE /\ th' = [th EXCEPT ![a].scan = @ \ {s}, ![a].copy[s] = kept]
            /\ part' = [part EXCEPT ![p][s] =
                 IF kept = None THEN None
                 ELSE File(kept, Min({@.synced, Len(kept)}))]
            /\ wk' = IF kept = None THEN Orphaned(p, {s}) ELSE wk
  /\ UNCHANGED <<disk, journal, pdir, memory, bounds>>

\* The journal write fails when another thread's commit removed the directory.
PrepareWrite(a) ==
  /\ At(a, "inspect") /\ th[a].scan = {}
  /\ IF My(a) \in pdir
       THEN /\ journal' = [journal EXCEPT ![My(a)] = th[a].copy]
            /\ th' = [th EXCEPT ![a].pc = "fetch", ![a].copy = NoEntries]
            /\ wk' = [wk EXCEPT ![a] = [s \in Slices |-> [NoWork[s] EXCEPT !.st = "queued"]]]
       ELSE /\ th' = [th EXCEPT ![a].pc = "cancel", ![a].copy = NoEntries]
            /\ UNCHANGED <<journal, wk>>
  /\ UNCHANGED <<disk, part, pdir, memory, bounds>>

-----------------------------------------------------------------------------
(* The download workers: fetch_slice_to_file and, whatever came of it,     *)
(* record_fragment.                                                        *)

SetWork(a, s, w) == wk' = [wk EXCEPT ![a][s] = w]
State(a, s) == wk[a][s].st
Busy(a) == {s \in Slices : State(a, s) \in {"found", "open", "orphan", "recordOk", "recordErr"}}

\* Mutant: the resumed request starts at byte_start, not behind what is there.
RequestFromStart(a, s) ==
  LET p == My(a)
      n == SizeOf(p, s)
  IN
  /\ At(a, "fetch") /\ ~th[a].cancel /\ State(a, s) = "queued"
  /\ Cardinality(Busy(a)) < Workers
  /\ IF n > SliceLen
       THEN /\ part' = [part EXCEPT ![p][s] = None]
            /\ wk' = [Orphaned(p, {s}) EXCEPT ![a][s].st = "found"]
       ELSE /\ wk' = [wk EXCEPT ![a][s].st = IF n = SliceLen THEN "recordOk" ELSE "found",
                                ![a][s].append = n > 0 /\ n < SliceLen,
                                ![a][s].at = 0]
            /\ UNCHANGED part
  /\ UNCHANGED <<disk, journal, pdir, memory, th, bounds>>

\* A worker of the pool takes the slice: an overlong file is unlinked, a
\* complete one is taken as it is, any other is continued at its end.
FetchStat(a, s) ==
  LET p == My(a)
      n == SizeOf(p, s)
  IN
  /\ At(a, "fetch") /\ ~th[a].cancel /\ State(a, s) = "queued"
  /\ Cardinality(Busy(a)) < Workers
  /\ IF n > SliceLen
       THEN /\ part' = [part EXCEPT ![p][s] = None]
            /\ wk' = [Orphaned(p, {s}) EXCEPT ![a][s].st = "found"]
       ELSE /\ wk' = [wk EXCEPT ![a][s].st = IF n = SliceLen THEN "recordOk" ELSE "found",
                                ![a][s].append = n > 0 /\ n < SliceLen,
                                ![a][s].at = IF n < SliceLen THEN n ELSE 0]
            /\ UNCHANGED part
  /\ UNCHANGED <<disk, journal, pdir, memory, th, bounds>>

\* open(mode): "wb" truncates what is there, "ab" creates what is not.
FetchOpen(a, s) ==
  LET p == My(a) IN
  /\ State(a, s) = "found"
  /\ wk' = [wk EXCEPT ![a][s].st = "open"]
  /\ pdir' = pdir \union {p}
  /\ part' = IF wk[a][s].append /\ Present(p, s) THEN part
             ELSE [part EXCEPT ![p][s] = File(<<>>, 0)]
  /\ UNCHANGED <<disk, journal, memory, th, bounds>>

FetchBlock(a, s) ==
  LET p == My(a)
      w == wk[a][s]
  IN
  /\ State(a, s) \in {"open", "orphan"} /\ w.at < SliceLen
  /\ SetWork(a, s, [w EXCEPT !.at = @ + 1])
  /\ part' = IF w.st = "open"
               THEN [part EXCEPT ![p][s].data = Written(@, w.append, w.at)]
               ELSE part
  /\ UNCHANGED <<disk, journal, pdir, memory, th, bounds>>

\* What the flush and fsync of the finally clause make durable.
Synced(a, s) ==
  IF State(a, s) = "open"
    THEN [part EXCEPT ![My(a)][s].synced = SizeOf(My(a), s)] ELSE part

\* Every byte arrived; the file at the path must then have the exact size.
FetchEnd(a, s) ==
  /\ State(a, s) \in {"open", "orphan"} /\ wk[a][s].at = SliceLen
  /\ part' = Synced(a, s)
  /\ SetWork(a, s, [NoWork[s] EXCEPT !.st =
       IF SizeOf(My(a), s) = SliceLen THEN "recordOk" ELSE "recordErr"])
  /\ UNCHANGED <<disk, journal, pdir, memory, th, bounds>>

\* The request fails for good, or the call is being cancelled.
FetchAbort(a, s) ==
  /\ State(a, s) \in {"found", "open", "orphan"}
  /\ \/ th[a].cancel /\ UNCHANGED faults
     \/ ~th[a].cancel /\ faults < MaxFaults /\ faults' = faults + 1
  /\ part' = Synced(a, s)
  /\ SetWork(a, s, [NoWork[s] EXCEPT !.st = "recordErr"])
  /\ UNCHANGED <<disk, journal, pdir, memory, th, calls, crashes, rots>>

\* record_fragment, called from a finally clause when the file is not empty.
FetchRecord(a, s) ==
  LET p == My(a) IN
  /\ State(a, s) \in {"recordOk", "recordErr"} /\ lock = None
  /\ IF SizeOf(p, s) > 0
       THEN /\ journal' = [journal EXCEPT ![p][s] = Data(p, s)]
            /\ pdir' = pdir \union {p}
       ELSE UNCHANGED <<journal, pdir>>
  /\ SetWork(a, s, [NoWork[s] EXCEPT !.st = IF State(a, s) = "recordOk" THEN "ok" ELSE "err"])
  /\ UNCHANGED <<disk, part, memory, th, bounds>>

\* The main thread sees the first failed future: running workers are told to
\* stop, queued ones never start.
CancelFetch(a) ==
  /\ At(a, "fetch") /\ ~th[a].cancel
  /\ \E s \in Slices : State(a, s) = "err"
  /\ th' = [th EXCEPT ![a].cancel = TRUE]
  /\ wk' = [wk EXCEPT ![a] = [s \in Slices |-> IF State(a, s) = "queued" THEN NoWork[s] ELSE wk[a][s]]]
  /\ UNCHANGED <<disk, partial, memory, bounds>>

FetchFailed(a) ==
  /\ At(a, "fetch") /\ th[a].cancel
  /\ \A s \in Slices : State(a, s) \in {"off", "ok", "err"}
  /\ th' = [th EXCEPT ![a].pc = "cancel", ![a].cancel = FALSE]
  /\ wk' = [wk EXCEPT ![a] = NoWork]
  /\ UNCHANGED <<disk, partial, memory, bounds>>

-----------------------------------------------------------------------------
(* commit: under the lock from the room test to the removal of the partial *)
(* directory.  The page file, the manifest and the row become durable one  *)
(* after the other.                                                        *)

StartCommit(a) ==
  /\ At(a, "fetch") /\ lock = None
  /\ \A s \in Slices : State(a, s) = "ok"
  /\ lock' = a
  /\ th' = [th EXCEPT ![a].pc = "fit", ![a].back = "commit"]
  /\ wk' = [wk EXCEPT ![a] = NoWork]
  /\ UNCHANGED <<disk, partial, leases, reserved, bounds>>

Complete(p, s) == Present(p, s) /\ SizeOf(p, s) = SliceLen

Assemble(a) ==
  LET p == My(a) IN
  /\ At(a, "assemble")
  /\ IF \A s \in Slices : Complete(p, s)
       THEN /\ page' = [page EXCEPT ![p] = [s \in Slices |-> Data(p, s)]]
            /\ Goto(a, "manifest")
            /\ UNCHANGED lock
       ELSE Goto(a, "cancel") /\ lock' = None /\ UNCHANGED page
  /\ UNCHANGED <<manifest, index, partial, leases, reserved, wk, bounds>>

WriteManifest(a) ==
  /\ At(a, "manifest") /\ Goto(a, "index")
  /\ manifest' = [manifest EXCEPT ![My(a)] = page[My(a)]]
  /\ UNCHANGED <<page, index, partial, memory, wk, bounds>>

\* Mutant: commit indexes the page and leases nothing to its caller.
IndexUnleased(a) ==
  /\ At(a, "index") /\ Goto(a, "clean")
  /\ index' = Touched(My(a))
  /\ reserved' = reserved \ {My(a)}
  /\ UNCHANGED <<page, manifest, leases, partial, lock, wk, bounds>>

IndexPage(a) ==
  LET p == My(a) IN
  /\ At(a, "index") /\ Goto(a, "clean")
  /\ index' = Touched(p)
  /\ reserved' = reserved \ {p}
  /\ leases' = [leases EXCEPT ![p] = @ + 1]
  /\ UNCHANGED <<page, manifest, partial, lock, wk, bounds>>

CleanUp(a) ==
  LET p == My(a) IN
  /\ At(a, "clean") /\ Goto(a, "held")
  /\ part' = [part EXCEPT ![p] = NoEntries]
  /\ journal' = [journal EXCEPT ![p] = NoEntries]
  /\ pdir' = pdir \ {p}
  /\ wk' = Orphaned(p, Slices)
  /\ lock' = None
  /\ UNCHANGED <<disk, leases, reserved, bounds>>

Release(a) ==
  /\ At(a, "held") /\ lock = None
  /\ leases' = [leases EXCEPT ![My(a)] = Max({0, @ - 1})]
  /\ th' = [th EXCEPT ![a] = Idle]
  /\ UNCHANGED <<disk, partial, lock, reserved, wk, bounds>>

-----------------------------------------------------------------------------
(* The environment: a page decays on disk while nobody reads it, and the   *)
(* process dies.                                                           *)

Rot(p) ==
  /\ rots < MaxRots /\ page[p] # None /\ Unleased(p) /\ lock = None
  /\ page' = [page EXCEPT ![p] = Rotten]
  /\ rots' = rots + 1
  /\ UNCHANGED <<manifest, index, partial, memory, th, wk, calls, faults, crashes>>

\* What a crash may leave of a partial file: the synced prefix is kept; of the
\* rest any prefix or, when the machine goes down, the full length with blocks
\* that were never written.  What is there afterwards is on the disk.
Survivors(f) ==
  IF f = None THEN {None}
  ELSE {File(SubSeq(f.data, 1, n), n) : n \in f.synced..Len(f.data)}
       \union (IF HardCrash
                 THEN {File([i \in DOMAIN f.data |-> IF i <= f.synced THEN f.data[i] ELSE 0],
                            Len(f.data))}
                 ELSE {})

Crash ==
  /\ crashes < MaxCrashes
  /\ crashes' = crashes + 1
  /\ part' \in {f \in [Pages -> [Slices -> UNION {Survivors(part[p][s]) : p \in Pages, s \in Slices}]] :
                  \A p \in Pages, s \in Slices : f[p][s] \in Survivors(part[p][s])}
  /\ lock' = None /\ reserved' = {}
  /\ leases' = [p \in Pages |-> 0]
  /\ th' = [a \in Actors |-> Idle] /\ wk' = [a \in Actors |-> NoWork]
  /\ UNCHANGED <<disk, journal, pdir, calls, faults, rots>>

Finished ==
  /\ calls = MaxCalls /\ \A a \in Actors : At(a, "idle")
  /\ UNCHANGED vars

-----------------------------------------------------------------------------
Fetch(a) ==
  \E s \in Slices :
    \/ FetchStat(a, s) \/ FetchOpen(a, s) \/ FetchBlock(a, s)
    \/ FetchEnd(a, s) \/ FetchRecord(a, s)

\* Every step of a call of materialize but its failures.
Work(a) ==
  \/ DropPage(a) \/ DropManifest(a) \/ DropRow(a)
  \/ Resolve(a) \/ Reserve(a)
  \/ FitRoom(a) \/ FitEvict(a) \/ FitFails(a) \/ CancelReservation(a)
  \/ PrepareRead(a) \/ PrepareSlice(a) \/ PrepareWrite(a)
  \/ Fetch(a) \/ CancelFetch(a) \/ FetchFailed(a)
  \/ StartCommit(a) \/ Assemble(a) \/ WriteManifest(a) \/ IndexPage(a) \/ CleanUp(a)

Next ==
  \/ \E a \in Actors, p \in Pages : LookupMiss(a, p) \/ LookupCorrupt(a, p) \/ LookupHit(a, p)
  \/ \E a \in Actors : Work(a) \/ ResolveFails(a) \/ Release(a)
  \/ \E a \in Actors, s \in Slices : FetchAbort(a, s)
  \/ \E p \in Pages : Rot(p)
  \/ Crash
  \/ Finished

Spec == Init /\ [][Next]_vars

\* Threads are scheduled and callers release what they were given.
Fairness == \A a \in Actors : WF_vars(Work(a)) /\ WF_vars(Release(a))

FairSpec == Spec /\ Fairness

-----------------------------------------------------------------------------
(* Properties.                                                             *)

Blocks == UNION {[1..n -> 0..SliceLen] : n \in 0..(Cardinality(Actors) + 1) * SliceLen}
MaybeBlocks == Blocks \union {None}
MaybeFile == {None} \union [data : Blocks, synced : 0..(Cardinality(Actors) + 1) * SliceLen]
PCs == {"idle", "resolve", "dropPage", "dropManifest", "dropRow", "reserve", "fit",
        "prepare", "inspect", "fetch", "assemble", "manifest", "index", "clean",
        "held", "cancel"}
WorkStates == {"off", "queued", "found", "open", "orphan", "recordOk", "recordErr", "ok", "err"}

\* Every variable stays in its type: contents, the index without repeated
\* rows, one record per thread and per worker.
TypeOK ==
  /\ page \in [Pages -> {None} \union [Slices -> Blocks]]
  /\ manifest \in [Pages -> {None} \union [Slices -> Blocks]]
  /\ index \in Seq(Pages) /\ IsInjective(index)
  /\ \A p \in Pages, s \in Slices : part[p][s] \in MaybeFile /\ journal[p][s] \in MaybeBlocks
  /\ pdir \subseteq Pages /\ reserved \subseteq Pages
  /\ lock \in Actors \union {None}
  /\ leases \in [Pages -> 0..MaxCalls]
  /\ \A a \in Actors :
       /\ th[a].pc \in PCs /\ th[a].page \in Pages \union {None}
       /\ th[a].back \in {None, "resolve", "reserve", "commit"}
       /\ th[a].victim \in Pages \union {None} /\ th[a].scan \subseteq Slices
       /\ th[a].copy \in [Slices -> MaybeBlocks] /\ th[a].cancel \in BOOLEAN
       /\ wk[a] \in [Slices -> [st : WorkStates, append : BOOLEAN, at : 0..SliceLen]]

\* A page whose checksum verifies holds the source's bytes, all of them: no
\* order of downloads, failures, resumes and crashes publishes a partial or
\* a spoilt page (commit's os.replace and manifest, prepare_fragments).
PublishedPageIsExact ==
  \A p \in Pages : page[p] # None /\ manifest[p] = page[p] => page[p] = RightPage

\* The page behind a handle stays on disk, verified, until it is released:
\* no eviction made for another page takes it (leases in _ensure_capacity).
HeldPageStays ==
  \A a \in Actors : At(a, "held") => page[My(a)] # None /\ manifest[My(a)] = page[My(a)]

\* Completed pages and the capacity promised to downloads in flight fit the
\* byte budget together (reserve, commit, _ensure_capacity).
BudgetHonoured ==
  Occupancy + SumFunctionOnSet(Stride, reserved) <= MaxCache

\* While a call prepares and downloads its page, the capacity for that page
\* stays reserved (reserve comes before the first remote payload request),
\* unless another call of the same page may give up the reservation they share.
DownloadHoldsReservation ==
  \A a \in Actors :
    th[a].pc \in {"prepare", "inspect", "fetch"} => My(a) \in reserved \union Shared

\* A fragment's journal record only ever grows along the same bytes, through
\* failures, restarts and retries, until the page it belongs to is published:
\* verified bytes are not downloaded twice (prepare_fragments, record_fragment).
ProgressIsKept ==
  [][\A p \in Pages, s \in Slices : journal[p][s] # None =>
       \/ journal'[p][s] # None /\ IsPrefix(journal[p][s], journal'[p][s])
       \/ page[p] = RightPage /\ manifest[p] = RightPage]_vars

\* Every call of materialize returns a handle or raises: no wait for the
\* lock, for a worker or for room in the cache lasts for ever.
EveryCallReturns ==
  \A a \in Actors : ~(At(a, "idle") \/ At(a, "held")) ~> (At(a, "idle") \/ At(a, "held"))

\* The store implements the cache PageCache describes: a page becomes
\* available with its manifest and is used between index entry and release.
Cache == INSTANCE PageCache WITH
  avail <- {p \in Pages : page[p] = RightPage /\ manifest[p] = RightPage},
  use   <- [a \in Actors |-> IF th[a].pc \in {"clean", "held"} THEN My(a) ELSE None]
ImplementsPageCache == Cache!CacheSpec

\* The books of the store: types, the budget and the reservations in it.
Accounting == TypeOK /\ BudgetHonoured /\ DownloadHoldsReservation
==============================================================================
