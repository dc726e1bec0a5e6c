------------------------ MODULE PackageWriterProofs ------------------------
(***************************************************************************)
(* Proofs about PackageWriter, for every set of plans and items, every     *)
(* assignment of items to regions and every batch size.                    *)
(***************************************************************************)
EXTENDS PackageWriter, DataTheorems

\* A batch only ever takes pending items.
LEMMA BatchIsPending ==
  ASSUME mem.done \subseteq Items
  PROVE  NextBatch \subseteq Items \ mem.done
BY DEF NextBatch, FirstOf, Pending

\* The variables keep their types: the type invariant of the package build.
THEOREM TypeCorrect == Spec => []TypeOK
<1>1. Init => TypeOK
  BY PackageWriterAssumption DEF Init, TypeOK, PCs, Contents
<1>2. TypeOK /\ [Next]_vars => TypeOK'
  <2> SUFFICES ASSUME TypeOK, [Next]_vars PROVE TypeOK'
    OBVIOUS
  <2> USE PackageWriterAssumption DEF TypeOK, PCs, Journals, files, build, Idle
  <2>1. ASSUME NEW P \in Plans, NEW resume \in BOOLEAN, Start(P, resume)
        PROVE  TypeOK'
    <3>1. Fresh(P) \in Journals BY DEF Fresh
    <3>2. Loaded(P, resume) \in Journals BY <3>1 DEF Loaded
    <3> QED BY <2>1, <3>2 DEF Start
  <2>2. CASE PickBatch
    <3>1. mem \in Journals BY <2>2 DEF PickBatch
    <3>2. NextBatch \subseteq Items BY <3>1, BatchIsPending
    <3> QED BY <2>2, <3>2 DEF PickBatch
  <2>3. ASSUME NEW i \in Items, WriteItem(i) PROVE TypeOK'
    <3>1. mem \in Journals BY <2>3 DEF WriteItem
    <3>2. <<mem.plan, i>> \in Contents BY <3>1 DEF Contents
    <3>3. cache' \in [Items -> Contents] BY <2>3, <3>2 DEF WriteItem
    <3> QED BY <2>3, <3>3 DEF WriteItem
  <2>4. CASE SyncBatch BY <2>4 DEF SyncBatch
  <2>5. CASE RecordBatch
    <3>1. mem \in Journals BY <2>5 DEF RecordBatch
    <3>2. mem' \in Journals BY <2>5, <3>1 DEF RecordBatch
    <3> QED BY <2>5, <3>2 DEF RecordBatch
  <2>6. CASE WriteChecksums BY <2>6 DEF WriteChecksums
  <2>7. CASE WriteManifest BY <2>7 DEF WriteManifest
  <2>8. CASE Finish
    <3>1. mem \in Journals BY <2>8 DEF Finish
    <3>2. journal' \in Journals BY <2>8, <3>1 DEF Finish
    <3> QED BY <2>8, <3>2 DEF Finish
  <2>9. CASE Fail BY <2>9 DEF Fail
  <2>10. CASE Crash
    <3>1. durable' \in [Items -> Contents] BY <2>10 DEF Crash, Contents
    <3> QED BY <2>10, <3>1 DEF Crash
  <2>11. CASE UNCHANGED vars BY <2>11 DEF vars
  <2> QED
    BY <2>1, <2>2, <2>3, <2>4, <2>5, <2>6, <2>7, <2>8, <2>9, <2>10, <2>11
    DEF Next, Progress
<1> QED BY <1>1, <1>2, PTL DEF Spec

-----------------------------------------------------------------------------
(***************************************************************************)
(* The inductive invariant.  JournaledIsDurable is not inductive: a write  *)
(* could hit a recorded slot, and a record could name an unsynced one.     *)
(***************************************************************************)

Holds(done, P) == \A i \in done : durable[i] = <<P, i>> /\ cache[i] = <<P, i>>

\* What the journal on disk records is on disk and in no danger: the slot has
\* no unsynced write.
JournalHolds == journal # None => Holds(journal.done, journal.plan)

\* The running build's own journal is as true as the one on disk.
MemHolds == mem # None => Holds(mem.done, mem.plan)

\* Written items of the batch are in the file, and synced when they are
\* about to be recorded.
BatchHolds ==
  /\ pc = "write" => \A i \in batch \ todo : cache[i] = <<mem.plan, i>>
  /\ pc = "record" => Holds(batch, mem.plan)

\* Whoever writes, and whoever left the journal, was started for one plan:
\* under SafeStarts they are the same.
Legal(P) == \E resume \in BOOLEAN : <<P, resume>> \in Starts
OnePlanAtWork ==
  /\ mem # None => Legal(mem.plan)
  /\ journal # None => Legal(journal.plan)
  /\ mem # None /\ journal # None => mem.plan = journal.plan

DurableInv == TypeOK /\ JournalHolds /\ MemHolds /\ BatchHolds /\ OnePlanAtWork

LEMMA DurableInvInit == Init => DurableInv
<1> SUFFICES ASSUME Init PROVE DurableInv
  OBVIOUS
<1>1. TypeOK
  BY PackageWriterAssumption DEF Init, TypeOK, PCs, Contents
<1> QED BY <1>1
  DEF Init, DurableInv, JournalHolds, MemHolds, BatchHolds, OnePlanAtWork

LEMMA DurableInvStep ==
  ASSUME SafeStarts, DurableInv, [Next]_vars, TypeOK'
  PROVE  DurableInv'
<1> USE PackageWriterAssumption
    DEF DurableInv, JournalHolds, MemHolds, BatchHolds, OnePlanAtWork, Holds, files, build, Idle
<1>1. ASSUME NEW P \in Plans, NEW resume \in BOOLEAN, Start(P, resume)
      PROVE  DurableInv'
  <2>1. mem' = Loaded(P, resume) /\ mem'.plan = P /\ UNCHANGED <<durable, cache, journal>>
    BY <1>1 DEF Start
  <2>2. Legal(mem'.plan)
    BY <1>1, <2>1 DEF Start, Legal
  <2>3. Holds(mem'.done, mem'.plan)
    BY <2>1 DEF Loaded, Fresh
  <2>4. journal # None => mem'.plan = journal.plan
    <3>1. CASE \A s \in Starts : s[2]
      <4>1. resume BY <1>1, <3>1 DEF Start
      <4> QED BY <2>1, <4>1 DEF Loaded
    <3>2. CASE \A s, t \in Starts : s[1] = t[1]
      <4> SUFFICES ASSUME journal # None PROVE mem'.plan = journal.plan
        OBVIOUS
      <4>1. PICK r \in BOOLEAN : <<journal.plan, r>> \in Starts
        BY DEF Legal
      <4>2. <<P, resume>> \in Starts BY <1>1 DEF Start
      <4> QED BY <3>2, <4>1, <4>2, <2>1
    <3> QED BY <3>1, <3>2 DEF SafeStarts
  <2>5. pc' = "pick" BY <1>1 DEF Start
  <2> QED BY <2>1, <2>2, <2>3, <2>4, <2>5 DEF Legal
<1>2. CASE PickBatch
  <2>1. UNCHANGED <<durable, cache, journal, mem>> /\ pc' = "write" /\ batch' = todo'
    BY <1>2 DEF PickBatch
  <2> QED BY <2>1 DEF Legal
<1>3. ASSUME NEW i \in Items, WriteItem(i) PROVE DurableInv'
  <2>1. /\ pc = "write" /\ pc' = "write" /\ i \in todo /\ todo' = todo \ {i}
        /\ cache' = [cache EXCEPT ![i] = <<mem.plan, i>>]
        /\ UNCHANGED <<durable, journal, mem, batch>>
    BY <1>3 DEF WriteItem
  <2>2. mem # None /\ cache \in [Items -> Contents]
    BY <2>1 DEF TypeOK
  <2>3. \A j \in Items : cache'[j] = IF j = i THEN <<mem.plan, i>> ELSE cache[j]
    BY <2>1, <2>2
  <2>4. journal # None => journal.done \subseteq Items BY DEF TypeOK, Journals
  <2>5. mem.done \subseteq Items BY <2>2 DEF TypeOK, Journals
  <2>6. JournalHolds' BY <2>1, <2>2, <2>3, <2>4
  <2>7. MemHolds' BY <2>1, <2>3, <2>5
  <2>8. BatchHolds' BY <2>1, <2>3 DEF TypeOK
  <2> QED BY <2>1, <2>6, <2>7, <2>8 DEF Legal
<1>4. CASE SyncBatch
  <2>1. /\ pc = "write" /\ pc' = "record" /\ todo = {}
        /\ durable' = [i \in Items |-> IF \E b \in batch : Region[b] = Region[i]
                                         THEN cache[i] ELSE durable[i]]
        /\ UNCHANGED <<cache, journal, mem, batch>>
    BY <1>4 DEF SyncBatch
  <2>2. journal # None => journal.done \subseteq Items BY DEF TypeOK, Journals
  <2>3. mem # None => mem.done \subseteq Items BY DEF TypeOK, Journals
  <2>4. batch \subseteq Items BY DEF TypeOK
  <2>5. \A i \in Items : cache[i] = durable[i] => durable'[i] = durable[i]
    BY <2>1
  <2>6. \A i \in batch : durable'[i] = cache[i]
    BY <2>1, <2>4
  <2>7. JournalHolds' BY <2>1, <2>2, <2>5
  <2>8. MemHolds' BY <2>1, <2>3, <2>5
  <2>9. BatchHolds' BY <2>1, <2>6
  <2> QED BY <2>1, <2>7, <2>8, <2>9 DEF Legal
<1>5. CASE RecordBatch
  <2>1. /\ pc = "record" /\ pc' = "pick" /\ journal' = mem'
        /\ mem' = [mem EXCEPT !.done = @ \union batch]
        /\ UNCHANGED <<durable, cache>>
    BY <1>5 DEF RecordBatch
  <2>2. mem # None /\ mem \in Journals BY <2>1 DEF TypeOK
  <2>3. mem'.plan = mem.plan /\ mem'.done = mem.done \union batch
    BY <2>1, <2>2 DEF Journals
  <2>4. Holds(mem.done, mem.plan)'
    BY <2>1, <2>2, <2>3
  <2> QED BY <2>1, <2>2, <2>3, <2>4 DEF Legal
<1>6. CASE WriteChecksums BY <1>6 DEF WriteChecksums, Legal
<1>7. CASE WriteManifest BY <1>7 DEF WriteManifest, Legal
<1>8. CASE Finish
  <2>1. /\ pc' = "off" /\ mem' = None /\ journal' = [mem EXCEPT !.finished = TRUE]
        /\ UNCHANGED <<durable, cache>> /\ pc = "finish"
    BY <1>8 DEF Finish
  <2>2. mem # None /\ mem \in Journals BY <2>1 DEF TypeOK
  <2>3. journal'.plan = mem.plan /\ journal'.done = mem.done
    BY <2>1, <2>2 DEF Journals
  <2> QED BY <2>1, <2>2, <2>3 DEF Legal
<1>9. CASE Fail BY <1>9 DEF Fail, Legal
<1>10. CASE Crash
  <2>1. PICK lost \in SUBSET Dirty, torn \in SUBSET Dirty :
           durable' = [i \in Items |-> IF i \in torn THEN Torn
                                       ELSE IF i \in lost THEN durable[i] ELSE cache[i]]
    BY <1>10 DEF Crash
  <2>2. cache' = durable' /\ pc' = "off" /\ mem' = None /\ UNCHANGED journal
    BY <1>10 DEF Crash
  <2>3. \A i \in Items : cache[i] = durable[i] => durable'[i] = durable[i]
    BY <2>1 DEF Dirty
  <2>4. journal # None => journal.done \subseteq Items BY DEF TypeOK, Journals
  <2> QED BY <2>2, <2>3, <2>4 DEF Legal
<1>11. CASE UNCHANGED vars BY <1>11 DEF vars, Legal
<1> QED
  BY <1>1, <1>2, <1>3, <1>4, <1>5, <1>6, <1>7, <1>8, <1>9, <1>10, <1>11
  DEF Next, Progress

\* As long as an output directory is only ever resumed, or only ever built for
\* one plan, its journal never claims an item that a crash could take back.
THEOREM JournalSafe == ASSUME SafeStarts PROVE Spec => []JournaledIsDurable
<1>1. Init => DurableInv
  BY DurableInvInit
<1>2. DurableInv /\ TypeOK' /\ [Next]_vars => DurableInv'
  BY DurableInvStep
<1>3. DurableInv => JournaledIsDurable
  BY DEF DurableInv, JournalHolds, Holds, JournaledIsDurable
<1> QED BY <1>1, <1>2, <1>3, TypeCorrect, PTL DEF Spec

-----------------------------------------------------------------------------
(***************************************************************************)
(* The finished package.  FinishedIsWhole is not inductive: a build that   *)
(* resumes a finished journal, or builds anew over a finished package,     *)
(* rewrites the descriptors while the journal says finished.               *)
(***************************************************************************)

Exact(P) == [i \in Items |-> <<P, i>>]

\* A journal that says finished records every item, beside this plan's
\* descriptors.
FinishedHolds ==
  journal # None /\ journal.finished =>
    /\ journal.done = Items
    /\ checksums = [plan |-> journal.plan, done |-> Items]
    /\ manifest = [plan |-> journal.plan, content |-> Exact(journal.plan)]

\* A build writes items only while some are missing, and the descriptors are
\* this plan's as soon as each of them is written.
MetadataHolds ==
  /\ mem # None /\ mem.finished => mem.done = Items
  /\ pc \in {"write", "record"} => ~mem.finished
  /\ pc \in {"manifest", "finish"} =>
       mem.done = Items /\ checksums = [plan |-> mem.plan, done |-> Items]
  /\ pc = "finish" => manifest = [plan |-> mem.plan, content |-> Exact(mem.plan)]

FinishedInv == DurableInv /\ FinishedHolds /\ MetadataHolds

\* A file that holds all of a plan is exactly that plan's content.
LEMMA WholeContent ==
  ASSUME TypeOK, NEW P, Holds(Items, P)
  PROVE  durable = Exact(P) /\ cache = Exact(P)
BY DEF TypeOK, Holds, Exact

LEMMA FinishedInvStep ==
  ASSUME FinishedInv, [Next]_vars, DurableInv'
  PROVE  FinishedInv'
<1> USE DEF FinishedInv, FinishedHolds, MetadataHolds, Exact, files, build, Idle
<1>a. /\ mem # None => mem \in Journals
      /\ journal # None => journal \in Journals
      /\ pc = "off" <=> mem = None
  BY DEF DurableInv, TypeOK
<1>1. ASSUME NEW P \in Plans, NEW resume \in BOOLEAN, Start(P, resume)
      PROVE  FinishedInv'
  <2>1. mem' = Loaded(P, resume) /\ pc' = "pick" /\ UNCHANGED <<journal, checksums, manifest>>
    BY <1>1 DEF Start
  <2>2. mem'.finished => mem'.done = Items
    BY <1>a, <2>1 DEF Loaded, Fresh
  <2> QED BY <2>1, <2>2
<1>2. CASE PickBatch
  <2>1. /\ mem # None /\ mem' = mem /\ pc' = "write" /\ mem.done # Items
        /\ UNCHANGED <<journal, checksums, manifest>>
    BY <1>2, <1>a DEF PickBatch, Pending
  <2> QED BY <2>1
<1>3. ASSUME NEW i \in Items, WriteItem(i) PROVE FinishedInv'
  BY <1>3 DEF WriteItem
<1>4. CASE SyncBatch BY <1>4 DEF SyncBatch
<1>5. CASE RecordBatch
  <2>1. /\ pc = "record" /\ pc' = "pick" /\ journal' = mem'
        /\ mem' = [mem EXCEPT !.done = @ \union batch]
    BY <1>5 DEF RecordBatch
  <2>2. mem'.finished = mem.finished /\ ~mem.finished
    BY <1>a, <2>1 DEF Journals
  <2> QED BY <2>1, <2>2
<1>6. CASE WriteChecksums
  <2>1. /\ mem # None /\ mem \in Journals /\ mem' = mem /\ pc' = "manifest"
        /\ checksums' = [plan |-> mem.plan, done |-> mem.done]
        /\ UNCHANGED <<journal, manifest>>
    BY <1>6, <1>a DEF WriteChecksums
  <2>2. mem.done = Items
    BY <1>6, <2>1 DEF WriteChecksums, Pending, Journals
  <2>3. journal # None => journal.plan = mem.plan
    BY <2>1 DEF DurableInv, OnePlanAtWork
  <2> QED BY <2>1, <2>2, <2>3
<1>7. CASE WriteManifest
  <2>1. /\ pc = "manifest" /\ mem # None /\ mem' = mem /\ pc' = "finish"
        /\ manifest' = [plan |-> mem.plan, content |-> cache]
        /\ UNCHANGED <<journal, checksums>>
    BY <1>7, <1>a DEF WriteManifest
  <2>2. cache = Exact(mem.plan)
    BY <2>1, WholeContent DEF DurableInv, MemHolds
  <2>3. journal # None => journal.plan = mem.plan
    BY <2>1 DEF DurableInv, OnePlanAtWork
  <2> QED BY <2>1, <2>2, <2>3
<1>8. CASE Finish
  <2>1. /\ pc = "finish" /\ mem # None /\ mem \in Journals
        /\ journal' = [mem EXCEPT !.finished = TRUE]
        /\ pc' = "off" /\ mem' = None /\ UNCHANGED <<checksums, manifest>>
    BY <1>8, <1>a DEF Finish
  <2>2. journal'.plan = mem.plan /\ journal'.done = mem.done
    BY <2>1 DEF Journals
  <2> QED BY <2>1, <2>2
<1>9. CASE Fail BY <1>9 DEF Fail
<1>10. CASE Crash BY <1>10 DEF Crash
<1>11. CASE UNCHANGED vars BY <1>11 DEF vars
<1> QED
  BY <1>1, <1>2, <1>3, <1>4, <1>5, <1>6, <1>7, <1>8, <1>9, <1>10, <1>11
  DEF Next, Progress

\* In such a directory a package whose journal says finished is whole, and its
\* descriptors describe the bytes that are on the disk.
THEOREM FinishedPackageIsWhole ==
  ASSUME SafeStarts PROVE Spec => []FinishedIsWhole
<1>1. Init => FinishedInv
  BY DurableInvInit DEF Init, FinishedInv, FinishedHolds, MetadataHolds
<1>2. FinishedInv /\ TypeOK' /\ [Next]_vars => FinishedInv'
  BY DurableInvStep, FinishedInvStep DEF FinishedInv
<1>3. FinishedInv => FinishedIsWhole
  <2> SUFFICES ASSUME FinishedInv, journal # None, journal.finished
               PROVE  /\ \A i \in Items : durable[i] = <<journal.plan, i>>
                      /\ checksums = [plan |-> journal.plan, done |-> Items]
                      /\ manifest = [plan |-> journal.plan, content |-> durable]
    BY DEF FinishedIsWhole
  <2>1. journal.done = Items /\ Holds(Items, journal.plan)
    BY DEF FinishedInv, FinishedHolds, DurableInv, JournalHolds
  <2>2. durable = Exact(journal.plan)
    BY <2>1, WholeContent DEF FinishedInv, DurableInv
  <2> QED BY <2>1, <2>2 DEF FinishedInv, FinishedHolds, Holds
<1> QED BY <1>1, <1>2, <1>3, TypeCorrect, PTL DEF Spec

\* In such a directory the journal tells the truth, of every item it records
\* and of the package it calls finished (BuildJournal, resume_status).
THEOREM JournalTellsTheTruth ==
  ASSUME SafeStarts PROVE Spec => []JournalIsTrue
<1>1. Spec => []JournaledIsDurable
  BY JournalSafe
<1>2. Spec => []FinishedIsWhole
  BY FinishedPackageIsWhole
<1>3. JournaledIsDurable /\ FinishedIsWhole => JournalIsTrue
  BY DEF JournalIsTrue
<1> QED BY <1>1, <1>2, <1>3, PTL

-----------------------------------------------------------------------------
(***************************************************************************)
(* Builds that are always resumed implement ResumableBuild.  The running   *)
(* build's journal is the one on disk, or there is none yet.               *)
(***************************************************************************)

AlwaysResumed == \A s \in Starts : s[2]

\* What is committed is what the journal records.
Recorded == IF journal = None THEN {} ELSE journal.done

SameJournal ==
  mem # None => IF journal = None THEN mem.done = {} /\ ~mem.finished
                ELSE mem = journal

ResumeInv ==
  /\ FinishedInv /\ SameJournal
  /\ pc \in {"write", "record"} => batch \intersect mem.done = {}

LEMMA ResumeInvStep ==
  ASSUME AlwaysResumed, ResumeInv, [Next]_vars, FinishedInv'
  PROVE  ResumeInv'
<1> USE DEF ResumeInv, SameJournal, files, build, Idle
<1>a. /\ mem # None => mem \in Journals
      /\ journal # None => journal \in Journals
      /\ pc = "off" <=> mem = None
      /\ None \notin Journals
  BY PackageWriterAssumption DEF FinishedInv, DurableInv, TypeOK, Journals
<1>1. ASSUME NEW P \in Plans, NEW resume \in BOOLEAN, Start(P, resume)
      PROVE  ResumeInv'
  <2>1. /\ mem' = Loaded(P, resume) /\ pc' = "pick" /\ journal' = journal
        /\ <<P, resume>> \in Starts
    BY <1>1 DEF Start
  <2>2. resume BY <2>1 DEF AlwaysResumed
  <2> QED BY <2>1, <2>2 DEF Loaded, Fresh
<1>2. CASE PickBatch
  <2>1. /\ mem' = mem /\ journal' = journal /\ batch' = NextBatch /\ mem # None
    BY <1>2, <1>a DEF PickBatch
  <2>2. NextBatch \subseteq Items \ mem.done
    BY <1>a, <2>1, BatchIsPending DEF Journals
  <2> QED BY <2>1, <2>2
<1>3. ASSUME NEW i \in Items, WriteItem(i) PROVE ResumeInv'
  BY <1>3 DEF WriteItem
<1>4. CASE SyncBatch BY <1>4 DEF SyncBatch
<1>5. CASE RecordBatch
  <2>1. pc' = "pick" /\ journal' = mem' /\ mem # None
        /\ mem' = [mem EXCEPT !.done = @ \union batch]
    BY <1>5, <1>a DEF RecordBatch
  <2>2. mem' # None
    BY <1>a, <2>1 DEF FinishedInv, DurableInv, TypeOK
  <2> QED BY <2>1, <2>2
<1>6. CASE WriteChecksums BY <1>6 DEF WriteChecksums
<1>7. CASE WriteManifest BY <1>7 DEF WriteManifest
<1>8. CASE Finish BY <1>8 DEF Finish
<1>9. CASE Fail BY <1>9 DEF Fail
<1>10. CASE Crash BY <1>10 DEF Crash
<1>11. CASE UNCHANGED vars BY <1>11 DEF vars
<1> QED
  BY <1>1, <1>2, <1>3, <1>4, <1>5, <1>6, <1>7, <1>8, <1>9, <1>10, <1>11
  DEF Next, Progress

LEMMA ResumeInvInit == Init => ResumeInv
BY DurableInvInit DEF Init, ResumeInv, SameJournal, FinishedInv, FinishedHolds, MetadataHolds

LEMMA AlwaysResumedIsSafe == AlwaysResumed => SafeStarts
BY DEF AlwaysResumed, SafeStarts

LEMMA ResumeInvAlways == ASSUME AlwaysResumed PROVE Spec => []ResumeInv
<1>1. ResumeInv /\ TypeOK' /\ [Next]_vars => ResumeInv'
  BY DurableInvStep, FinishedInvStep, ResumeInvStep, AlwaysResumedIsSafe
  DEF ResumeInv, FinishedInv
<1> QED BY <1>1, ResumeInvInit, TypeCorrect, PTL DEF Spec

\* A resumed build writes no item the journal has recorded.
THEOREM WorkIsNotRepeated ==
  ASSUME AlwaysResumed PROVE Spec => CommittedIsNotRepeated
<1> DEFINE NoneRepeated ==
      \A i \in Items : pc = "write" /\ i \in todo /\ i \notin todo' =>
        journal = None \/ i \notin journal.done
<1>1. ResumeInv => NoneRepeated
  <2> SUFFICES ASSUME ResumeInv, NEW i \in Items, pc = "write", i \in todo, journal # None
               PROVE  i \notin journal.done
    OBVIOUS
  <2>1. mem # None /\ i \in batch BY DEF ResumeInv, FinishedInv, DurableInv, TypeOK
  <2>2. mem = journal BY <2>1 DEF ResumeInv, SameJournal
  <2> QED BY <2>1, <2>2 DEF ResumeInv
<1>2. ResumeInv => [NoneRepeated]_vars
  BY <1>1
<1> QED BY <1>2, ResumeInvAlways, PTL DEF CommittedIsNotRepeated

-----------------------------------------------------------------------------
(* The refinement, action by action: only RecordBatch commits and only     *)
(* Finish publishes.                                                       *)

CommittedItems ==
  IF journal = None THEN {} ELSE {i \in journal.done : durable[i] = <<journal.plan, i>>}
SaysFinished == journal # None /\ journal.finished

LEMMA CommittedIsRecorded ==
  ASSUME DurableInv
  PROVE  CommittedItems = Recorded
BY DEF DurableInv, JournalHolds, Holds, CommittedItems, Recorded

LEMMA BuildStep ==
  ASSUME ResumeInv, ResumeInv', [Next]_vars
  PROVE  [Build!Commit \/ Build!Publish]_<<CommittedItems, SaysFinished>>
<1>a. CommittedItems = Recorded /\ CommittedItems' = Recorded'
  <2>1. DurableInv /\ DurableInv' BY DEF ResumeInv, FinishedInv
  <2>2. CommittedItems = Recorded BY <2>1, CommittedIsRecorded
  <2>3. CommittedItems' = Recorded'
    BY <2>1 DEF DurableInv, JournalHolds, Holds, CommittedItems, Recorded
  <2> QED BY <2>2, <2>3
<1>b. /\ mem # None => mem \in Journals
      /\ journal # None => journal \in Journals
      /\ pc = "off" <=> mem = None
      /\ batch \subseteq Items
  BY DEF ResumeInv, FinishedInv, DurableInv, TypeOK
<1>1. CASE journal' = journal
  BY <1>1, <1>a DEF Recorded, SaysFinished
<1>2. CASE RecordBatch
  <2>1. /\ pc = "record" /\ mem # None /\ journal' = mem'
        /\ mem' = [mem EXCEPT !.done = @ \union batch]
    BY <1>2, <1>b DEF RecordBatch
  <2>2. /\ journal'.done = mem.done \union batch /\ journal'.finished = mem.finished
        /\ mem.done \subseteq Items
    BY <1>b, <2>1 DEF Journals
  <2>3. pc' = "pick" /\ journal' # None
    BY <1>2, <2>1 DEF RecordBatch, ResumeInv, FinishedInv, DurableInv, TypeOK
  <2>4. Recorded = mem.done /\ SaysFinished = mem.finished
    BY <1>b, <2>1 DEF ResumeInv, SameJournal, Recorded, SaysFinished, Journals
  <2>5. batch \intersect mem.done = {} BY <2>1 DEF ResumeInv
  <2>6. Recorded' = Recorded \union batch /\ batch \in SUBSET (Items \ Recorded)
    BY <1>b, <2>2, <2>3, <2>4, <2>5 DEF Recorded
  <2>7. SaysFinished' = SaysFinished
    BY <2>2, <2>3, <2>4 DEF SaysFinished
  <2> QED BY <1>a, <2>6, <2>7 DEF Build!Commit, CommittedItems, SaysFinished
<1>3. CASE Finish
  <2>1. /\ pc = "finish" /\ mem # None /\ mem \in Journals
        /\ journal' = [mem EXCEPT !.finished = TRUE]
    BY <1>3, <1>b DEF Finish
  <2>2. mem.done = Items
    BY <2>1 DEF ResumeInv, FinishedInv, MetadataHolds
  <2>3. journal' # None /\ journal'.done = Items /\ journal'.finished = TRUE
    BY <2>1, <2>2, PackageWriterAssumption DEF Journals
  <2>4. Recorded = Items
    BY <2>1, <2>2 DEF ResumeInv, SameJournal, Recorded
  <2>5. Recorded' = Items /\ SaysFinished' = TRUE
    BY <2>3 DEF Recorded, SaysFinished
  <2> QED BY <1>a, <2>4, <2>5 DEF Build!Publish, CommittedItems, SaysFinished
<1> QED
  BY <1>1, <1>2, <1>3
  DEF Next, Progress, Start, PickBatch, WriteItem, SyncBatch, WriteChecksums,
      WriteManifest, Fail, Crash, vars, files

\* Builds that are always resumed keep the promise of ResumableBuild: what is
\* committed stays committed, and only whole packages are published.
THEOREM ResumedBuildsImplement ==
  ASSUME AlwaysResumed PROVE Spec => ImplementsResumableBuild
<1>1. Init => Build!BuildInit
  BY DEF Init, Build!BuildInit
<1>2. ResumeInv /\ ResumeInv' /\ [Next]_vars
      => [Build!Commit \/ Build!Publish]_(Build!buildVars)
  BY BuildStep DEF Build!buildVars, CommittedItems, SaysFinished
<1> QED
  BY <1>1, <1>2, ResumeInvAlways, PTL
  DEF Spec, ImplementsResumableBuild, Build!BuildSpec

-----------------------------------------------------------------------------
(***************************************************************************)
(* What a crash can cost.  The next batch depends on what is recorded and  *)
(* not on who builds: a build that starts again writes the slots the       *)
(* interrupted one was writing, so nothing is written outside of it.       *)
(***************************************************************************)

\* A batch has no more than n items.
LEMMA BatchIsSmall ==
  ASSUME NEW S \in SUBSET Items, NEW n \in Nat
  PROVE  Cardinality(FirstOf(S, n)) <= n
<1> DEFINE F == FirstOf(S, n)
           Before(i) == {j \in S : j < i}
<1>1. F \subseteq S /\ F \subseteq Nat /\ S \subseteq Nat BY PackageWriterAssumption DEF FirstOf
<1>2. IsFiniteSet(S) BY PackageWriterAssumption, FS_Subset
<1>3. IsFiniteSet(F) BY <1>1, <1>2, FS_Subset
<1>4. \A i \in F : Cardinality(Before(i)) < n BY DEF FirstOf
<1> SUFFICES Cardinality(F) <= n OBVIOUS
<1> HIDE DEF F
<1>5. CASE F = {}
  <2>1. Cardinality(F) = 0 BY <1>5, FS_EmptySet
  <2> QED BY <2>1
<1>6. CASE F # {}
  <2>1. PICK m \in F : \A i \in F : i <= m BY <1>1, <1>3, <1>6, GreatestNumber
  <2> DEFINE b == Before(m)
  <2>2. F \subseteq b \union {m} BY <1>1, <2>1
  <2>3. b \subseteq S /\ Cardinality(b) < n BY <1>4, <2>1
  <2> HIDE DEF b
  <2>4. IsFiniteSet(b) /\ Cardinality(b) \in Nat BY <1>2, <2>3, FS_Subset, FS_CardinalityType
  <2>5. /\ IsFiniteSet(b \union {m})
        /\ Cardinality(b \union {m}) = IF m \in b THEN Cardinality(b) ELSE Cardinality(b) + 1
    BY <2>4, FS_AddElement
  <2>6. Cardinality(F) <= Cardinality(b \union {m}) BY <2>2, <2>5, FS_Subset
  <2>7. Cardinality(F) \in Nat /\ Cardinality(b \union {m}) \in Nat
    BY <1>3, <2>5, FS_CardinalityType
  <2> QED BY <2>3, <2>4, <2>5, <2>6, <2>7
<1> QED BY <1>5, <1>6

\* The batch after the items in done, as PickBatch would choose it.
BatchAfter(done) ==
  LET rest == Items \ done
      r == Region[Min(rest)]
  IN  FirstOf({i \in rest : Region[i] = r}, BatchSize[r])

\* A slot that holds an item of some plan is recorded or of the next batch.
Contained(file) ==
  \A i \in Items : (\E P \in Plans : file[i] = <<P, i>>) => i \in Recorded \union BatchAfter(Recorded)

RiskInv ==
  /\ Contained(cache) /\ Contained(durable)
  /\ pc \in {"write", "record"} => batch = BatchAfter(Recorded)

LEMMA RiskStep ==
  ASSUME ResumeInv, ResumeInv', RiskInv, [Next]_vars
  PROVE  RiskInv'
<1> USE DEF files, build, Idle
<1>a. /\ mem # None => mem \in Journals /\ mem.done = Recorded
      /\ pc = "off" <=> mem = None
      /\ batch \subseteq Items /\ todo \subseteq batch
      /\ cache \in [Items -> Contents] /\ durable \in [Items -> Contents]
  BY DEF ResumeInv, SameJournal, FinishedInv, DurableInv, TypeOK, Recorded
<1>u. ASSUME UNCHANGED journal PROVE Recorded' = Recorded BY <1>u DEF Recorded
<1>f. ASSUME UNCHANGED <<durable, cache, journal>>,
             pc' \in {"write", "record"} => batch' = BatchAfter(Recorded)
      PROVE  RiskInv'
  BY <1>f, <1>u DEF RiskInv, Contained
<1>1. ASSUME NEW P \in Plans, NEW resume \in BOOLEAN, Start(P, resume)
      PROVE  RiskInv'
  BY <1>1, <1>f DEF Start
<1>2. CASE PickBatch
  <2>1. NextBatch = BatchAfter(Recorded)
    BY <1>2, <1>a DEF PickBatch, NextBatch, BatchAfter, Pending
  <2> QED BY <2>1, <1>2, <1>f DEF PickBatch
<1>3. ASSUME NEW i \in Items, WriteItem(i) PROVE RiskInv'
  <2>1. /\ pc = "write" /\ pc' = "write" /\ i \in todo /\ cache' = [cache EXCEPT ![i] = <<mem.plan, i>>]
        /\ UNCHANGED <<durable, journal, batch>>
    BY <1>3 DEF WriteItem
  <2>2. i \in BatchAfter(Recorded) /\ batch = BatchAfter(Recorded) BY <1>a, <2>1 DEF RiskInv
  <2>3. \A j \in Items : j # i => cache'[j] = cache[j] BY <2>1, <1>a
  <2>4. Contained(cache)' BY <2>1, <2>2, <2>3, <1>u DEF RiskInv, Contained
  <2>5. Contained(durable)' BY <2>1, <1>u DEF RiskInv, Contained
  <2> QED BY <2>1, <2>2, <2>4, <2>5, <1>u DEF RiskInv
<1>4. CASE SyncBatch
  <2>1. /\ pc = "write" /\ UNCHANGED <<cache, journal, batch>>
        /\ \A i \in Items : durable'[i] = cache[i] \/ durable'[i] = durable[i]
    BY <1>4 DEF SyncBatch
  <2> QED BY <2>1, <1>u DEF RiskInv, Contained
<1>5. CASE RecordBatch
  <2>1. /\ pc = "record" /\ pc' = "pick" /\ journal' = mem' /\ mem # None
        /\ mem' = [mem EXCEPT !.done = @ \union batch]
        /\ UNCHANGED <<durable, cache>>
    BY <1>5, <1>a DEF RecordBatch
  <2>2. journal' # None BY <2>1, <1>5 DEF ResumeInv, FinishedInv, DurableInv, TypeOK, RecordBatch
  <2>3. journal'.done = mem.done \union batch BY <2>1, <1>a DEF Journals
  <2>4. Recorded' = Recorded \union BatchAfter(Recorded)
    BY <2>1, <2>2, <2>3, <1>a DEF Recorded, RiskInv
  <2> QED BY <2>1, <2>4 DEF RiskInv, Contained
<1>6. CASE WriteChecksums BY <1>6, <1>f DEF WriteChecksums
<1>7. CASE WriteManifest BY <1>7, <1>f DEF WriteManifest
<1>8. CASE Finish
  <2>1. /\ pc' = "off" /\ mem # None /\ journal' = [mem EXCEPT !.finished = TRUE]
        /\ UNCHANGED <<durable, cache>>
    BY <1>8, <1>a DEF Finish
  <2>2. journal'.done = mem.done /\ journal' \in Journals BY <2>1, <1>a DEF Journals
  <2>3. journal' # None BY <2>2, PackageWriterAssumption DEF Journals
  <2>4. Recorded' = Recorded BY <2>2, <2>3, <2>1, <1>a DEF Recorded
  <2> QED BY <2>1, <2>4 DEF RiskInv, Contained
<1>9. CASE Fail BY <1>9, <1>f DEF Fail
<1>10. CASE Crash
  <2>1. /\ pc' = "off" /\ UNCHANGED journal /\ cache' = durable'
        /\ \A i \in Items : durable'[i] \in {Torn, durable[i], cache[i]}
    BY <1>10 DEF Crash
  <2>2. \A i \in Items, P \in Plans : Torn # <<P, i>> BY PackageWriterAssumption
  <2> QED BY <2>1, <2>2, <1>u DEF RiskInv, Contained
<1>11. CASE UNCHANGED vars BY <1>11, <1>f DEF vars, RiskInv
<1> QED
  BY <1>1, <1>2, <1>3, <1>4, <1>5, <1>6, <1>7, <1>8, <1>9, <1>10, <1>11
  DEF Next, Progress

\* Whatever fails or crashes, and whichever of the plans is built, what has
\* been written and is not in the journal is one batch of one region.
THEOREM CrashCostsOneBatch ==
  ASSUME AlwaysResumed PROVE Spec => []OneBatchAtRisk
<1>1. Init => RiskInv
  <2> SUFFICES ASSUME Init PROVE RiskInv OBVIOUS
  <2>1. \A i \in Items, P \in Plans : Empty # <<P, i>> BY PackageWriterAssumption
  <2> QED BY <2>1 DEF Init, RiskInv, Contained
<1>2. ResumeInv /\ ResumeInv' /\ RiskInv /\ [Next]_vars => RiskInv' BY RiskStep
<1>3. ResumeInv /\ RiskInv => OneBatchAtRisk
  <2> SUFFICES ASSUME ResumeInv, RiskInv PROVE OneBatchAtRisk OBVIOUS
  <2> DEFINE risk == {i \in Items : \E P \in Plans : cache[i] = <<P, i>>
                                      /\ (journal = None \/ i \notin journal.done)}
             rest == Items \ Recorded
             r == Region[Min(rest)]
             S == {i \in rest : Region[i] = r}
  <2>1. risk \subseteq BatchAfter(Recorded) /\ risk \subseteq rest
    BY DEF RiskInv, Contained, Recorded
  <2>2. risk \subseteq S /\ BatchAfter(Recorded) = FirstOf(S, BatchSize[r])
    BY <2>1 DEF BatchAfter, FirstOf
  <2> SUFFICES \E q \in Regions : Cardinality(risk) <= BatchSize[q] /\ \A i \in risk : Region[i] = q
    BY DEF OneBatchAtRisk
  <2> HIDE DEF risk
  <2>3. CASE rest = {}
    <3>1. risk = {} /\ "dense" \in Regions /\ BatchSize["dense"] \in Nat
      BY <2>1, <2>3, PackageWriterAssumption DEF Regions
    <3>2. Cardinality(risk) = 0 BY <3>1, FS_EmptySet
    <3> QED BY <3>1, <3>2
  <2>4. CASE rest # {}
    <3>1. Min(rest) \in rest BY <2>4, MinFacts, PackageWriterAssumption
    <3>2. r \in Regions /\ BatchSize[r] \in Nat BY <3>1, PackageWriterAssumption
    <3>3. S \in SUBSET Items OBVIOUS
    <3> HIDE DEF S, r
    <3>4. Cardinality(FirstOf(S, BatchSize[r])) <= BatchSize[r] BY <3>2, <3>3, BatchIsSmall
    <3>5. FirstOf(S, BatchSize[r]) \subseteq Items BY <3>3 DEF FirstOf
    <3>6. IsFiniteSet(FirstOf(S, BatchSize[r])) BY <3>5, PackageWriterAssumption, FS_Subset
    <3>7. Cardinality(risk) <= Cardinality(FirstOf(S, BatchSize[r])) /\ IsFiniteSet(risk)
      BY <2>1, <2>2, <3>6, FS_Subset
    <3>8. Cardinality(risk) \in Nat /\ Cardinality(FirstOf(S, BatchSize[r])) \in Nat
      BY <3>6, <3>7, FS_CardinalityType
    <3>9. Cardinality(risk) <= BatchSize[r] BY <3>2, <3>4, <3>7, <3>8
    <3>10. \A i \in risk : Region[i] = r BY <2>2 DEF S
    <3> QED BY <3>2, <3>9, <3>10
  <2> QED BY <2>3, <2>4
<1> QED BY <1>1, <1>2, <1>3, ResumeInvAlways, PTL DEF Spec
=============================================================================
