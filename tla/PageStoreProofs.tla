-------------------------- MODULE PageStoreProofs --------------------------
(***************************************************************************)
(* Proofs about PageStore, for any pages, callers, slices, block counts,   *)
(* sizes and budgets.  The callers keep the discipline that no two of them *)
(* fault in the same page at once (Shared = {}).                           *)
(***************************************************************************)
EXTENDS PageStore, DataTheorems

-----------------------------------------------------------------------------
(***************************************************************************)
(* The inductive invariant of the store's bookkeeping: shapes of the       *)
(* variables, who holds the lock, who is alone on a page, what a worker    *)
(* knows of its file, who leases a page.                                   *)
(***************************************************************************)

Blk == {d \in Seq(0..SliceLen) : Len(d) <= SliceLen}
Files == {f \in [data : Blk, synced : Nat] : f.synced <= Len(f.data)}
Contents == [Slices -> Blk]
Records == Blk \union {None}
Threads == [pc : PCs, page : Pages \union {None},
            back : {None, "resolve", "reserve", "commit"},
            victim : Pages \union {None}, scan : SUBSET Slices,
            copy : [Slices -> Records], cancel : BOOLEAN]
Jobs == [st : WorkStates, append : BOOLEAN, at : 0..SliceLen]

DiskShape ==
  /\ page \in [Pages -> Contents \union {None}]
  /\ manifest \in [Pages -> Contents \union {None}]
  /\ index \in Distinct(Pages)
PartialShape ==
  /\ part \in [Pages -> [Slices -> Files \union {None}]]
  /\ journal \in [Pages -> [Slices -> Records]]
  /\ pdir \subseteq Pages
MemoryShape ==
  /\ lock \in Actors \union {None}
  /\ leases \in [Pages -> Nat]
  /\ reserved \subseteq Pages /\ IsFiniteSet(reserved)
  /\ calls \in Nat /\ calls <= MaxCalls
ThreadShape == th \in [Actors -> Threads]
JobShape == wk \in [Actors -> [Slices -> Jobs]]

Shape == DiskShape /\ PartialShape /\ MemoryShape /\ ThreadShape /\ JobShape

Dropping == {"dropPage", "dropManifest", "dropRow"}
Locked == Dropping \union {"fit", "assemble", "manifest", "index", "clean"}

LockInv == \A a \in Actors : lock = a <=> th[a].pc \in Locked
IdleInv == \A a \in Actors : At(a, "idle") <=> My(a) = None
Alone ==
  \A a, b \in Actors : a # b /\ My(a) = My(b) /\ My(a) # None => At(a, "held") /\ At(b, "held")

\* A worker runs only while its call fetches; what it found on the disk, and
\* where it stands in the file it has open, is true of the file.
WorkOK(a, s) ==
  /\ State(a, s) # "off" => At(a, "fetch")
  /\ State(a, s) # "orphan"
  /\ State(a, s) = "found" =>
       /\ wk[a][s].at = SizeOf(My(a), s) /\ wk[a][s].at < SliceLen
       /\ wk[a][s].append <=> wk[a][s].at > 0
  /\ State(a, s) = "open" => Present(My(a), s) /\ Len(Data(My(a), s)) = wk[a][s].at
WorkInv == \A a \in Actors, s \in Slices : WorkOK(a, s)

VictimInv == \A a \in Actors : th[a].pc \in Dropping =>
               th[a].victim \in Pages /\ leases[th[a].victim] = 0

HeldOK(a) ==
  /\ th[a].pc \in {"index", "clean", "held"} =>
       page[My(a)] # None /\ manifest[My(a)] = page[My(a)]
  /\ At(a, "manifest") => page[My(a)] # None
HeldInv == \A a \in Actors : HeldOK(a)

Holders(p) == {a \in Actors : My(a) = p /\ th[a].pc \in {"clean", "held"}}
LeaseInv == \A p \in Pages : leases[p] = Cardinality(Holders(p))

Engaged == {a \in Actors : ~At(a, "idle")}
CountInv == Cardinality(Engaged) <= calls

ReserveInv ==
  \A a \in Actors : th[a].pc \in {"prepare", "inspect", "fetch"} => My(a) \in reserved

StoreInv == 
  /\ Shape /\ LockInv /\ IdleInv /\ Alone /\ WorkInv /\ VictimInv
  /\ HeldInv /\ LeaseInv /\ CountInv /\ ReserveInv

\* The invariant of the contents: whatever is in a partial file, its record or
\* a scan's copy of the record are the source's bytes, from the first on.
Exact(d) == \A i \in 1..Len(d) : d[i] = i
FilesExact ==
  /\ \A p \in Pages, s \in Slices :
       /\ part[p][s] # None => Exact(part[p][s].data)
       /\ journal[p][s] # None => Exact(journal[p][s])
  /\ \A a \in Actors, s \in Slices : th[a].copy[s] # None => Exact(th[a].copy[s])
PagesExact ==
  /\ \A p \in Pages : page[p] \in {None, RightPage, Rotten} /\ manifest[p] \in {None, RightPage}
  /\ \A a \in Actors : At(a, "manifest") => page[My(a)] = RightPage

\* The invariant of the progress: a record is of bytes that are durable, and
\* what is not durable is still being written.
FileOK(p, s) ==
  /\ journal[p][s] # None =>
       part[p][s] # None /\ Len(journal[p][s]) \in 1..part[p][s].synced
  /\ part[p][s] # None =>
       \/ part[p][s].synced = Len(part[p][s].data)
       \/ \E a \in Actors : My(a) = p /\ State(a, s) = "open"
ScanOK(a, s) == At(a, "inspect") =>
  LET p == My(a) IN
    /\ journal[p][s] # None => th[a].copy[s] = journal[p][s]
    /\ th[a].copy[s] # None => part[p][s] # None /\ Len(th[a].copy[s]) \in 1..part[p][s].synced
ProgressInv == \A s \in Slices : (\A p \in Pages : FileOK(p, s)) /\ (\A a \in Actors : ScanOK(a, s))

\* The invariant of the budget: a page that is published has a row, or its
\* commit is about to write it; what is being removed has lost its page file
\* first; and whoever commits a page has made room for it.
Committing == {"assemble", "manifest", "index"}
RowInv == \A p \in Pages : page[p] # None /\ manifest[p] # None =>
            \/ p \in ToSet(index)
            \/ \E a \in Actors : My(a) = p /\ th[a].pc \in {"manifest", "index"}
GoneInv == \A a \in Actors : th[a].pc \in {"dropManifest", "dropRow"} => page[th[a].victim] = None
RoomInv == \A a \in Actors : th[a].pc \in Committing => Fits(My(a))
BudgetInv == BudgetHonoured /\ crashes = 0 /\ RowInv /\ GoneInv /\ RoomInv


-----------------------------------------------------------------------------
(* Facts the steps share.                                                  *)

\* Only thread a may change.
Others(a) == \A b \in Actors \ {a} : th'[b] = th[b]

\* A thread that goes on with its work.
LEMMA GotoFacts ==
  ASSUME th \in [Actors -> Threads], NEW a \in Actors, NEW next \in PCs, Goto(a, next)
  PROVE  /\ ThreadShape' /\ Others(a)
         /\ My(a)' = My(a) /\ th'[a].victim = th[a].victim /\ th'[a].pc = next
<1> DEFINE r == [th[a] EXCEPT !.pc = next]
<1>1. r \in Threads BY DEF Threads
<1>2. r.pc = next /\ r.page = th[a].page /\ r.victim = th[a].victim
  <2>1. th[a] \in Threads OBVIOUS
  <2> QED BY <2>1 DEF Threads
<1>3. th' = [th EXCEPT ![a] = r] BY DEF Goto
<1> HIDE DEF r
<1> QED BY <1>1, <1>2, <1>3 DEF ThreadShape, Others, My

LEMMA IdleShape == Idle \in Threads /\ Idle.pc = "idle" /\ Idle.page = None
BY DEF Idle, Threads, NoEntries, Records, PCs

LEMMA NoWorkShape == NoWork \in [Slices -> Jobs] /\ \A s \in Slices : NoWork[s].st = "off"
BY PageStoreAssumption DEF NoWork, Jobs, WorkStates

LEMMA NoneIsFresh ==
  /\ None \notin Pages /\ None \notin Actors /\ None \notin Blk
  /\ None \notin Contents /\ None \notin Files
<1>1. 0..SliceLen \subseteq Nat BY PageStoreAssumption
<1>2. Seq(0..SliceLen) \subseteq Seq(Nat) BY <1>1, SeqMonotonic
<1>3. Blk \subseteq Seq(Nat) BY <1>2 DEF Blk
<1>4. Contents \subseteq [Slices -> Seq(Nat)] BY <1>3 DEF Contents
<1>5. Files \subseteq [data : Seq(Nat), synced : Nat] BY <1>3 DEF Files
<1> QED BY <1>3, <1>4, <1>5, PageStoreAssumption

\* A row deleted, and one put at the end.
LEMMA RowFacts ==
  ASSUME index \in Distinct(Pages), NEW p \in Pages
  PROVE  /\ Without(p) \in Distinct(Pages) /\ ToSet(Without(p)) = ToSet(index) \ {p}
         /\ Touched(p) \in Distinct(Pages) /\ ToSet(Touched(p)) = ToSet(index) \union {p}
<1> index \in Seq(Pages) /\ DOMAIN index = 1..Len(index) BY DEF Distinct
<1>1. Without(p) \in Distinct(Pages) /\ ToSet(Without(p)) = ToSet(index) \ {p}
  <2>1. CASE Contains(index, p)
    <3> DEFINE n == CHOOSE i \in DOMAIN index : index[i] = p
    <3>1. n \in DOMAIN index /\ index[n] = p BY <2>1 DEF Contains
    <3>2. Without(p) = RemoveAt(index, n) BY <2>1 DEF Without
    <3> HIDE DEF n
    <3> QED BY <3>1, <3>2, RemoveAtFacts
  <2>2. CASE ~Contains(index, p)
    <3>1. p \notin ToSet(index) BY <2>2 DEF Contains, ToSet
    <3>2. Without(p) = index BY <2>2 DEF Without
    <3> QED BY <3>1, <3>2
  <2> QED BY <2>1, <2>2
<1>2. p \notin ToSet(Without(p)) BY <1>1
<1>3. /\ Append(Without(p), p) \in Distinct(Pages)
      /\ ToSet(Append(Without(p), p)) = ToSet(Without(p)) \union {p}
  BY <1>1, <1>2, AppendFacts
<1> QED BY <1>1, <1>3 DEF Touched

LEMMA HoldersAreFinite ==
  ASSUME NEW p PROVE IsFiniteSet(Holders(p)) /\ Cardinality(Holders(p)) \in Nat
<1>1. Holders(p) \in SUBSET Actors BY DEF Holders
<1> QED BY <1>1, PageStoreAssumption, FS_Subset, FS_CardinalityType

\* Nobody holds a page that is not leased.
LEMMA UnleasedIsUnheld ==
  ASSUME LeaseInv, NEW p \in Pages, leases[p] = 0 PROVE Holders(p) = {}
BY HoldersAreFinite, FS_EmptySet DEF LeaseInv

\* The lock, the threads' pages and the number of calls, when thread a takes a
\* step and keeps its page or becomes idle.
LEMMA ControlStep ==
  ASSUME StoreInv, ThreadShape', NEW a \in Actors, Others(a), ~At(a, "idle"), calls' = calls,
         \/ th'[a] = Idle
         \/ ~At(a, "held") /\ My(a)' = My(a) /\ th'[a].pc # "idle",
         \/ lock' = lock /\ (th'[a].pc \in Locked <=> th[a].pc \in Locked)
         \/ lock' = None /\ th[a].pc \in Locked /\ th'[a].pc \notin Locked
         \/ lock = None /\ lock' = a /\ th'[a].pc \in Locked
  PROVE  LockInv' /\ IdleInv' /\ Alone' /\ CountInv'
<1>1. LockInv' BY NoneIsFresh, IdleShape DEF LockInv, StoreInv, Others
<1>2. IdleInv' BY IdleShape DEF IdleInv, StoreInv, Others, At, My
<1>3. Alone' BY IdleShape DEF Alone, IdleInv, StoreInv, Others, At, My
<1>4. CountInv'
  <2>1. Engaged' \subseteq Engaged BY DEF Engaged, Others, At
  <2>2. Engaged \in SUBSET Actors BY DEF Engaged
  <2>3. IsFiniteSet(Engaged) /\ Cardinality(Engaged) \in Nat
    BY <2>2, PageStoreAssumption, FS_Subset, FS_CardinalityType
  <2>4. Cardinality(Engaged') \in Nat /\ Cardinality(Engaged') <= Cardinality(Engaged)
    BY <2>1, <2>3, FS_Subset, FS_CardinalityType
  <2>5. Cardinality(Engaged) <= calls /\ calls \in Nat BY DEF StoreInv, CountInv, Shape, MemoryShape
  <2>6. Cardinality(Engaged') <= calls' BY <2>3, <2>4, <2>5
  <2> QED BY <2>6 DEF CountInv
<1> QED BY <1>1, <1>2, <1>3, <1>4

\* Another thread that is not holding a page is on a page of its own.
LEMMA ApartFrom ==
  ASSUME StoreInv, NEW a \in Actors, NEW b \in Actors, a # b, ~At(a, "idle"),
         ~At(a, "held") \/ ~At(b, "held")
  PROVE  My(a) \in Pages /\ My(b) # My(a)
<1>1. My(a) # None BY DEF StoreInv, IdleInv
<1>2. My(a) \in Pages \union {None} BY DEF StoreInv, Shape, ThreadShape, Threads, My
<1> QED BY <1>1, <1>2 DEF StoreInv, Alone

LEMMA OwnPage == ASSUME StoreInv, NEW a \in Actors, ~At(a, "idle") PROVE My(a) \in Pages
<1>1. My(a) # None BY DEF StoreInv, IdleInv
<1>2. My(a) \in Pages \union {None} BY DEF StoreInv, Shape, ThreadShape, Threads, My
<1> QED BY <1>1, <1>2

\* The workers, when thread a takes a step that leaves the files of other pages
\* and the workers of other threads alone.
LEMMA WorkStep ==
  ASSUME StoreInv, NEW a \in Actors, Others(a), ~At(a, "idle"), ~At(a, "held"),
         \A p \in Pages \ {My(a)} : part'[p] = part[p],
         \A b \in Actors \ {a} : wk'[b] = wk[b],
         \A s \in Slices : WorkOK(a, s)'
  PROVE  WorkInv'
<1> SUFFICES ASSUME NEW b \in Actors, NEW s \in Slices, b # a PROVE WorkOK(b, s)' BY DEF WorkInv
<1>1. WorkOK(b, s) BY DEF StoreInv, WorkInv
<1>2. wk'[b] = wk[b] /\ th'[b] = th[b] BY DEF Others
<1>3. CASE At(b, "fetch")
  <2>1. ~At(b, "idle") BY <1>3 DEF At
  <2>2. My(b) \in Pages /\ My(b) # My(a) BY <2>1, OwnPage, ApartFrom
  <2>3. part'[My(b)] = part[My(b)] BY <2>2
  <2> QED BY <1>1, <1>2, <2>3 DEF WorkOK, State, At, My, SizeOf, Present, Data
<1>4. CASE ~At(b, "fetch") BY <1>1, <1>2, <1>4 DEF WorkOK, State, At
<1> QED BY <1>3, <1>4

LEMMA JobsAreOff ==
  ASSUME StoreInv, NEW a \in Actors, ~At(a, "fetch") PROVE \A s \in Slices : State(a, s) = "off"
BY DEF StoreInv, WorkInv, WorkOK

\* Leases, when thread a holds after the step what it held before.
LEMMA LeaseStep ==
  ASSUME StoreInv, NEW a \in Actors, Others(a), leases' = leases,
         \/ My(a)' = My(a) /\ (th'[a].pc \in {"clean", "held"} <=> th[a].pc \in {"clean", "held"})
         \/ th'[a].pc \notin {"clean", "held"} /\ th[a].pc \notin {"clean", "held"}
  PROVE  LeaseInv'
<1>1. \A p \in Pages : Holders(p)' = Holders(p) BY DEF Holders, Others, My
<1> QED BY <1>1 DEF LeaseInv, StoreInv

\* A step of thread a that neither starts nor ends a hold on a page.
LEMMA CallStep ==
  ASSUME StoreInv, NEW a \in Actors, Others(a),
         ~At(a, "idle"), ~At(a, "held"), ~At(a, "clean"),
         th'[a] = Idle \/ My(a)' = My(a),
         th'[a].pc \notin {"clean", "held"},
         \A p \in Pages \ {My(a)} : part'[p] = part[p],
         leases' = leases,
         \A b \in Actors \ {a} : wk'[b] = wk[b],
         \A s \in Slices : WorkOK(a, s)',
         \A p \in reserved \ {My(a)} : p \in reserved',
         th'[a].pc \in {"prepare", "inspect", "fetch"} => My(a) \in reserved',
         th'[a].pc \in Dropping => th'[a].victim \in Pages /\ leases[th'[a].victim] = 0
  PROVE  WorkInv' /\ VictimInv' /\ LeaseInv' /\ ReserveInv'
<1>1. WorkInv' BY WorkStep
<1>2. VictimInv' BY DEF StoreInv, VictimInv, Others
<1>3. LeaseInv' BY LeaseStep DEF At
<1>4. ReserveInv'
  <2> SUFFICES ASSUME NEW b \in Actors, th'[b].pc \in {"prepare", "inspect", "fetch"}
               PROVE  My(b)' \in reserved'
    BY DEF ReserveInv
  <2>1. CASE b = a BY <2>1, IdleShape
  <2>2. CASE b # a
    <3>1. th'[b] = th[b] BY <2>2 DEF Others
    <3>2. My(b) \in reserved BY <3>1 DEF StoreInv, ReserveInv
    <3>3. My(b) # My(a) BY <2>2, ApartFrom
    <3> QED BY <3>1, <3>2, <3>3 DEF My
  <2> QED BY <2>1, <2>2
<1> QED BY <1>1, <1>2, <1>3, <1>4

\* The same when none of thread a's workers runs.
LEMMA QuietStep ==
  ASSUME StoreInv, ThreadShape', NEW a \in Actors, Others(a),
         ~At(a, "idle"), ~At(a, "held"), ~At(a, "clean"),
         th'[a] = Idle \/ My(a)' = My(a),
         th'[a].pc \notin {"fetch", "clean", "held"},
         part' = part, leases' = leases,
         \A b \in Actors \ {a} : wk'[b] = wk[b],
         \A s \in Slices : wk'[a][s].st = "off",
         \A p \in reserved \ {My(a)} : p \in reserved',
         th'[a].pc \in {"prepare", "inspect"} => My(a) \in reserved',
         th'[a].pc \in Dropping => th'[a].victim \in Pages /\ leases[th'[a].victim] = 0
  PROVE  WorkInv' /\ VictimInv' /\ LeaseInv' /\ ReserveInv'
<1>1. \A s \in Slices : WorkOK(a, s)' BY DEF WorkOK, State
<1> QED BY <1>1, CallStep

\* A step of a worker, which touches its own file only.
LEMMA WorkerStep ==
  ASSUME StoreInv, NEW a \in Actors, NEW s \in Slices, State(a, s) # "off",
         th' = th, disk' = disk, memory' = memory, calls' = calls,
         PartialShape', wk'[a][s] \in Jobs, wk' = [wk EXCEPT ![a][s] = wk'[a][s]],
         \A p \in Pages, t \in Slices : p # My(a) \/ t # s => part'[p][t] = part[p][t],
         WorkOK(a, s)'
  PROVE  StoreInv'
<1>0. At(a, "fetch") /\ Others(a) BY DEF StoreInv, WorkInv, WorkOK, Others
<1>1. DiskShape' /\ MemoryShape' /\ ThreadShape'
  BY DEF StoreInv, Shape, DiskShape, MemoryShape, ThreadShape, disk, memory
<1>2. JobShape' /\ \A b \in Actors \ {a} : wk'[b] = wk[b] BY DEF StoreInv, Shape, JobShape
<1>3. LockInv' /\ IdleInv' /\ Alone' /\ VictimInv' /\ HeldInv' /\ LeaseInv' /\ CountInv' /\ ReserveInv'
  BY DEF StoreInv, LockInv, IdleInv, Alone, VictimInv, HeldInv, HeldOK, LeaseInv, Holders,
         CountInv, Engaged, ReserveInv, At, My, disk, memory
<1>4. WorkInv'
  <2>1. \A p \in Pages \ {My(a)} : part'[p] = part[p] BY DEF PartialShape, StoreInv, Shape
  <2>2. ASSUME NEW t \in Slices PROVE WorkOK(a, t)'
    <3>1. CASE t = s BY <3>1
    <3>2. CASE t # s
      <4>1. WorkOK(a, t) BY DEF StoreInv, WorkInv
      <4>2. My(a) \in Pages BY <1>0, OwnPage DEF At
      <4>3. part'[My(a)][t] = part[My(a)][t] BY <3>2, <4>2
      <4>4. wk'[a][t] = wk[a][t] BY <3>2 DEF StoreInv, Shape, JobShape
      <4> QED BY <4>1, <4>3, <4>4 DEF WorkOK, State, At, My, SizeOf, Present, Data
    <3> QED BY <3>1, <3>2
  <2> QED BY <1>0, <1>2, <2>1, <2>2, WorkStep DEF At
<1> QED BY <1>1, <1>2, <1>3, <1>4 DEF StoreInv, Shape

\* Nobody else's workers are on the page of a thread that does not hold it.
LEMMA NobodyIsOrphaned ==
  ASSUME StoreInv, NEW a \in Actors, ~At(a, "idle"), ~At(a, "held"), ~At(a, "fetch"), NEW S
  PROVE  Orphaned(My(a), S) = wk
<1>1. ASSUME NEW b \in Actors, NEW s \in Slices, My(b) = My(a) PROVE wk[b][s].st # "open"
  <2>1. My(a) # None BY DEF StoreInv, IdleInv
  <2>2. ~At(b, "fetch") BY <1>1, <2>1 DEF StoreInv, Alone, At
  <2> QED BY <2>2 DEF StoreInv, WorkInv, WorkOK, State
<1>2. wk = [b \in Actors |-> [s \in Slices |-> wk[b][s]]] BY DEF StoreInv, Shape, JobShape
<1>3. ASSUME NEW b \in Actors
      PROVE  [s \in Slices |-> IF My(b) = My(a) /\ s \in S /\ wk[b][s].st = "open"
                                 THEN [wk[b][s] EXCEPT !.st = "orphan"] ELSE wk[b][s]]
             = [s \in Slices |-> wk[b][s]]
  BY <1>1
<1> QED BY <1>2, <1>3 DEF Orphaned

\* What holders rely on, when thread a changes pages nobody else publishes or
\* holds.
LEMMA HeldStep ==
  ASSUME StoreInv, NEW a \in Actors, Others(a), HeldOK(a)',
         \A b \in Actors \ {a} : th[b].pc \in {"manifest", "index", "clean", "held"} =>
           page'[My(b)] = page[My(b)] /\ manifest'[My(b)] = manifest[My(b)]
  PROVE  HeldInv'
BY DEF StoreInv, HeldInv, HeldOK, Others, At, My

\* While a thread has the lock nobody else publishes a page.
LEMMA LockIsExclusive ==
  ASSUME StoreInv, NEW a \in Actors, th[a].pc \in Locked \/ lock = None,
         NEW b \in Actors, b # a
  PROVE  th[b].pc \notin Locked
BY NoneIsFresh DEF StoreInv, LockInv

-----------------------------------------------------------------------------
(* Removing a page, room and reservations.                                 *)

LEMMA DropPageKeeps == ASSUME StoreInv, NEW a \in Actors, DropPage(a) PROVE StoreInv'
<1> DEFINE v == th[a].victim
<1>0. th \in [Actors -> Threads] /\ At(a, "dropPage") BY DEF StoreInv, Shape, ThreadShape, DropPage
<1>1. /\ ThreadShape' /\ Others(a) /\ th'[a].pc = "dropManifest"
      /\ My(a)' = My(a) /\ th'[a].victim = v
  <2>1. "dropManifest" \in PCs BY DEF PCs
  <2>2. Goto(a, "dropManifest") BY DEF DropPage
  <2> QED BY <1>0, <2>1, <2>2, GotoFacts
<1>2. v \in Pages /\ leases[v] = 0 BY <1>0 DEF StoreInv, VictimInv, Dropping, At
<1>3. DiskShape' BY <1>2 DEF StoreInv, Shape, DiskShape, DropPage
<1>4. PartialShape' /\ MemoryShape' /\ JobShape'
  BY DEF StoreInv, Shape, PartialShape, MemoryShape, JobShape, DropPage, partial, memory, bounds
<1>5. LockInv' /\ IdleInv' /\ Alone' /\ CountInv'
  BY <1>0, <1>1, ControlStep DEF DropPage, memory, bounds, At, Locked, Dropping
<1>6. WorkInv' /\ VictimInv' /\ LeaseInv' /\ ReserveInv'
  <2>1. \A s \in Slices : State(a, s) = "off" BY <1>0, JobsAreOff DEF At
  <2> QED BY <1>0, <1>1, <1>2, <2>1, QuietStep DEF DropPage, partial, memory, At, State
<1>7. HeldInv'
  <2>1. HeldOK(a)' BY <1>1 DEF HeldOK, At
  <2>2. ASSUME NEW b \in Actors \ {a}, th[b].pc \in {"manifest", "index", "clean", "held"}
        PROVE  My(b) # v
    <3>1. th[b].pc \notin Locked BY <1>0, LockIsExclusive DEF Locked, Dropping, At
    <3>2. Holders(v) = {} BY <1>2, UnleasedIsUnheld DEF StoreInv
    <3> QED BY <2>2, <3>1, <3>2 DEF Locked, Holders
  <2>3. \A p \in Pages : p # v => page'[p] = page[p] BY <1>2 DEF DropPage, StoreInv, Shape, DiskShape
  <2>4. ASSUME NEW b \in Actors \ {a}, th[b].pc \in {"manifest", "index", "clean", "held"}
        PROVE  My(b) \in Pages
    BY <2>4, OwnPage DEF At
  <2> QED BY <1>1, <2>1, <2>2, <2>3, <2>4, HeldStep DEF DropPage
<1> QED BY <1>1, <1>3, <1>4, <1>5, <1>6, <1>7 DEF StoreInv, Shape

LEMMA DropManifestKeeps == ASSUME StoreInv, NEW a \in Actors, DropManifest(a) PROVE StoreInv'
<1> DEFINE v == th[a].victim
<1>0. th \in [Actors -> Threads] /\ At(a, "dropManifest")
  BY DEF StoreInv, Shape, ThreadShape, DropManifest
<1>1. /\ ThreadShape' /\ Others(a) /\ th'[a].pc = "dropRow"
      /\ My(a)' = My(a) /\ th'[a].victim = v
  <2>1. "dropRow" \in PCs BY DEF PCs
  <2>2. Goto(a, "dropRow") BY DEF DropManifest
  <2> QED BY <1>0, <2>1, <2>2, GotoFacts
<1>2. v \in Pages /\ leases[v] = 0 BY <1>0 DEF StoreInv, VictimInv, Dropping, At
<1>3. DiskShape' BY <1>2 DEF StoreInv, Shape, DiskShape, DropManifest
<1>4. PartialShape' /\ MemoryShape' /\ JobShape'
  BY DEF StoreInv, Shape, PartialShape, MemoryShape, JobShape, DropManifest, partial, memory, bounds
<1>5. LockInv' /\ IdleInv' /\ Alone' /\ CountInv'
  BY <1>0, <1>1, ControlStep DEF DropManifest, memory, bounds, At, Locked, Dropping
<1>6. WorkInv' /\ VictimInv' /\ LeaseInv' /\ ReserveInv'
  <2>1. \A s \in Slices : State(a, s) = "off" BY <1>0, JobsAreOff DEF At
  <2> QED BY <1>0, <1>1, <1>2, <2>1, QuietStep DEF DropManifest, partial, memory, At, State
<1>7. HeldInv'
  <2>1. HeldOK(a)' BY <1>1 DEF HeldOK, At
  <2>2. ASSUME NEW b \in Actors \ {a}, th[b].pc \in {"manifest", "index", "clean", "held"}
        PROVE  My(b) # v
    <3>1. th[b].pc \notin Locked BY <1>0, LockIsExclusive DEF Locked, Dropping, At
    <3>2. Holders(v) = {} BY <1>2, UnleasedIsUnheld DEF StoreInv
    <3> QED BY <2>2, <3>1, <3>2 DEF Locked, Holders
  <2>3. \A p \in Pages : p # v => manifest'[p] = manifest[p]
    BY <1>2 DEF DropManifest, StoreInv, Shape, DiskShape
  <2>4. ASSUME NEW b \in Actors \ {a}, th[b].pc \in {"manifest", "index", "clean", "held"}
        PROVE  My(b) \in Pages
    BY <2>4, OwnPage DEF At
  <2> QED BY <1>1, <2>1, <2>2, <2>3, <2>4, HeldStep DEF DropManifest
<1> QED BY <1>1, <1>3, <1>4, <1>5, <1>6, <1>7 DEF StoreInv, Shape

LEMMA DropRowKeeps == ASSUME StoreInv, NEW a \in Actors, DropRow(a) PROVE StoreInv'
<1> DEFINE v == th[a].victim
<1>0. th \in [Actors -> Threads] /\ At(a, "dropRow") BY DEF StoreInv, Shape, ThreadShape, DropRow
<1>1. /\ ThreadShape' /\ Others(a) /\ My(a)' = My(a)
      /\ \/ th'[a].pc = "resolve" /\ lock' = None
         \/ th'[a].pc = "fit" /\ lock' = lock
  <2>1. CASE th[a].back = "resolve"
    BY <1>0, <2>1 DEF DropRow, Threads, ThreadShape, Others, My, PCs
  <2>2. CASE th[a].back # "resolve"
    BY <1>0, <2>2 DEF DropRow, Threads, ThreadShape, Others, My, PCs
  <2> QED BY <2>1, <2>2
<1>2. v \in Pages BY <1>0 DEF StoreInv, VictimInv, Dropping, At
<1>3. DiskShape' BY <1>2, RowFacts DEF StoreInv, Shape, DiskShape, DropRow
<1>4. PartialShape' /\ MemoryShape' /\ JobShape'
  BY <1>1 DEF StoreInv, Shape, PartialShape, MemoryShape, JobShape, DropRow, partial, bounds
<1>5. LockInv' /\ IdleInv' /\ Alone' /\ CountInv'
  BY <1>0, <1>1, ControlStep DEF DropRow, bounds, At, Locked, Dropping
<1>6. WorkInv' /\ VictimInv' /\ LeaseInv' /\ ReserveInv'
  <2>1. \A s \in Slices : State(a, s) = "off" BY <1>0, JobsAreOff DEF At
  <2> QED BY <1>0, <1>1, <2>1, QuietStep DEF DropRow, partial, At, State, Dropping
<1>7. HeldInv'
  <2>1. HeldOK(a)' BY <1>1 DEF HeldOK, At
  <2> QED BY <1>1, <2>1, HeldStep DEF DropRow
<1> QED BY <1>1, <1>3, <1>4, <1>5, <1>6, <1>7 DEF StoreInv, Shape

LEMMA ResolveKeeps == ASSUME StoreInv, NEW a \in Actors, Resolve(a) PROVE StoreInv'
<1>0. th \in [Actors -> Threads] /\ At(a, "resolve") BY DEF StoreInv, Shape, ThreadShape, Resolve
<1>1. ThreadShape' /\ Others(a) /\ My(a)' = My(a) /\ th'[a].pc = "reserve"
  <2>1. "reserve" \in PCs BY DEF PCs
  <2>2. Goto(a, "reserve") BY DEF Resolve
  <2> QED BY <1>0, <2>1, <2>2, GotoFacts
<1>2. DiskShape' /\ PartialShape' /\ MemoryShape' /\ JobShape'
  BY DEF StoreInv, Shape, DiskShape, PartialShape, MemoryShape, JobShape, Resolve, disk, partial, memory, bounds
<1>3. LockInv' /\ IdleInv' /\ Alone' /\ CountInv'
  BY <1>0, <1>1, ControlStep DEF Resolve, memory, bounds, At, Locked, Dropping
<1>4. WorkInv' /\ VictimInv' /\ LeaseInv' /\ ReserveInv'
  <2>1. \A s \in Slices : State(a, s) = "off" BY <1>0, JobsAreOff DEF At
  <2> QED BY <1>0, <1>1, <2>1, QuietStep DEF Resolve, partial, memory, At, State, Dropping
<1>5. HeldInv'
  <2>1. HeldOK(a)' BY <1>1 DEF HeldOK, At
  <2> QED BY <1>1, <2>1, HeldStep DEF Resolve, disk
<1> QED BY <1>1, <1>2, <1>3, <1>4, <1>5 DEF StoreInv, Shape

LEMMA ResolveFailsKeeps == ASSUME StoreInv, NEW a \in Actors, ResolveFails(a) PROVE StoreInv'
<1>0. th \in [Actors -> Threads] /\ At(a, "resolve") BY DEF StoreInv, Shape, ThreadShape, ResolveFails
<1>1. ThreadShape' /\ Others(a) /\ th'[a] = Idle
  BY <1>0, IdleShape DEF ResolveFails, ThreadShape, Others
<1>2. DiskShape' /\ PartialShape' /\ MemoryShape' /\ JobShape'
  BY DEF StoreInv, Shape, DiskShape, PartialShape, MemoryShape, JobShape, ResolveFails, disk, partial, memory
<1>3. LockInv' /\ IdleInv' /\ Alone' /\ CountInv'
  BY <1>0, <1>1, IdleShape, ControlStep DEF ResolveFails, memory, At, Locked, Dropping
<1>4. WorkInv' /\ VictimInv' /\ LeaseInv' /\ ReserveInv'
  <2>1. \A s \in Slices : State(a, s) = "off" BY <1>0, JobsAreOff DEF At
  <2> QED BY <1>0, <1>1, <2>1, IdleShape, QuietStep DEF ResolveFails, partial, memory, At, State, Dropping
<1>5. HeldInv'
  <2>1. HeldOK(a)' BY <1>1, IdleShape DEF HeldOK, At
  <2> QED BY <1>1, <2>1, HeldStep DEF ResolveFails, disk
<1> QED BY <1>1, <1>2, <1>3, <1>4, <1>5 DEF StoreInv, Shape

LEMMA ReserveKeeps == ASSUME StoreInv, NEW a \in Actors, Reserve(a) PROVE StoreInv'
<1>0. th \in [Actors -> Threads] /\ At(a, "reserve") BY DEF StoreInv, Shape, ThreadShape, Reserve
<1>1. /\ ThreadShape' /\ Others(a) /\ My(a)' = My(a) /\ lock = None
      /\ \/ th'[a].pc = "prepare" /\ lock' = lock /\ My(a) \in reserved
         \/ th'[a].pc = "fit" /\ lock' = a
  <2>1. CASE My(a) \in reserved
    <3>1. "prepare" \in PCs BY DEF PCs
    <3>2. Goto(a, "prepare") /\ lock' = lock /\ lock = None BY <2>1 DEF Reserve
    <3> QED BY <1>0, <2>1, <3>1, <3>2, GotoFacts
  <2>2. CASE My(a) \notin reserved
    <3>1. th' = [th EXCEPT ![a].pc = "fit", ![a].back = "reserve"] /\ lock = None /\ lock' = a
      BY <2>2 DEF Reserve
    <3>2. th'[a] = [th[a] EXCEPT !.pc = "fit", !.back = "reserve"] BY <1>0, <3>1
    <3>3. th'[a] \in Threads BY <1>0, <3>2 DEF Threads, PCs
    <3> QED BY <1>0, <3>1, <3>2, <3>3 DEF ThreadShape, Others, My, Threads
  <2> QED BY <2>1, <2>2
<1>2. DiskShape' /\ PartialShape' /\ MemoryShape' /\ JobShape'
  BY <1>1 DEF StoreInv, Shape, DiskShape, PartialShape, MemoryShape, JobShape, Reserve, disk, partial, bounds
<1>3. LockInv' /\ IdleInv' /\ Alone' /\ CountInv'
  BY <1>0, <1>1, ControlStep DEF Reserve, bounds, At, Locked, Dropping
<1>4. WorkInv' /\ VictimInv' /\ LeaseInv' /\ ReserveInv'
  <2>1. \A s \in Slices : State(a, s) = "off" BY <1>0, JobsAreOff DEF At
  <2> QED BY <1>0, <1>1, <2>1, QuietStep DEF Reserve, partial, At, State, Dropping
<1>5. HeldInv'
  <2>1. HeldOK(a)' BY <1>1 DEF HeldOK, At
  <2> QED BY <1>1, <2>1, HeldStep DEF Reserve, disk
<1> QED BY <1>1, <1>2, <1>3, <1>4, <1>5 DEF StoreInv, Shape

LEMMA FitRoomKeeps == ASSUME StoreInv, NEW a \in Actors, FitRoom(a) PROVE StoreInv'
<1>0. th \in [Actors -> Threads] /\ At(a, "fit") BY DEF StoreInv, Shape, ThreadShape, FitRoom
<1>1. /\ ThreadShape' /\ Others(a) /\ My(a)' = My(a)
      /\ \/ th'[a].pc = "prepare" /\ lock' = None /\ reserved' = reserved \union {My(a)}
         \/ th'[a].pc = "assemble" /\ lock' = lock /\ reserved' = reserved
  <2>1. CASE th[a].back = "reserve"
    BY <1>0, <2>1 DEF FitRoom, Threads, ThreadShape, Others, My, PCs
  <2>2. CASE th[a].back # "reserve"
    BY <1>0, <2>2 DEF FitRoom, Threads, ThreadShape, Others, My, PCs
  <2> QED BY <2>1, <2>2
<1>2. DiskShape' /\ PartialShape' /\ MemoryShape' /\ JobShape'
  <2>1. My(a) \in Pages BY <1>0, OwnPage DEF At
  <2>2. IsFiniteSet(reserved') /\ reserved' \subseteq Pages
    BY <1>1, <2>1, FS_AddElement DEF StoreInv, Shape, MemoryShape
  <2> QED BY <1>1, <2>2
      DEF StoreInv, Shape, DiskShape, PartialShape, MemoryShape, JobShape, FitRoom, disk, partial, bounds
<1>3. LockInv' /\ IdleInv' /\ Alone' /\ CountInv'
  BY <1>0, <1>1, ControlStep DEF FitRoom, bounds, At, Locked, Dropping
<1>4. WorkInv' /\ VictimInv' /\ LeaseInv' /\ ReserveInv'
  <2>1. \A s \in Slices : State(a, s) = "off" BY <1>0, JobsAreOff DEF At
  <2> QED BY <1>0, <1>1, <2>1, QuietStep DEF FitRoom, partial, At, State, Dropping
<1>5. HeldInv'
  <2>1. HeldOK(a)' BY <1>1 DEF HeldOK, At
  <2> QED BY <1>1, <2>1, HeldStep DEF FitRoom, disk
<1> QED BY <1>1, <1>2, <1>3, <1>4, <1>5 DEF StoreInv, Shape

\* The victim is the row of a page nobody leases.
LEMMA VictimFacts ==
  ASSUME DiskShape, NEW p, Victims(p) # {}
  PROVE  LET v == index[Min(Victims(p))] IN v \in Pages /\ v \in ToSet(index) /\ leases[v] = 0 /\ v # p
<1>1. index \in Seq(Pages) /\ DOMAIN index = 1..Len(index) BY DEF DiskShape, Distinct
<1>2. Victims(p) \in SUBSET Nat BY <1>1 DEF Victims
<1>3. Min(Victims(p)) \in Victims(p) BY <1>2, MinFacts
<1> DEFINE n == Min(Victims(p))
<1>4. n \in DOMAIN index /\ index[n] # p /\ leases[index[n]] = 0 BY <1>3 DEF Victims, Unleased
<1> HIDE DEF n
<1>5. index[n] \in Pages /\ index[n] \in ToSet(index) BY <1>1, <1>4 DEF ToSet
<1> QED BY <1>4, <1>5 DEF n

LEMMA FitEvictKeeps == ASSUME StoreInv, NEW a \in Actors, FitEvict(a) PROVE StoreInv'
<1> DEFINE v == index[Min(Victims(My(a)))]
<1>0. th \in [Actors -> Threads] /\ At(a, "fit") BY DEF StoreInv, Shape, ThreadShape, FitEvict
<1>1. v \in Pages /\ leases[v] = 0 BY VictimFacts DEF StoreInv, Shape, FitEvict
<1>2. ThreadShape' /\ Others(a) /\ My(a)' = My(a) /\ th'[a].pc = "dropPage" /\ th'[a].victim = v
  <2>1. th' = [th EXCEPT ![a].pc = "dropPage", ![a].victim = v] BY DEF FitEvict
  <2> HIDE DEF v
  <2>2. th'[a] = [th[a] EXCEPT !.pc = "dropPage", !.victim = v] BY <1>0, <2>1
  <2>3. th'[a] \in Threads BY <1>0, <1>1, <2>2 DEF Threads, PCs
  <2> QED BY <1>0, <2>1, <2>2, <2>3 DEF ThreadShape, Others, My, Threads
<1> HIDE DEF v
<1>3. DiskShape' /\ PartialShape' /\ MemoryShape' /\ JobShape'
  BY DEF StoreInv, Shape, DiskShape, PartialShape, MemoryShape, JobShape, FitEvict, disk, partial, memory, bounds
<1>4. LockInv' /\ IdleInv' /\ Alone' /\ CountInv'
  BY <1>0, <1>2, ControlStep DEF FitEvict, memory, bounds, At, Locked, Dropping
<1>5. WorkInv' /\ VictimInv' /\ LeaseInv' /\ ReserveInv'
  <2>1. \A s \in Slices : State(a, s) = "off" BY <1>0, JobsAreOff DEF At
  <2> QED BY <1>0, <1>1, <1>2, <2>1, QuietStep DEF FitEvict, partial, memory, At, State
<1>6. HeldInv'
  <2>1. HeldOK(a)' BY <1>2 DEF HeldOK, At
  <2> QED BY <1>2, <2>1, HeldStep DEF FitEvict, disk
<1> QED BY <1>2, <1>3, <1>4, <1>5, <1>6 DEF StoreInv, Shape

LEMMA FitFailsKeeps == ASSUME StoreInv, NEW a \in Actors, FitFails(a) PROVE StoreInv'
<1>0. th \in [Actors -> Threads] /\ At(a, "fit") BY DEF StoreInv, Shape, ThreadShape, FitFails
<1>1. /\ ThreadShape' /\ Others(a) /\ lock' = None
      /\ \/ th'[a] = Idle
         \/ My(a)' = My(a) /\ th'[a].pc = "cancel"
  <2>1. CASE th[a].back = "reserve"
    BY <1>0, <2>1, IdleShape DEF FitFails, ThreadShape, Others
  <2>2. CASE th[a].back # "reserve"
    <3>1. th' = [th EXCEPT ![a].pc = "cancel", ![a].back = None] /\ lock' = None
      BY <2>2 DEF FitFails
    <3>2. th'[a] = [th[a] EXCEPT !.pc = "cancel", !.back = None] BY <1>0, <3>1
    <3>3. th'[a] \in Threads BY <1>0, <3>2 DEF Threads, PCs
    <3> QED BY <1>0, <3>1, <3>2, <3>3 DEF ThreadShape, Others, My, Threads
  <2> QED BY <2>1, <2>2
<1>2. DiskShape' /\ PartialShape' /\ MemoryShape' /\ JobShape'
  BY <1>1 DEF StoreInv, Shape, DiskShape, PartialShape, MemoryShape, JobShape, FitFails, disk, partial, bounds
<1>3. LockInv' /\ IdleInv' /\ Alone' /\ CountInv'
  BY <1>0, <1>1, IdleShape, ControlStep DEF FitFails, bounds, At, Locked, Dropping
<1>4. WorkInv' /\ VictimInv' /\ LeaseInv' /\ ReserveInv'
  <2>1. \A s \in Slices : State(a, s) = "off" BY <1>0, JobsAreOff DEF At
  <2> QED BY <1>0, <1>1, <2>1, IdleShape, QuietStep DEF FitFails, partial, At, State, Dropping
<1>5. HeldInv'
  <2>1. HeldOK(a)' BY <1>1, IdleShape DEF HeldOK, At
  <2> QED BY <1>1, <2>1, HeldStep DEF FitFails, disk
<1> QED BY <1>1, <1>2, <1>3, <1>4, <1>5 DEF StoreInv, Shape

LEMMA CancelReservationKeeps ==
  ASSUME StoreInv, NEW a \in Actors, CancelReservation(a) PROVE StoreInv'
<1>0. th \in [Actors -> Threads] /\ At(a, "cancel")
  BY DEF StoreInv, Shape, ThreadShape, CancelReservation
<1>1. ThreadShape' /\ Others(a) /\ th'[a] = Idle
  BY <1>0, IdleShape DEF CancelReservation, ThreadShape, Others
<1>2. wk'[a] = NoWork /\ JobShape' /\ \A b \in Actors \ {a} : wk'[b] = wk[b]
  BY NoWorkShape DEF CancelReservation, JobShape, StoreInv, Shape
<1>3. DiskShape' /\ PartialShape' /\ MemoryShape'
  <2>1. IsFiniteSet(reserved') /\ reserved' \subseteq Pages
    BY FS_Subset DEF CancelReservation, StoreInv, Shape, MemoryShape
  <2> QED BY <2>1
      DEF StoreInv, Shape, DiskShape, PartialShape, MemoryShape, CancelReservation, disk, partial, bounds
<1>4. LockInv' /\ IdleInv' /\ Alone' /\ CountInv'
  BY <1>0, <1>1, IdleShape, ControlStep DEF CancelReservation, bounds, At, Locked, Dropping
<1>5. WorkInv' /\ VictimInv' /\ LeaseInv' /\ ReserveInv'
  BY <1>0, <1>1, <1>2, IdleShape, NoWorkShape, QuietStep
     DEF CancelReservation, partial, At, Dropping
<1>6. HeldInv'
  <2>1. HeldOK(a)' BY <1>1, IdleShape DEF HeldOK, At
  <2> QED BY <1>1, <2>1, HeldStep DEF CancelReservation, disk
<1> QED BY <1>1, <1>2, <1>3, <1>4, <1>5, <1>6 DEF StoreInv, Shape

-----------------------------------------------------------------------------
(* The partial files and the download workers.                             *)

LEMMA PrepareReadKeeps == ASSUME StoreInv, NEW a \in Actors, PrepareRead(a) PROVE StoreInv'
<1>0. th \in [Actors -> Threads] /\ At(a, "prepare") BY DEF StoreInv, Shape, ThreadShape, PrepareRead
<1>1. My(a) \in Pages BY <1>0, OwnPage DEF At
<1>2. ThreadShape' /\ Others(a) /\ My(a)' = My(a) /\ th'[a].pc = "inspect"
  <2>1. th' = [th EXCEPT ![a].pc = "inspect", ![a].scan = Slices, ![a].copy = journal[My(a)]]
    BY DEF PrepareRead
  <2>2. th'[a] = [th[a] EXCEPT !.pc = "inspect", !.scan = Slices, !.copy = journal[My(a)]]
    BY <1>0, <2>1
  <2>3. journal[My(a)] \in [Slices -> Records] BY <1>1 DEF StoreInv, Shape, PartialShape
  <2>4. th'[a] \in Threads BY <1>0, <2>2, <2>3 DEF Threads, PCs
  <2> QED BY <1>0, <2>1, <2>2, <2>4 DEF ThreadShape, Others, My, Threads
<1>3. DiskShape' /\ PartialShape' /\ MemoryShape' /\ JobShape'
  BY <1>1 DEF StoreInv, Shape, DiskShape, PartialShape, MemoryShape, JobShape, PrepareRead, disk, memory, bounds
<1>4. LockInv' /\ IdleInv' /\ Alone' /\ CountInv'
  BY <1>0, <1>2, ControlStep DEF PrepareRead, memory, bounds, At, Locked, Dropping
<1>5. WorkInv' /\ VictimInv' /\ LeaseInv' /\ ReserveInv'
  <2>1. \A s \in Slices : State(a, s) = "off" BY <1>0, JobsAreOff DEF At
  <2>2. My(a) \in reserved BY <1>0 DEF StoreInv, ReserveInv, At
  <2> QED BY <1>0, <1>2, <2>1, <2>2, QuietStep DEF PrepareRead, memory, At, State, Dropping
<1>6. HeldInv'
  <2>1. HeldOK(a)' BY <1>2 DEF HeldOK, At
  <2> QED BY <1>2, <2>1, HeldStep DEF PrepareRead, disk
<1> QED BY <1>2, <1>3, <1>4, <1>5, <1>6 DEF StoreInv, Shape

\* What is kept of a file that is not overlong: nothing, its record, or all.
LEMMA KeptFacts ==
  ASSUME NEW data \in Blk, NEW rec \in Records
  PROVE  /\ Kept(data, rec) \in Records
         /\ Kept(data, rec) # None =>
              /\ Kept(data, rec) \in {rec, data} /\ Len(Kept(data, rec)) <= Len(data)
              /\ rec # None => Kept(data, rec) = rec /\ IsPrefix(rec, data)
              /\ rec = None => Len(data) = SliceLen
<1>1. ASSUME rec # None, IsPrefix(rec, data) PROVE rec \in Blk /\ Len(rec) <= Len(data)
  <2>1. rec \in Blk BY <1>1 DEF Records
  <2> QED BY <1>1, <2>1 DEF IsPrefix, Blk
<1> QED BY <1>1, PageStoreAssumption, NoneIsFresh DEF Kept, Records, Blk

LEMMA ScanFacts ==
  ASSUME NEW a \in Actors, ThreadShape, th[a].scan # {}
  PROVE  Min(th[a].scan) \in Slices /\ Min(th[a].scan) \in th[a].scan
<1>1. th[a].scan \in SUBSET Slices BY DEF ThreadShape, Threads
<1>2. th[a].scan \in SUBSET Nat BY <1>1, PageStoreAssumption
<1> QED BY <1>1, <1>2, MinFacts

\* The scan's next slice: nothing happens to a file that is not there, what is
\* kept of another goes to the copy of the journal and to the disk.
LEMMA PrepareSliceFacts ==
  ASSUME StoreInv, NEW a \in Actors, PrepareSlice(a)
  PROVE  LET p == My(a)
             s == Min(th[a].scan)
             kept == Kept(Data(p, s), th[a].copy[s])
         IN /\ p \in Pages /\ s \in Slices /\ wk' = wk /\ journal' = journal
            /\ ThreadShape' /\ Others(a) /\ My(a)' = p /\ th'[a].pc = "inspect"
            /\ PartialShape'
            /\ \A q \in Pages, t \in Slices : q # p \/ t # s => part'[q][t] = part[q][t]
            /\ \A t \in Slices : t # s => th'[a].copy[t] = th[a].copy[t]
            /\ ~Present(p, s) => part' = part /\ th'[a].copy = th[a].copy
            /\ Present(p, s) =>
                 /\ part[p][s] \in Files /\ th[a].copy[s] \in Records /\ kept \in Records
                 /\ th'[a].copy[s] = kept
                 /\ part'[p][s] = IF kept = None THEN None
                                  ELSE File(kept, Min({part[p][s].synced, Len(kept)}))
<1> DEFINE p == My(a)
           s == Min(th[a].scan)
           kept == Kept(Data(p, s), th[a].copy[s])
<1>0. th \in [Actors -> Threads] /\ At(a, "inspect") BY DEF StoreInv, Shape, ThreadShape, PrepareSlice
<1>1. p \in Pages BY <1>0, OwnPage DEF At
<1>2. s \in Slices BY ScanFacts DEF PrepareSlice, StoreInv, Shape
<1>3. part \in [Pages -> [Slices -> Files \union {None}]] BY DEF StoreInv, Shape, PartialShape
<1>4. th[a] \in Threads BY <1>0
<1>5. ASSUME Present(p, s)
      PROVE  /\ part[p][s] \in Files /\ Data(p, s) \in Blk /\ kept \in Records
             /\ kept # None => Len(kept) \in Nat
             /\ th[a].copy[s] \in Records
  <2>1. part[p][s] \in Files BY <1>1, <1>2, <1>3, <1>5 DEF Present
  <2>2. Data(p, s) \in Blk BY <2>1 DEF Data, Files
  <2>3. th[a].copy[s] \in Records BY <1>2, <1>4 DEF Threads
  <2> HIDE DEF p, s
  <2>4. kept \in Records BY <2>2, <2>3, KeptFacts
  <2> QED BY <2>1, <2>2, <2>3, <2>4 DEF Records, Blk
<1>6. wk' = wk
  <2>1. CASE ~Present(p, s) BY <2>1 DEF PrepareSlice
  <2>2. CASE Present(p, s) BY <1>0, <2>2, NobodyIsOrphaned DEF PrepareSlice, At
  <2> QED BY <2>1, <2>2
<1>7. /\ ThreadShape' /\ Others(a) /\ My(a)' = p /\ th'[a].pc = "inspect"
      /\ \A t \in Slices : t # s => th'[a].copy[t] = th[a].copy[t]
      /\ ~Present(p, s) => th'[a].copy = th[a].copy
      /\ Present(p, s) => th'[a].copy[s] = kept
  <2>1. CASE ~Present(p, s)
    <3>1. th' = [th EXCEPT ![a].scan = @ \ {s}] BY <2>1 DEF PrepareSlice
    <3> HIDE DEF s
    <3>2. th'[a] = [th[a] EXCEPT !.scan = th[a].scan \ {s}] BY <1>0, <3>1
    <3>3. th'[a] \in Threads BY <1>4, <3>2 DEF Threads
    <3> QED BY <1>0, <2>1, <3>1, <3>2, <3>3 DEF ThreadShape, Others, My, Threads, At
  <2>2. CASE Present(p, s)
    <3>1. th' = [th EXCEPT ![a].scan = @ \ {s}, ![a].copy[s] = kept] BY <2>2 DEF PrepareSlice
    <3>2. kept \in Records BY <1>5, <2>2
    <3> HIDE DEF p, s, kept
    <3> DEFINE copy == [th[a].copy EXCEPT ![s] = kept]
    <3>3. th'[a] = [th[a] EXCEPT !.scan = th[a].scan \ {s}, !.copy = copy] BY <1>0, <3>1
    <3>4. /\ copy \in [Slices -> Records] /\ copy[s] = kept
          /\ \A t \in Slices : t # s => copy[t] = th[a].copy[t]
      BY <1>2, <1>4, <3>2 DEF Threads
    <3> HIDE DEF copy
    <3>5. th'[a] \in Threads /\ th'[a].copy = copy BY <1>4, <3>3, <3>4 DEF Threads
    <3>6. th'[a].pc = "inspect" /\ My(a)' = p BY <1>0, <1>4, <3>3 DEF Threads, At, My, p
    <3>7. ThreadShape' /\ Others(a) BY <1>0, <3>1, <3>5 DEF ThreadShape, Others
    <3> QED BY <2>2, <3>4, <3>5, <3>6, <3>7
  <2> QED BY <2>1, <2>2
<1>8. /\ PartialShape' /\ journal' = journal
      /\ \A q \in Pages, t \in Slices : q # p \/ t # s => part'[q][t] = part[q][t]
      /\ ~Present(p, s) => part' = part
      /\ Present(p, s) =>
           part'[p][s] = IF kept = None THEN None
                         ELSE File(kept, Min({part[p][s].synced, Len(kept)}))
  <2>1. CASE ~Present(p, s)
    BY <2>1 DEF PrepareSlice, StoreInv, Shape, PartialShape
  <2>2. CASE Present(p, s)
    <3> DEFINE f == IF kept = None THEN None
                    ELSE File(kept, Min({part[p][s].synced, Len(kept)}))
    <3>1. part' = [part EXCEPT ![p][s] = f] BY <1>1, <1>2, <1>3, <2>2 DEF PrepareSlice
    <3>2. f \in Files \union {None}
      <4>1. part[p][s].synced \in Nat BY <1>5, <2>2 DEF Files
      <4>2. kept \in Records /\ (kept # None => Len(kept) \in Nat) BY <1>5, <2>2
      <4> HIDE DEF p, s, kept
      <4> QED BY <4>1, <4>2, MinOfTwo DEF Files, File, Records
    <3>3. UNCHANGED <<journal, pdir>> BY DEF PrepareSlice
    <3> HIDE DEF p, s, f
    <3>4. part'[p][s] = f /\ \A q \in Pages, t \in Slices : q # p \/ t # s => part'[q][t] = part[q][t]
      BY <1>1, <1>2, <1>3, <3>1
    <3>5. PartialShape' BY <1>1, <1>2, <1>3, <3>1, <3>2, <3>3 DEF StoreInv, Shape, PartialShape
    <3> QED BY <2>2, <3>3, <3>4, <3>5 DEF f
  <2> QED BY <2>1, <2>2
<1> HIDE DEF p, s, kept
<1>9. Present(p, s) => part[p][s] \in Files /\ th[a].copy[s] \in Records /\ kept \in Records BY <1>5
<1>10. ThreadShape' /\ Others(a) /\ My(a)' = p /\ th'[a].pc = "inspect" BY <1>7
<1> QED BY <1>1, <1>2, <1>6, <1>7, <1>8, <1>9, <1>10 DEF p, s, kept

LEMMA PrepareSliceKeeps == ASSUME StoreInv, NEW a \in Actors, PrepareSlice(a) PROVE StoreInv'
<1>0. At(a, "inspect") BY DEF PrepareSlice
<1>1. /\ wk' = wk /\ ThreadShape' /\ Others(a) /\ My(a)' = My(a) /\ th'[a].pc = "inspect"
      /\ PartialShape' /\ \A q \in Pages \ {My(a)}, t \in Slices : part'[q][t] = part[q][t]
  BY PrepareSliceFacts
<1>2. \A q \in Pages \ {My(a)} : part'[q] = part[q] BY <1>1 DEF PartialShape, StoreInv, Shape
<1>3. DiskShape' /\ MemoryShape' /\ JobShape'
  BY <1>1 DEF StoreInv, Shape, DiskShape, MemoryShape, JobShape, PrepareSlice, disk, memory, bounds
<1>4. LockInv' /\ IdleInv' /\ Alone' /\ CountInv'
  BY <1>0, <1>1, ControlStep DEF PrepareSlice, memory, bounds, At, Locked, Dropping
<1>5. WorkInv' /\ VictimInv' /\ LeaseInv' /\ ReserveInv'
  <2>1. \A t \in Slices : State(a, t) = "off" BY <1>0, JobsAreOff DEF At
  <2>2. \A t \in Slices : WorkOK(a, t)' BY <1>1, <2>1 DEF WorkOK, State
  <2>3. My(a) \in reserved BY <1>0 DEF StoreInv, ReserveInv, At
  <2> QED BY <1>0, <1>1, <1>2, <2>2, <2>3, CallStep DEF PrepareSlice, memory, At, Dropping
<1>6. HeldInv'
  <2>1. HeldOK(a)' BY <1>1 DEF HeldOK, At
  <2> QED BY <1>1, <2>1, HeldStep DEF PrepareSlice, disk
<1> QED BY <1>1, <1>3, <1>4, <1>5, <1>6 DEF StoreInv, Shape

LEMMA PrepareWriteKeeps == ASSUME StoreInv, NEW a \in Actors, PrepareWrite(a) PROVE StoreInv'
<1>0. th \in [Actors -> Threads] /\ At(a, "inspect") /\ th[a] \in Threads
  BY DEF StoreInv, Shape, ThreadShape, PrepareWrite
<1>1. My(a) \in Pages BY <1>0, OwnPage DEF At
<1>2. \A s \in Slices : State(a, s) = "off" BY <1>0, JobsAreOff DEF At
<1>3. NoEntries \in [Slices -> Records] BY DEF NoEntries, Records
<1>4. /\ ThreadShape' /\ Others(a) /\ My(a)' = My(a) /\ PartialShape' /\ JobShape'
      /\ th'[a].pc \in {"fetch", "cancel"}
      /\ \A b \in Actors \ {a} : wk'[b] = wk[b]
      /\ \A s \in Slices : \/ wk'[a][s].st = "off"
                           \/ wk'[a][s].st = "queued" /\ th'[a].pc = "fetch"
  <2>1. CASE My(a) \in pdir
    <3>1. /\ th' = [th EXCEPT ![a].pc = "fetch", ![a].copy = NoEntries]
          /\ journal' = [journal EXCEPT ![My(a)] = th[a].copy]
          /\ wk' = [wk EXCEPT ![a] = [s \in Slices |-> [NoWork[s] EXCEPT !.st = "queued"]]]
      BY <2>1 DEF PrepareWrite
    <3>2. th'[a] = [th[a] EXCEPT !.pc = "fetch", !.copy = NoEntries] BY <1>0, <3>1
    <3>3. th'[a] \in Threads BY <1>0, <1>3, <3>2 DEF Threads, PCs
    <3>4. PartialShape' BY <1>0, <1>1, <3>1 DEF Threads, PartialShape, StoreInv, Shape, PrepareWrite
    <3>5. wk'[a] = [s \in Slices |-> [NoWork[s] EXCEPT !.st = "queued"]]
      BY <3>1 DEF StoreInv, Shape, JobShape
    <3>6. \A s \in Slices : [NoWork[s] EXCEPT !.st = "queued"] \in Jobs
                            /\ [NoWork[s] EXCEPT !.st = "queued"].st = "queued"
      BY NoWorkShape DEF Jobs, WorkStates
    <3>7. wk'[a] \in [Slices -> Jobs] /\ \A s \in Slices : wk'[a][s].st = "queued" BY <3>5, <3>6
    <3>8. JobShape' /\ \A b \in Actors \ {a} : wk'[b] = wk[b]
      BY <3>1, <3>7 DEF JobShape, StoreInv, Shape
    <3>9. th'[a].pc = "fetch" /\ My(a)' = My(a) BY <1>0, <3>2 DEF Threads, My
    <3> QED BY <1>0, <3>1, <3>3, <3>4, <3>7, <3>8, <3>9 DEF ThreadShape, Others
  <2>2. CASE My(a) \notin pdir
    <3>1. th' = [th EXCEPT ![a].pc = "cancel", ![a].copy = NoEntries] /\ journal' = journal /\ wk' = wk
      BY <2>2 DEF PrepareWrite
    <3>2. th'[a] = [th[a] EXCEPT !.pc = "cancel", !.copy = NoEntries] BY <1>0, <3>1
    <3>3. th'[a] \in Threads BY <1>0, <1>3, <3>2 DEF Threads, PCs
    <3>4. PartialShape' /\ JobShape' BY <3>1 DEF PartialShape, JobShape, StoreInv, Shape, PrepareWrite
    <3>5. th'[a].pc = "cancel" /\ My(a)' = My(a) BY <1>0, <3>2 DEF Threads, My
    <3> QED BY <1>0, <1>2, <3>1, <3>3, <3>4, <3>5 DEF ThreadShape, Others, State
  <2> QED BY <2>1, <2>2
<1>5. DiskShape' /\ MemoryShape'
  BY DEF StoreInv, Shape, DiskShape, MemoryShape, PrepareWrite, disk, memory, bounds
<1>6. LockInv' /\ IdleInv' /\ Alone' /\ CountInv'
  BY <1>0, <1>4, ControlStep DEF PrepareWrite, memory, bounds, At, Locked, Dropping
<1>7. WorkInv' /\ VictimInv' /\ LeaseInv' /\ ReserveInv'
  <2>1. \A s \in Slices : WorkOK(a, s)' BY <1>4 DEF WorkOK, State, At
  <2>2. My(a) \in reserved BY <1>0 DEF StoreInv, ReserveInv, At
  <2>3. part' = part BY DEF PrepareWrite
  <2> QED BY <1>0, <1>4, <2>1, <2>2, <2>3, CallStep DEF PrepareWrite, memory, At, Dropping
<1>8. HeldInv'
  <2>1. HeldOK(a)' BY <1>4 DEF HeldOK, At
  <2> QED BY <1>4, <2>1, HeldStep DEF PrepareWrite, disk
<1> QED BY <1>4, <1>5, <1>6, <1>7, <1>8 DEF StoreInv, Shape

LEMMA SizeFacts ==
  ASSUME StoreInv, NEW p \in Pages, NEW s \in Slices
  PROVE  /\ SizeOf(p, s) \in 0..SliceLen
         /\ Present(p, s) => /\ part[p][s] \in Files /\ Data(p, s) \in Blk
                             /\ SizeOf(p, s) = Len(Data(p, s))
<1>1. part[p][s] \in Files \union {None} BY DEF StoreInv, Shape, PartialShape
<1>2. CASE part[p][s] = None BY <1>2, PageStoreAssumption DEF SizeOf, Present
<1>3. CASE part[p][s] # None
  <2>1. Data(p, s) \in Blk BY <1>1, <1>3 DEF Data, Files
  <2>2. Len(Data(p, s)) \in 0..SliceLen BY <2>1, PageStoreAssumption DEF Blk
  <2> QED BY <1>1, <1>3, <2>1, <2>2 DEF SizeOf, Present
<1> QED BY <1>2, <1>3

LEMMA WorkerPage ==
  ASSUME StoreInv, NEW a \in Actors, NEW s \in Slices, State(a, s) # "off"
  PROVE  My(a) \in Pages /\ At(a, "fetch") /\ wk[a][s] \in Jobs
<1>1. At(a, "fetch") BY DEF StoreInv, WorkInv, WorkOK
<1>2. My(a) \in Pages BY <1>1, OwnPage DEF At
<1> QED BY <1>1, <1>2 DEF StoreInv, Shape, JobShape

LEMMA FetchStatKeeps ==
  ASSUME StoreInv, NEW a \in Actors, NEW s \in Slices, FetchStat(a, s) PROVE StoreInv'
<1> DEFINE n == SizeOf(My(a), s)
<1>1. State(a, s) = "queued" /\ UNCHANGED <<disk, journal, pdir, memory, th, bounds>>
  BY DEF FetchStat
<1>2. My(a) \in Pages /\ At(a, "fetch") /\ wk[a][s] \in Jobs BY <1>1, WorkerPage
<1>3. n \in 0..SliceLen BY <1>2, SizeFacts
<1>4. /\ wk' = [wk EXCEPT ![a][s].st = IF n = SliceLen THEN "recordOk" ELSE "found",
                          ![a][s].append = n > 0 /\ n < SliceLen,
                          ![a][s].at = IF n < SliceLen THEN n ELSE 0]
      /\ part' = part
  BY <1>3, PageStoreAssumption DEF FetchStat
<1> HIDE DEF n
<1>5. wk'[a][s] = [st |-> IF n = SliceLen THEN "recordOk" ELSE "found",
                   append |-> n > 0 /\ n < SliceLen, at |-> IF n < SliceLen THEN n ELSE 0]
  <2>1. wk \in [Actors -> [Slices -> Jobs]] BY DEF StoreInv, Shape, JobShape
  <2>2. wk'[a][s] = [wk[a][s] EXCEPT !.st = IF n = SliceLen THEN "recordOk" ELSE "found",
                          !.append = n > 0 /\ n < SliceLen,
                          !.at = IF n < SliceLen THEN n ELSE 0]
    BY <1>4, <2>1
  <2> QED BY <1>2, <2>2 DEF Jobs
<1>6. wk'[a][s] \in Jobs /\ wk' = [wk EXCEPT ![a][s] = wk'[a][s]]
  <2>1. wk'[a][s] \in Jobs BY <1>3, <1>5, PageStoreAssumption DEF Jobs, WorkStates
  <2>2. wk \in [Actors -> [Slices -> Jobs]] BY DEF StoreInv, Shape, JobShape
  <2>3. wk' = [b \in Actors |-> wk'[b]] /\ wk'[a] = [t \in Slices |-> wk'[a][t]]
    BY <1>4, <2>2
  <2>4. \A b \in Actors \ {a} : wk'[b] = wk[b] BY <1>4, <2>2
  <2>5. \A t \in Slices \ {s} : wk'[a][t] = wk[a][t] BY <1>4, <2>2
  <2> DEFINE row == [wk[a] EXCEPT ![s] = wk'[a][s]]
  <2>6. wk'[a] = row
    <3> DEFINE z == wk'[a][s]
    <3>1. wk'[a] = [t \in Slices |-> IF t = s THEN z ELSE wk[a][t]] BY <2>3, <2>5
    <3>2. wk[a] \in [Slices -> Jobs] BY <2>2
    <3> HIDE DEF z
    <3>3. [wk[a] EXCEPT ![s] = z] = [t \in Slices |-> IF t = s THEN z ELSE wk[a][t]]
      BY <3>2
    <3> QED BY <3>1, <3>3 DEF z
  <2> HIDE DEF row
  <2>7. wk' = [wk EXCEPT ![a] = row]
    <3>1. wk' = [b \in Actors |-> IF b = a THEN row ELSE wk[b]] BY <2>3, <2>4, <2>6
    <3>2. [wk EXCEPT ![a] = row] = [b \in Actors |-> IF b = a THEN row ELSE wk[b]] BY <2>2
    <3> QED BY <3>1, <3>2
  <2> QED BY <2>1, <2>7 DEF row
<1>7. WorkOK(a, s)'
  <2>1. SizeOf(My(a), s)' = n /\ At(a, "fetch")' BY <1>1, <1>2, <1>4 DEF n, SizeOf, Data, My, At
  <2>2. CASE n = SliceLen BY <1>5, <2>1, <2>2 DEF WorkOK, State
  <2>3. CASE n < SliceLen /\ n > 0
    <3>1. n # SliceLen /\ (n > 0 /\ n < SliceLen) = TRUE BY <1>3, <2>3, PageStoreAssumption
    <3>2. wk'[a][s] = [st |-> "found", append |-> TRUE, at |-> n] BY <1>5, <2>3, <3>1
    <3> QED BY <2>1, <2>3, <3>2 DEF WorkOK, State
  <2>4. CASE n < SliceLen /\ n = 0
    <3>1. n # SliceLen /\ (n > 0 /\ n < SliceLen) = FALSE BY <1>3, <2>4, PageStoreAssumption
    <3>2. wk'[a][s] = [st |-> "found", append |-> FALSE, at |-> n] BY <1>5, <2>4, <3>1
    <3> QED BY <2>1, <2>4, <3>2 DEF WorkOK, State
  <2> QED BY <1>3, <2>2, <2>3, <2>4, PageStoreAssumption
<1>8. PartialShape' BY <1>1, <1>4 DEF PartialShape, StoreInv, Shape
<1> QED BY <1>1, <1>4, <1>6, <1>7, <1>8, WorkerStep DEF bounds

\* The file a worker has opened holds the bytes it found; a file it empties
\* had none.
LEMMA FetchOpenFacts ==
  ASSUME StoreInv, NEW a \in Actors, NEW s \in Slices, FetchOpen(a, s)
  PROVE  LET p == My(a) IN
           /\ p \in Pages
           /\ part' \in [Pages -> [Slices -> Files \union {None}]]
           /\ part'[p][s] # None /\ Len(part'[p][s].data) = wk[a][s].at
           /\ \/ part'[p][s] = part[p][s]
              \/ SizeOf(p, s) = 0 /\ part'[p][s] = File(<<>>, 0)
           /\ \A q \in Pages, t \in Slices : q # p \/ t # s => part'[q][t] = part[q][t]
<1> DEFINE p == My(a)
<1>1. State(a, s) = "found" BY DEF FetchOpen
<1>2. p \in Pages /\ At(a, "fetch") /\ wk[a][s] \in Jobs BY <1>1, WorkerPage
<1>3. part \in [Pages -> [Slices -> Files \union {None}]] BY DEF StoreInv, Shape, PartialShape
<1>4. wk[a][s].at = SizeOf(p, s) /\ (wk[a][s].append <=> wk[a][s].at > 0)
  BY <1>1 DEF StoreInv, WorkInv, WorkOK
<1>5. File(<<>>, 0) \in Files /\ Len(File(<<>>, 0).data) = 0
  BY PageStoreAssumption DEF File, Files, Blk
<1>6. CASE wk[a][s].append /\ Present(p, s)
  <2>1. part' = part BY <1>6 DEF FetchOpen
  <2>2. SizeOf(p, s) = Len(part[p][s].data) BY <1>2, <1>6, SizeFacts DEF Data
  <2>3. part[p][s] # None BY <1>6 DEF Present
  <2>4. /\ part' \in [Pages -> [Slices -> Files \union {None}]]
        /\ \A q \in Pages, t \in Slices : part'[q][t] = part[q][t]
    BY <1>3, <2>1
  <2>5. Len(part'[p][s].data) = wk[a][s].at /\ part'[p][s] = part[p][s] BY <1>4, <2>1, <2>2
  <2> QED BY <1>2, <2>3, <2>4, <2>5
<1>7. CASE ~(wk[a][s].append /\ Present(p, s))
  <2>1. part' = [part EXCEPT ![p][s] = File(<<>>, 0)] BY <1>7 DEF FetchOpen
  <2>2. wk[a][s].at = 0
    <3>1. CASE ~Present(p, s) BY <1>4, <3>1 DEF SizeOf, Present
    <3>2. CASE Present(p, s) /\ ~wk[a][s].append BY <1>2, <1>4, <3>2, SizeFacts
    <3> QED BY <1>7, <3>1, <3>2
  <2>3. part'[p][s] = File(<<>>, 0) BY <1>2, <1>3, <2>1
  <2> HIDE DEF p
  <2>4. part' \in [Pages -> [Slices -> Files \union {None}]] BY <1>2, <1>3, <1>5, <2>1
  <2>5. \A q \in Pages, t \in Slices : q # p \/ t # s => part'[q][t] = part[q][t]
    BY <1>2, <1>3, <2>1
  <2>6. part'[p][s] # None /\ Len(part'[p][s].data) = wk[a][s].at BY <1>5, <2>2, <2>3, NoneIsFresh
  <2> QED BY <1>2, <1>4, <2>2, <2>3, <2>4, <2>5, <2>6 DEF p
<1> QED BY <1>6, <1>7

LEMMA FetchOpenKeeps ==
  ASSUME StoreInv, NEW a \in Actors, NEW s \in Slices, FetchOpen(a, s) PROVE StoreInv'
<1>1. /\ State(a, s) = "found" /\ UNCHANGED <<disk, journal, memory, th, bounds>>
      /\ wk' = [wk EXCEPT ![a][s].st = "open"] /\ pdir' = pdir \union {My(a)}
  BY DEF FetchOpen
<1>2. My(a) \in Pages /\ At(a, "fetch") /\ wk[a][s] \in Jobs BY <1>1, WorkerPage
<1>3. wk \in [Actors -> [Slices -> Jobs]] BY DEF StoreInv, Shape, JobShape
<1>4. /\ wk'[a][s] = [wk[a][s] EXCEPT !.st = "open"] /\ wk'[a][s] \in Jobs
      /\ wk' = [wk EXCEPT ![a][s] = wk'[a][s]]
  <2>1. wk'[a][s] = [wk[a][s] EXCEPT !.st = "open"] BY <1>1, <1>3
  <2>2. wk'[a][s] \in Jobs BY <1>2, <2>1 DEF Jobs, WorkStates
  <2> QED BY <1>1, <1>3, <2>1, <2>2
<1>5. /\ part' \in [Pages -> [Slices -> Files \union {None}]]
      /\ part'[My(a)][s] # None /\ Len(part'[My(a)][s].data) = wk[a][s].at
      /\ \A q \in Pages, t \in Slices : q # My(a) \/ t # s => part'[q][t] = part[q][t]
  BY FetchOpenFacts
<1>6. PartialShape' BY <1>1, <1>2, <1>5 DEF PartialShape, StoreInv, Shape
<1>7. WorkOK(a, s)'
  <2>1. My(a)' = My(a) /\ At(a, "fetch")' BY <1>1, <1>2 DEF My, At
  <2>2. wk'[a][s].st = "open" /\ wk'[a][s].at = wk[a][s].at BY <1>2, <1>4 DEF Jobs
  <2> QED BY <1>5, <2>1, <2>2 DEF WorkOK, State, Present, Data
<1> QED BY <1>1, <1>4, <1>5, <1>6, <1>7, WorkerStep DEF bounds

\* The next block lands behind what the file holds, whatever its open mode.
LEMMA WrittenFacts ==
  ASSUME NEW data \in Blk, NEW append \in BOOLEAN, Len(data) < SliceLen
  PROVE  LET w == Written(data, append, Len(data)) IN
           /\ w \in Blk /\ Len(w) = Len(data) + 1
           /\ \A i \in 1..Len(data) : w[i] = data[i]
           /\ w[Len(data) + 1] = Len(data) + 1
<1> DEFINE n == Len(data)
           w == Written(data, append, n)
<1>1. n \in Nat /\ data \in Seq(0..SliceLen) /\ n + 1 \in 0..SliceLen /\ n + 1 <= SliceLen
  BY PageStoreAssumption DEF Blk
<1>2. CASE append
  <2>1. w = Append(data, n + 1) BY <1>2 DEF Written
  <2> HIDE DEF n, w
  <2>2. w \in Seq(0..SliceLen) /\ Len(w) = n + 1 /\ w[n + 1] = n + 1
        /\ \A i \in 1..n : w[i] = data[i]
    BY <1>1, <2>1 DEF n
  <2> QED BY <1>1, <2>2 DEF Blk, n, w
<1>3. CASE ~append
  <2>1. Max({n, n + 1}) = n + 1 BY <1>1, MaxOfTwo
  <2>2. w = [i \in 1..(n + 1) |-> IF i = n + 1 THEN i ELSE IF i <= n THEN data[i] ELSE 0]
    BY <1>3, <2>1 DEF Written
  <2> HIDE DEF w
  <2>3. \A i \in 1..n : data[i] \in 0..SliceLen
    <3>1. data \in Seq(0..SliceLen) BY <1>1
    <3>2. data \in [1..Len(data) -> 0..SliceLen] BY <3>1, LenProperties
    <3> QED BY <3>2
  <2> HIDE DEF n
  <2>4. w \in [1..(n + 1) -> 0..SliceLen] BY <1>1, <2>2, <2>3
  <2>5. w \in Seq(0..SliceLen) /\ Len(w) = n + 1
    <3>1. n + 1 \in Nat BY <1>1
    <3>2. w \in Seq(0..SliceLen) BY <2>4, <3>1, SeqDef
    <3>3. DOMAIN w = 1..(n + 1) /\ DOMAIN w = 1..Len(w) /\ Len(w) \in Nat
      BY <2>4, <3>2, LenProperties
    <3> QED BY <3>1, <3>2, <3>3
  <2>6. w[n + 1] = n + 1 /\ \A i \in 1..n : w[i] = data[i] BY <1>1, <2>2
  <2> QED BY <1>1, <2>5, <2>6 DEF Blk, n, w
<1> QED BY <1>2, <1>3

LEMMA FetchBlockFacts ==
  ASSUME StoreInv, NEW a \in Actors, NEW s \in Slices, FetchBlock(a, s)
  PROVE  LET p == My(a)
             w == wk[a][s]
             data == Written(Data(p, s), w.append, w.at)
         IN /\ p \in Pages /\ At(a, "fetch") /\ w \in Jobs /\ w.at < SliceLen
            /\ State(a, s) = "open" /\ Present(p, s) /\ Len(Data(p, s)) = w.at
            /\ part[p][s] \in Files /\ Data(p, s) \in Blk
            /\ data \in Blk /\ Len(data) = w.at + 1 /\ data[w.at + 1] = w.at + 1
            /\ \A i \in 1..w.at : data[i] = Data(p, s)[i]
            /\ wk' = [wk EXCEPT ![a][s] = [w EXCEPT !.at = w.at + 1]]
            /\ part'[p][s] = [part[p][s] EXCEPT !.data = data]
            /\ part' = [part EXCEPT ![p][s] = part'[p][s]]
<1> DEFINE p == My(a)
           w == wk[a][s]
           data == Written(Data(p, s), w.append, w.at)
<1>1. /\ State(a, s) = "open" /\ w.at < SliceLen
      /\ wk' = [wk EXCEPT ![a][s] = [w EXCEPT !.at = w.at + 1]]
      /\ part' = [part EXCEPT ![p][s].data = data]
  <2>1. State(a, s) = "open" BY DEF StoreInv, WorkInv, WorkOK, FetchBlock
  <2> QED BY <2>1 DEF FetchBlock, SetWork, State, Data
<1>2. p \in Pages /\ At(a, "fetch") /\ w \in Jobs BY <1>1, WorkerPage
<1>3. part \in [Pages -> [Slices -> Files \union {None}]] BY DEF StoreInv, Shape, PartialShape
<1>4. Present(p, s) /\ Len(Data(p, s)) = w.at BY <1>1 DEF StoreInv, WorkInv, WorkOK
<1>5. part[p][s] \in Files /\ Data(p, s) \in Blk BY <1>2, <1>4, SizeFacts
<1>6. /\ data \in Blk /\ Len(data) = w.at + 1 /\ data[w.at + 1] = w.at + 1
      /\ \A i \in 1..w.at : data[i] = Data(p, s)[i]
  <2>1. w.append \in BOOLEAN BY <1>2 DEF Jobs
  <2> QED BY <1>1, <1>4, <1>5, <2>1, WrittenFacts
<1> HIDE DEF data
<1>7. part'[p][s] = [part[p][s] EXCEPT !.data = data] /\ part' = [part EXCEPT ![p][s] = part'[p][s]]
  BY <1>1, <1>2, <1>3
<1> QED BY <1>1, <1>2, <1>4, <1>5, <1>6, <1>7 DEF data

LEMMA FetchBlockKeeps ==
  ASSUME StoreInv, NEW a \in Actors, NEW s \in Slices, FetchBlock(a, s) PROVE StoreInv'
<1> DEFINE p == My(a)
           w == wk[a][s]
           data == Written(Data(p, s), w.append, w.at)
<1>1. /\ p \in Pages /\ At(a, "fetch") /\ w \in Jobs /\ w.at < SliceLen
      /\ State(a, s) = "open" /\ Len(Data(p, s)) = w.at /\ part[p][s] \in Files
      /\ data \in Blk /\ Len(data) = w.at + 1
      /\ wk' = [wk EXCEPT ![a][s] = [w EXCEPT !.at = w.at + 1]]
      /\ part'[p][s] = [part[p][s] EXCEPT !.data = data]
      /\ part' = [part EXCEPT ![p][s] = part'[p][s]]
  BY FetchBlockFacts
<1>2. UNCHANGED <<disk, journal, pdir, memory, th, bounds>> BY DEF FetchBlock
<1>3. wk \in [Actors -> [Slices -> Jobs]] /\ part \in [Pages -> [Slices -> Files \union {None}]]
  BY DEF StoreInv, Shape, JobShape, PartialShape
<1> HIDE DEF w, data
<1>4. /\ wk'[a][s] = [w EXCEPT !.at = w.at + 1] /\ wk'[a][s] \in Jobs
      /\ wk' = [wk EXCEPT ![a][s] = wk'[a][s]]
  <2>1. wk'[a][s] = [w EXCEPT !.at = w.at + 1] BY <1>1, <1>3
  <2>2. w.at + 1 \in 0..SliceLen BY <1>1, PageStoreAssumption DEF Jobs
  <2>3. wk'[a][s] \in Jobs BY <1>1, <2>1, <2>2 DEF Jobs
  <2> QED BY <1>1, <1>3, <2>1, <2>3
<1>5. part'[p][s] \in Files /\ part'[p][s].data = data
  <2>1. part[p][s].synced <= Len(data) /\ part[p][s].synced \in Nat
    <3>1. part[p][s].synced <= w.at /\ part[p][s].synced \in Nat /\ w.at \in Nat
      BY <1>1 DEF Files, Jobs, Data
    <3> QED BY <1>1, <3>1
  <2>2. part[p][s] \in [data : Blk, synced : Nat] BY <1>1 DEF Files
  <2> QED BY <1>1, <2>1, <2>2 DEF Files
<1>6. /\ part' \in [Pages -> [Slices -> Files \union {None}]]
      /\ \A q \in Pages, t \in Slices : q # p \/ t # s => part'[q][t] = part[q][t]
  <2> HIDE DEF p
  <2> QED BY <1>1, <1>3, <1>5
<1>7. PartialShape' BY <1>2, <1>6 DEF PartialShape, StoreInv, Shape
<1>8. WorkOK(a, s)'
  <2>1. My(a)' = p /\ At(a, "fetch")' BY <1>1, <1>2 DEF My, At
  <2>2. wk'[a][s].st = "open" /\ wk'[a][s].at = w.at + 1 BY <1>1, <1>4 DEF Jobs, State, w
  <2> QED BY <1>1, <1>5, <2>1, <2>2, NoneIsFresh DEF WorkOK, State, Present, Data
<1> QED BY <1>1, <1>2, <1>4, <1>6, <1>7, <1>8, WorkerStep DEF bounds

\* A worker that has its file open and is done makes all of it durable.
LEMMA SyncedFacts ==
  ASSUME StoreInv, NEW a \in Actors, NEW s \in Slices, State(a, s) # "off"
  PROVE  LET p == My(a)
             f == Synced(a, s)
         IN /\ f \in [Pages -> [Slices -> Files \union {None}]]
            /\ \A q \in Pages, t \in Slices :
                 /\ q # p \/ t # s => f[q][t] = part[q][t]
                 /\ f[q][t] = None <=> part[q][t] = None
                 /\ f[q][t] # None => f[q][t].data = part[q][t].data
            /\ IF State(a, s) = "open"
                 THEN f[p][s] # None /\ f[p][s].synced = Len(f[p][s].data)
                 ELSE f = part
<1> DEFINE p == My(a)
           f == Synced(a, s)
<1>1. part \in [Pages -> [Slices -> Files \union {None}]] BY DEF StoreInv, Shape, PartialShape
<1>2. CASE State(a, s) # "open" BY <1>1, <1>2 DEF Synced
<1>3. CASE State(a, s) = "open"
  <2>1. p \in Pages /\ Present(p, s) BY <1>3, WorkerPage DEF StoreInv, WorkInv, WorkOK
  <2>2. part[p][s] \in Files /\ SizeOf(p, s) = Len(Data(p, s)) /\ SizeOf(p, s) \in Nat
    BY <2>1, SizeFacts, PageStoreAssumption
  <2> DEFINE g == [part[p][s] EXCEPT !.synced = SizeOf(p, s)]
  <2>3. f = [part EXCEPT ![p][s].synced = SizeOf(p, s)] BY <1>3 DEF Synced
  <2>4. f = [part EXCEPT ![p][s] = g] BY <1>1, <2>1, <2>3
  <2>5. g \in Files /\ g.data = part[p][s].data /\ g.synced = Len(g.data)
    BY <2>2 DEF Files, Data
  <2> HIDE DEF f, g, p
  <2>6. f \in [Pages -> [Slices -> Files \union {None}]] BY <1>1, <2>1, <2>4, <2>5
  <2>7. f[p][s] = g /\ \A q \in Pages, t \in Slices : q # p \/ t # s => f[q][t] = part[q][t]
    BY <1>1, <2>1, <2>4
  <2>8. part[p][s] # None /\ g # None BY <2>2, <2>5, NoneIsFresh
  <2> QED BY <1>3, <2>5, <2>6, <2>7, <2>8 DEF f, p
<1> QED BY <1>2, <1>3

\* A worker that is done with its file.
LEMMA DoneKeeps ==
  ASSUME StoreInv, NEW a \in Actors, NEW s \in Slices, State(a, s) # "off",
         NEW st \in {"recordOk", "recordErr", "ok", "err"},
         SetWork(a, s, [NoWork[s] EXCEPT !.st = st]),
         part' = part \/ part' = Synced(a, s),
         journal' \in [Pages -> [Slices -> Records]], pdir' \subseteq Pages,
         UNCHANGED <<disk, memory, th, calls>>
  PROVE  StoreInv'
<1>1. At(a, "fetch") BY WorkerPage
<1>2. wk'[a][s] \in Jobs /\ wk'[a][s].st = st /\ wk' = [wk EXCEPT ![a][s] = wk'[a][s]]
  <2>1. wk' = [wk EXCEPT ![a][s] = [NoWork[s] EXCEPT !.st = st]] BY DEF SetWork
  <2>2. wk'[a][s] = [NoWork[s] EXCEPT !.st = st] BY <2>1 DEF StoreInv, Shape, JobShape
  <2>3. wk'[a][s] \in Jobs /\ wk'[a][s].st = st BY <2>2, NoWorkShape DEF Jobs, WorkStates
  <2> QED BY <2>1, <2>2, <2>3
<1>3. /\ PartialShape'
      /\ \A q \in Pages, t \in Slices : q # My(a) \/ t # s => part'[q][t] = part[q][t]
  BY SyncedFacts DEF PartialShape, StoreInv, Shape
<1>4. WorkOK(a, s)' BY <1>1, <1>2 DEF WorkOK, State, At
<1> QED BY <1>2, <1>3, <1>4, WorkerStep

LEMMA FetchEndKeeps ==
  ASSUME StoreInv, NEW a \in Actors, NEW s \in Slices, FetchEnd(a, s) PROVE StoreInv'
<1>1. State(a, s) # "off" BY DEF FetchEnd
<1>2. UNCHANGED <<disk, memory, th, calls>> /\ part' = Synced(a, s)
      /\ journal' \in [Pages -> [Slices -> Records]] /\ pdir' \subseteq Pages
  BY DEF FetchEnd, bounds, StoreInv, Shape, PartialShape
<1>3. CASE SizeOf(My(a), s) = SliceLen BY <1>1, <1>2, <1>3, DoneKeeps DEF FetchEnd
<1>4. CASE SizeOf(My(a), s) # SliceLen BY <1>1, <1>2, <1>4, DoneKeeps DEF FetchEnd
<1> QED BY <1>3, <1>4

LEMMA FetchAbortKeeps ==
  ASSUME StoreInv, NEW a \in Actors, NEW s \in Slices, FetchAbort(a, s) PROVE StoreInv'
<1>1. State(a, s) # "off" BY DEF FetchAbort
<1>2. UNCHANGED <<disk, memory, th, calls>> /\ part' = Synced(a, s)
      /\ journal' \in [Pages -> [Slices -> Records]] /\ pdir' \subseteq Pages
  BY DEF FetchAbort, bounds, StoreInv, Shape, PartialShape
<1> QED BY <1>1, <1>2, DoneKeeps DEF FetchAbort

LEMMA FetchRecordKeeps ==
  ASSUME StoreInv, NEW a \in Actors, NEW s \in Slices, FetchRecord(a, s) PROVE StoreInv'
<1>1. State(a, s) # "off" BY DEF FetchRecord
<1>2. My(a) \in Pages BY <1>1, WorkerPage
<1>3. UNCHANGED <<disk, memory, th, calls>> /\ part' = part BY DEF FetchRecord, bounds
<1>4. journal' \in [Pages -> [Slices -> Records]] /\ pdir' \subseteq Pages
  <2>1. CASE SizeOf(My(a), s) > 0
    <3>1. Present(My(a), s) BY <2>1 DEF SizeOf, Present
    <3>2. Data(My(a), s) \in Records BY <1>2, <3>1, SizeFacts DEF Records
    <3>3. /\ journal' = [journal EXCEPT ![My(a)][s] = Data(My(a), s)]
          /\ pdir' = pdir \union {My(a)}
      BY <2>1 DEF FetchRecord
    <3>4. journal \in [Pages -> [Slices -> Records]] /\ pdir \subseteq Pages
      BY DEF StoreInv, Shape, PartialShape
    <3> QED BY <1>2, <3>2, <3>3, <3>4
  <2>2. CASE ~(SizeOf(My(a), s) > 0)
    BY <2>2 DEF FetchRecord, StoreInv, Shape, PartialShape
  <2> QED BY <2>1, <2>2
<1>5. CASE State(a, s) = "recordOk" BY <1>1, <1>3, <1>4, <1>5, DoneKeeps DEF FetchRecord
<1>6. CASE State(a, s) # "recordOk" BY <1>1, <1>3, <1>4, <1>6, DoneKeeps DEF FetchRecord
<1> QED BY <1>5, <1>6

LEMMA CancelFetchKeeps == ASSUME StoreInv, NEW a \in Actors, CancelFetch(a) PROVE StoreInv'
<1>0. th \in [Actors -> Threads] /\ At(a, "fetch") /\ th[a] \in Threads
  BY DEF StoreInv, Shape, ThreadShape, CancelFetch
<1>1. ThreadShape' /\ Others(a) /\ My(a)' = My(a) /\ th'[a].pc = "fetch"
  <2>1. th' = [th EXCEPT ![a].cancel = TRUE] BY DEF CancelFetch
  <2>2. th'[a] = [th[a] EXCEPT !.cancel = TRUE] BY <1>0, <2>1
  <2>3. th'[a] \in Threads BY <1>0, <2>2 DEF Threads
  <2> QED BY <1>0, <2>1, <2>2, <2>3 DEF ThreadShape, Others, My, Threads, At
<1>2. /\ JobShape' /\ \A b \in Actors \ {a} : wk'[b] = wk[b]
      /\ \A s \in Slices : wk'[a][s] = IF State(a, s) = "queued" THEN NoWork[s] ELSE wk[a][s]
  BY NoWorkShape DEF CancelFetch, StoreInv, Shape, JobShape
<1>3. DiskShape' /\ PartialShape' /\ MemoryShape'
  BY DEF StoreInv, Shape, DiskShape, PartialShape, MemoryShape, CancelFetch, disk, partial, memory, bounds
<1>4. LockInv' /\ IdleInv' /\ Alone' /\ CountInv'
  BY <1>0, <1>1, ControlStep DEF CancelFetch, memory, bounds, At, Locked, Dropping
<1>5. WorkInv' /\ VictimInv' /\ LeaseInv' /\ ReserveInv'
  <2>1. ASSUME NEW s \in Slices PROVE WorkOK(a, s)'
    <3>1. WorkOK(a, s) BY DEF StoreInv, WorkInv
    <3>2. part' = part /\ My(a)' = My(a) BY <1>1 DEF CancelFetch, partial
    <3>3. CASE State(a, s) = "queued"
      BY <1>1, <1>2, <3>3, NoWorkShape DEF WorkOK, State, At
    <3>4. CASE State(a, s) # "queued"
      <4>1. wk'[a][s] = wk[a][s] BY <1>2, <3>4
      <4> QED BY <1>1, <3>1, <3>2, <4>1 DEF WorkOK, State, At, SizeOf, Present, Data
    <3> QED BY <3>3, <3>4
  <2>2. My(a) \in reserved BY <1>0 DEF StoreInv, ReserveInv, At
  <2> QED BY <1>0, <1>1, <1>2, <2>1, <2>2, CallStep DEF CancelFetch, partial, memory, At, Dropping
<1>6. HeldInv'
  <2>1. HeldOK(a)' BY <1>1 DEF HeldOK, At
  <2> QED BY <1>1, <2>1, HeldStep DEF CancelFetch, disk
<1> QED BY <1>1, <1>2, <1>3, <1>4, <1>5, <1>6 DEF StoreInv, Shape

LEMMA FetchFailedKeeps == ASSUME StoreInv, NEW a \in Actors, FetchFailed(a) PROVE StoreInv'
<1>0. th \in [Actors -> Threads] /\ At(a, "fetch") /\ th[a] \in Threads
  BY DEF StoreInv, Shape, ThreadShape, FetchFailed
<1>1. ThreadShape' /\ Others(a) /\ My(a)' = My(a) /\ th'[a].pc = "cancel"
  <2>1. th' = [th EXCEPT ![a].pc = "cancel", ![a].cancel = FALSE] BY DEF FetchFailed
  <2>2. th'[a] = [th[a] EXCEPT !.pc = "cancel", !.cancel = FALSE] BY <1>0, <2>1
  <2>3. th'[a] \in Threads BY <1>0, <2>2 DEF Threads, PCs
  <2> QED BY <1>0, <2>1, <2>2, <2>3 DEF ThreadShape, Others, My, Threads
<1>2. wk'[a] = NoWork /\ JobShape' /\ \A b \in Actors \ {a} : wk'[b] = wk[b]
  BY NoWorkShape DEF FetchFailed, JobShape, StoreInv, Shape
<1>3. DiskShape' /\ PartialShape' /\ MemoryShape'
  BY DEF StoreInv, Shape, DiskShape, PartialShape, MemoryShape, FetchFailed, disk, partial, memory, bounds
<1>4. LockInv' /\ IdleInv' /\ Alone' /\ CountInv'
  BY <1>0, <1>1, ControlStep DEF FetchFailed, memory, bounds, At, Locked, Dropping
<1>5. WorkInv' /\ VictimInv' /\ LeaseInv' /\ ReserveInv'
  BY <1>0, <1>1, <1>2, NoWorkShape, QuietStep DEF FetchFailed, partial, memory, At, Dropping
<1>6. HeldInv'
  <2>1. HeldOK(a)' BY <1>1 DEF HeldOK, At
  <2> QED BY <1>1, <2>1, HeldStep DEF FetchFailed, disk
<1> QED BY <1>1, <1>2, <1>3, <1>4, <1>5, <1>6 DEF StoreInv, Shape

-----------------------------------------------------------------------------
(* commit and release.                                                     *)

LEMMA StartCommitKeeps == ASSUME StoreInv, NEW a \in Actors, StartCommit(a) PROVE StoreInv'
<1>0. th \in [Actors -> Threads] /\ At(a, "fetch") /\ th[a] \in Threads
  BY DEF StoreInv, Shape, ThreadShape, StartCommit
<1>1. ThreadShape' /\ Others(a) /\ My(a)' = My(a) /\ th'[a].pc = "fit" /\ lock = None /\ lock' = a
  <2>1. th' = [th EXCEPT ![a].pc = "fit", ![a].back = "commit"] BY DEF StartCommit
  <2>2. th'[a] = [th[a] EXCEPT !.pc = "fit", !.back = "commit"] BY <1>0, <2>1
  <2>3. th'[a] \in Threads BY <1>0, <2>2 DEF Threads, PCs
  <2>4. lock = None /\ lock' = a BY DEF StartCommit
  <2> QED BY <1>0, <2>1, <2>2, <2>3, <2>4 DEF ThreadShape, Others, My, Threads
<1>2. wk'[a] = NoWork /\ JobShape' /\ \A b \in Actors \ {a} : wk'[b] = wk[b]
  BY NoWorkShape DEF StartCommit, JobShape, StoreInv, Shape
<1>3. DiskShape' /\ PartialShape' /\ MemoryShape'
  BY <1>1 DEF StoreInv, Shape, DiskShape, PartialShape, MemoryShape, StartCommit, disk, partial, bounds
<1>4. LockInv' /\ IdleInv' /\ Alone' /\ CountInv'
  BY <1>0, <1>1, ControlStep DEF StartCommit, bounds, At, Locked, Dropping
<1>5. WorkInv' /\ VictimInv' /\ LeaseInv' /\ ReserveInv'
  BY <1>0, <1>1, <1>2, NoWorkShape, QuietStep DEF StartCommit, partial, At, Dropping
<1>6. HeldInv'
  <2>1. HeldOK(a)' BY <1>1 DEF HeldOK, At
  <2> QED BY <1>1, <2>1, HeldStep DEF StartCommit, disk
<1> QED BY <1>1, <1>2, <1>3, <1>4, <1>5, <1>6 DEF StoreInv, Shape

\* The page of a thread in commit is nobody else's.
LEMMA OthersPages ==
  ASSUME StoreInv, NEW a \in Actors, ~At(a, "idle"), ~At(a, "held"),
         \A p \in Pages \ {My(a)} : page'[p] = page[p] /\ manifest'[p] = manifest[p]
  PROVE  \A b \in Actors \ {a} : th[b].pc \in {"manifest", "index", "clean", "held"} =>
           page'[My(b)] = page[My(b)] /\ manifest'[My(b)] = manifest[My(b)]
<1> SUFFICES ASSUME NEW b \in Actors \ {a}, th[b].pc \in {"manifest", "index", "clean", "held"}
             PROVE  My(b) \in Pages /\ My(b) # My(a)
  OBVIOUS
<1>1. ~At(b, "idle") BY DEF At
<1> QED BY <1>1, OwnPage, ApartFrom

LEMMA AssembleKeeps == ASSUME StoreInv, NEW a \in Actors, Assemble(a) PROVE StoreInv'
<1> DEFINE p == My(a)
           c == [s \in Slices |-> Data(p, s)]
<1>0. th \in [Actors -> Threads] /\ At(a, "assemble") /\ th[a] \in Threads
  BY DEF StoreInv, Shape, ThreadShape, Assemble
<1>1. p \in Pages BY <1>0, OwnPage DEF At
<1>2. /\ ThreadShape' /\ Others(a) /\ My(a)' = p
      /\ \/ th'[a].pc = "manifest" /\ lock' = lock
         \/ th'[a].pc = "cancel" /\ lock' = None
  <2>1. ASSUME NEW pc \in {"manifest", "cancel"}, Goto(a, pc)
        PROVE  ThreadShape' /\ Others(a) /\ My(a)' = p /\ th'[a].pc = pc
    <3>1. th' = [th EXCEPT ![a].pc = pc] BY <2>1 DEF Goto
    <3>2. th'[a] = [th[a] EXCEPT !.pc = pc] BY <1>0, <3>1
    <3>3. th'[a] \in Threads BY <1>0, <3>2 DEF Threads, PCs
    <3> QED BY <1>0, <3>1, <3>2, <3>3 DEF ThreadShape, Others, My, Threads
  <2>2. \/ Goto(a, "manifest") /\ lock' = lock
        \/ Goto(a, "cancel") /\ lock' = None
    BY DEF Assemble
  <2> QED BY <2>1, <2>2
<1>3. /\ page' \in [Pages -> Contents \union {None}]
      /\ th'[a].pc = "manifest" => page'[p] # None
      /\ \A q \in Pages \ {p} : page'[q] = page[q]
  <2>0. page \in [Pages -> Contents \union {None}] BY DEF StoreInv, Shape, DiskShape
  <2>1. CASE \A s \in Slices : Complete(p, s)
    <3>1. page' = [page EXCEPT ![p] = c] BY <2>1 DEF Assemble
    <3>2. \A s \in Slices : Data(p, s) \in Blk BY <1>1, <2>1, SizeFacts DEF Complete
    <3>3. c \in Contents BY <3>2 DEF Contents
    <3> HIDE DEF c, p
    <3> QED BY <1>1, <2>0, <3>1, <3>3, NoneIsFresh
  <2>2. CASE ~ \A s \in Slices : Complete(p, s)
    <3>1. page' = page /\ th' = [th EXCEPT ![a].pc = "cancel"] BY <2>2 DEF Assemble, Goto
    <3>2. th'[a].pc = "cancel" BY <1>0, <3>1 DEF Threads
    <3> QED BY <2>0, <3>1, <3>2
  <2> QED BY <2>1, <2>2
<1>4. UNCHANGED <<manifest, index, part, journal, pdir, leases, reserved, wk, calls>>
  BY DEF Assemble, partial, bounds
<1>5. DiskShape' /\ PartialShape' /\ MemoryShape' /\ JobShape'
  BY <1>2, <1>3, <1>4 DEF StoreInv, Shape, DiskShape, PartialShape, MemoryShape, JobShape
<1>6. LockInv' /\ IdleInv' /\ Alone' /\ CountInv'
  BY <1>0, <1>2, <1>4, ControlStep DEF At, Locked, Dropping
<1>7. WorkInv' /\ VictimInv' /\ LeaseInv' /\ ReserveInv'
  <2>1. \A s \in Slices : State(a, s) = "off" BY <1>0, JobsAreOff DEF At
  <2> QED BY <1>0, <1>2, <1>4, <2>1, QuietStep DEF At, State, Dropping
<1>8. HeldInv'
  <2>1. HeldOK(a)' BY <1>2, <1>3 DEF HeldOK, At
  <2> QED BY <1>0, <1>2, <1>3, <1>4, <2>1, OthersPages, HeldStep DEF At
<1> QED BY <1>2, <1>5, <1>6, <1>7, <1>8 DEF StoreInv, Shape

LEMMA WriteManifestKeeps == ASSUME StoreInv, NEW a \in Actors, WriteManifest(a) PROVE StoreInv'
<1> DEFINE p == My(a)
<1>0. th \in [Actors -> Threads] /\ At(a, "manifest") BY DEF StoreInv, Shape, ThreadShape, WriteManifest
<1>1. p \in Pages BY <1>0, OwnPage DEF At
<1>2. ThreadShape' /\ Others(a) /\ My(a)' = p /\ th'[a].pc = "index"
  <2>1. "index" \in PCs BY DEF PCs
  <2>2. Goto(a, "index") BY DEF WriteManifest
  <2> QED BY <1>0, <2>1, <2>2, GotoFacts
<1>3. page' = page /\ manifest' = [manifest EXCEPT ![p] = page[p]] /\ page[p] # None
  BY <1>0 DEF WriteManifest, StoreInv, HeldInv, HeldOK
<1>4. UNCHANGED <<index, part, journal, pdir, lock, leases, reserved, wk, calls>>
  BY DEF WriteManifest, partial, memory, bounds
<1>5. DiskShape' /\ PartialShape' /\ MemoryShape' /\ JobShape'
  BY <1>1, <1>3, <1>4 DEF StoreInv, Shape, DiskShape, PartialShape, MemoryShape, JobShape
<1>6. LockInv' /\ IdleInv' /\ Alone' /\ CountInv'
  BY <1>0, <1>2, <1>4, ControlStep DEF At, Locked, Dropping
<1>7. WorkInv' /\ VictimInv' /\ LeaseInv' /\ ReserveInv'
  <2>1. \A s \in Slices : State(a, s) = "off" BY <1>0, JobsAreOff DEF At
  <2> QED BY <1>0, <1>2, <1>4, <2>1, QuietStep DEF At, State, Dropping
<1>8. HeldInv'
  <2>1. manifest'[p] = page[p] /\ \A q \in Pages \ {p} : manifest'[q] = manifest[q]
    BY <1>1, <1>3 DEF StoreInv, Shape, DiskShape
  <2>2. HeldOK(a)' BY <1>2, <1>3, <2>1 DEF HeldOK, At
  <2> QED BY <1>0, <1>2, <1>3, <2>1, <2>2, OthersPages, HeldStep DEF At
<1> QED BY <1>2, <1>5, <1>6, <1>7, <1>8 DEF StoreInv, Shape

\* The leases when thread a takes hold of page p, which it did not hold.
LEMMA TakeLease ==
  ASSUME StoreInv, NEW a \in Actors, NEW p \in Pages, Others(a),
         My(a)' = p, th'[a].pc \in {"clean", "held"}, th[a].pc \notin {"clean", "held"},
         leases' = [leases EXCEPT ![p] = @ + 1]
  PROVE  LeaseInv'
<1>1. a \notin Holders(p) /\ Holders(p)' = Holders(p) \union {a} BY DEF Holders, Others, My
<1>2. \A q \in Pages \ {p} : Holders(q)' = Holders(q) BY DEF Holders, Others, My
<1>3. leases \in [Pages -> Nat] /\ \A q \in Pages : leases[q] = Cardinality(Holders(q))
  BY DEF StoreInv, Shape, MemoryShape, LeaseInv
<1>4. Cardinality(Holders(p)') = Cardinality(Holders(p)) + 1
  BY <1>1, HoldersAreFinite, FS_AddElement
<1>5. leases'[p] = leases[p] + 1 /\ \A q \in Pages \ {p} : leases'[q] = leases[q] BY <1>3
<1> QED BY <1>2, <1>3, <1>4, <1>5 DEF LeaseInv

LEMMA IndexPageKeeps == ASSUME StoreInv, NEW a \in Actors, IndexPage(a) PROVE StoreInv'
<1> DEFINE p == My(a)
<1>0. th \in [Actors -> Threads] /\ At(a, "index") BY DEF StoreInv, Shape, ThreadShape, IndexPage
<1>1. p \in Pages BY <1>0, OwnPage DEF At
<1>2. ThreadShape' /\ Others(a) /\ My(a)' = p /\ th'[a].pc = "clean"
  <2>1. "clean" \in PCs BY DEF PCs
  <2>2. Goto(a, "clean") BY DEF IndexPage
  <2> QED BY <1>0, <2>1, <2>2, GotoFacts
<1>3. UNCHANGED <<page, manifest, part, journal, pdir, lock, wk, calls>>
  BY DEF IndexPage, partial, bounds
<1>4. DiskShape' BY <1>1, <1>3, RowFacts DEF StoreInv, Shape, DiskShape, IndexPage
<1>5. MemoryShape'
  <2>1. reserved' \subseteq Pages /\ IsFiniteSet(reserved')
    BY FS_Subset DEF IndexPage, StoreInv, Shape, MemoryShape
  <2> QED BY <1>1, <1>3, <2>1 DEF StoreInv, Shape, MemoryShape, IndexPage
<1>6. PartialShape' /\ JobShape' BY <1>3 DEF StoreInv, Shape, PartialShape, JobShape
<1>7. LockInv' /\ IdleInv' /\ Alone' /\ CountInv'
  BY <1>0, <1>2, <1>3, ControlStep DEF At, Locked, Dropping
<1>8. LeaseInv' BY <1>0, <1>1, <1>2, TakeLease DEF IndexPage, At
<1>9. WorkInv'
  <2>1. \A s \in Slices : State(a, s) = "off" BY <1>0, JobsAreOff DEF At
  <2>2. \A s \in Slices : WorkOK(a, s)' BY <1>3, <2>1 DEF WorkOK, State
  <2> QED BY <1>0, <1>2, <1>3, <2>2, WorkStep DEF At
<1>10. VictimInv'
  <2>1. \A b \in Actors : th'[b].pc \notin Dropping
    BY <1>0, <1>2, LockIsExclusive DEF Others, Locked, Dropping, At
  <2> QED BY <2>1 DEF VictimInv
<1>11. ReserveInv'
  <2> SUFFICES ASSUME NEW b \in Actors \ {a}, th[b].pc \in {"prepare", "inspect", "fetch"}
               PROVE  My(b) \in reserved /\ My(b) # p
    BY <1>2 DEF ReserveInv, Others, My, IndexPage
  <2> QED BY <1>0, ApartFrom DEF StoreInv, ReserveInv, At
<1>12. HeldInv'
  <2>1. HeldOK(a) BY DEF StoreInv, HeldInv
  <2>2. HeldOK(a)' BY <1>0, <1>2, <1>3, <2>1 DEF HeldOK, At
  <2> QED BY <1>2, <1>3, <2>2, HeldStep
<1> QED BY <1>2, <1>4, <1>5, <1>6, <1>7, <1>8, <1>9, <1>10, <1>11, <1>12 DEF StoreInv, Shape

LEMMA CleanUpKeeps == ASSUME StoreInv, NEW a \in Actors, CleanUp(a) PROVE StoreInv'
<1> DEFINE p == My(a)
<1>0. th \in [Actors -> Threads] /\ At(a, "clean") BY DEF StoreInv, Shape, ThreadShape, CleanUp
<1>1. p \in Pages BY <1>0, OwnPage DEF At
<1>2. ThreadShape' /\ Others(a) /\ My(a)' = p /\ th'[a].pc = "held" /\ lock' = None
  <2>1. "held" \in PCs BY DEF PCs
  <2>2. Goto(a, "held") /\ lock' = None BY DEF CleanUp
  <2> QED BY <1>0, <2>1, <2>2, GotoFacts
<1>3. UNCHANGED <<page, manifest, index, leases, reserved, calls>> /\ wk' = wk
  BY <1>0, NobodyIsOrphaned DEF CleanUp, disk, bounds, At
<1>4. PartialShape'
  <2>1. NoEntries \in [Slices -> Records] /\ NoEntries \in [Slices -> Files \union {None}]
    BY DEF NoEntries, Records
  <2> QED BY <1>1, <2>1 DEF CleanUp, StoreInv, Shape, PartialShape
<1>5. DiskShape' /\ MemoryShape' /\ JobShape'
  BY <1>2, <1>3 DEF StoreInv, Shape, DiskShape, MemoryShape, JobShape
<1>6. LockInv' /\ IdleInv' /\ Alone' /\ CountInv'
  BY <1>0, <1>2, <1>3, ControlStep DEF At, Locked, Dropping
<1>7. LeaseInv' BY <1>0, <1>2, <1>3, LeaseStep DEF At
<1>8. WorkInv'
  <2>1. \A s \in Slices : State(a, s) = "off" BY <1>0, JobsAreOff DEF At
  <2>2. \A s \in Slices : WorkOK(a, s)' BY <1>3, <2>1 DEF WorkOK, State
  <2>3. \A q \in Pages \ {p} : part'[q] = part[q] BY DEF CleanUp, StoreInv, Shape, PartialShape
  <2> QED BY <1>0, <1>2, <1>3, <2>2, <2>3, WorkStep DEF At
<1>9. VictimInv' BY <1>2, <1>3 DEF StoreInv, VictimInv, Others, Dropping
<1>10. ReserveInv' BY <1>2, <1>3 DEF StoreInv, ReserveInv, Others, My
<1>11. HeldInv'
  <2>1. HeldOK(a) BY DEF StoreInv, HeldInv
  <2>2. HeldOK(a)' BY <1>0, <1>2, <1>3, <2>1 DEF HeldOK, At
  <2> QED BY <1>2, <1>3, <2>2, HeldStep
<1> QED BY <1>2, <1>4, <1>5, <1>6, <1>7, <1>8, <1>9, <1>10, <1>11 DEF StoreInv, Shape

LEMMA ReleaseKeeps == ASSUME StoreInv, NEW a \in Actors, Release(a) PROVE StoreInv'
<1>0. th \in [Actors -> Threads] /\ At(a, "held") /\ lock = None /\ lock' = None
  BY DEF StoreInv, Shape, ThreadShape, Release
<1>1. PICK p \in Pages : p = My(a) BY <1>0, OwnPage DEF At
<1>2. ThreadShape' /\ Others(a) /\ th'[a] = Idle
  BY <1>0, IdleShape DEF Release, ThreadShape, Others
<1>3. UNCHANGED <<page, manifest, index, part, journal, pdir, reserved, wk, calls>>
  BY DEF Release, disk, partial, bounds
<1>4. /\ leases' \in [Pages -> Nat] /\ leases'[p] = leases[p] - 1
      /\ \A q \in Pages \ {p} : leases'[q] = leases[q]
      /\ a \in Holders(p) /\ Cardinality(Holders(p)) = leases[p]
  <2>1. a \in Holders(p) BY <1>0, <1>1 DEF Holders, At
  <2>2. leases[p] = Cardinality(Holders(p)) BY <1>1 DEF StoreInv, LeaseInv
  <2>3. leases \in [Pages -> Nat] /\ leases[p] \in Nat /\ leases[p] # 0
    <3>1. leases \in [Pages -> Nat] BY DEF StoreInv, Shape, MemoryShape
    <3>2. Cardinality(Holders(p)) # 0 BY <2>1, HoldersAreFinite, FS_EmptySet
    <3> QED BY <1>1, <2>2, <3>1, <3>2
  <2>4. Max({0, leases[p] - 1}) = leases[p] - 1
    <3>1. Max({0, leases[p] - 1}) = IF 0 >= leases[p] - 1 THEN 0 ELSE leases[p] - 1
      BY <2>3, MaxOfTwo
    <3> QED BY <2>3, <3>1
  <2>5. leases' = [leases EXCEPT ![p] = leases[p] - 1] BY <1>1, <2>3, <2>4 DEF Release
  <2>6. leases' \in [Pages -> Nat] /\ leases'[p] = leases[p] - 1
        /\ \A q \in Pages \ {p} : leases'[q] = leases[q]
    BY <1>1, <2>3, <2>5
  <2> QED BY <2>1, <2>2, <2>6
<1>5. DiskShape' /\ PartialShape' /\ MemoryShape' /\ JobShape'
  BY <1>0, <1>3, <1>4 DEF StoreInv, Shape, DiskShape, PartialShape, MemoryShape, JobShape
<1>6. LockInv' /\ IdleInv' /\ Alone' /\ CountInv'
  BY <1>0, <1>2, <1>3, IdleShape, ControlStep DEF At, Locked, Dropping
<1>7. LeaseInv'
  <2>1. Holders(p)' = Holders(p) \ {a}
    <3>1. a \notin Holders(p)' BY <1>2, IdleShape DEF Holders
    <3>2. \A b \in Actors \ {a} : b \in Holders(p)' <=> b \in Holders(p) BY <1>2 DEF Holders, Others, My
    <3> QED BY <3>1, <3>2 DEF Holders
  <2>2. \A q \in Pages \ {p} : Holders(q)' = Holders(q) BY <1>1, <1>2, IdleShape DEF Holders, Others, My
  <2>3. Cardinality(Holders(p)') = Cardinality(Holders(p)) - 1
    BY <1>4, <2>1, HoldersAreFinite, FS_RemoveElement
  <2> QED BY <1>4, <2>2, <2>3 DEF LeaseInv, StoreInv
<1>8. WorkInv'
  <2> SUFFICES ASSUME NEW b \in Actors, NEW s \in Slices PROVE WorkOK(b, s)' BY DEF WorkInv
  <2>1. WorkOK(b, s) BY DEF StoreInv, WorkInv
  <2>2. CASE b = a
    <3>1. State(a, s) = "off" BY <1>0, JobsAreOff DEF At
    <3> QED BY <1>3, <2>2, <3>1 DEF WorkOK, State
  <2>3. CASE b # a
    <3>1. th'[b] = th[b] BY <1>2, <2>3 DEF Others
    <3> QED BY <1>3, <2>1, <3>1 DEF WorkOK, State, At, My, SizeOf, Present, Data
  <2> QED BY <2>2, <2>3
<1>9. VictimInv'
  <2>1. \A b \in Actors : th'[b].pc \notin Dropping
    BY <1>0, <1>2, IdleShape, LockIsExclusive DEF Others, Locked, Dropping, At
  <2> QED BY <2>1 DEF VictimInv
<1>10. ReserveInv' BY <1>2, <1>3, IdleShape DEF StoreInv, ReserveInv, Others, My
<1>11. HeldInv'
  <2>1. HeldOK(a)' BY <1>2, IdleShape DEF HeldOK, At
  <2> QED BY <1>2, <1>3, <2>1, HeldStep
<1> QED BY <1>2, <1>5, <1>6, <1>7, <1>8, <1>9, <1>10, <1>11 DEF StoreInv, Shape

-----------------------------------------------------------------------------
(* lookup.                                                                 *)

\* A call that starts: nobody else faults in its page.
LEMMA EnterStep ==
  ASSUME StoreInv, Shared = {}, NEW a \in Actors, NEW p \in Pages, Enter(a, p),
         ThreadShape', Others(a), My(a)' = p, th'[a].pc \in {"resolve", "dropPage", "held"},
         th'[a].pc = "held" \/ \A b \in Actors \ {a} : My(b) # p,
         lock' = IF th'[a].pc = "dropPage" THEN a ELSE None
  PROVE  LockInv' /\ IdleInv' /\ Alone' /\ CountInv' /\ WorkInv' /\ ReserveInv'
<1>1. /\ At(a, "idle") /\ lock = None /\ calls' = calls + 1
      /\ \A b \in Actors \ {a} : My(b) = p => At(b, "held")
      /\ UNCHANGED <<part, wk, reserved>>
  BY DEF Enter, MayCall, partial
<1>2. \A b \in Actors : th[b].pc \notin Locked BY <1>1, NoneIsFresh DEF StoreInv, LockInv
<1>3. LockInv' BY <1>1, <1>2, NoneIsFresh DEF LockInv, Others, Locked, Dropping
<1>4. IdleInv' BY NoneIsFresh DEF StoreInv, IdleInv, Others, At, My
<1>5. Alone'
  <2>1. \A b \in Actors \ {a} : th'[b] = th[b] BY DEF Others
  <2>2. \A b \in Actors \ {a} : My(b)' = p => At(b, "held")' /\ At(a, "held")'
    BY <1>1, <2>1 DEF At, My
  <2> QED BY <2>1, <2>2 DEF StoreInv, Alone, At, My
<1>6. CountInv'
  <2>1. Engaged' = Engaged \union {a} /\ a \notin Engaged BY <1>1 DEF Engaged, Others, At
  <2>2. Engaged \in SUBSET Actors BY DEF Engaged
  <2>3. IsFiniteSet(Engaged) BY <2>2, PageStoreAssumption, FS_Subset
  <2>4. Cardinality(Engaged') = Cardinality(Engaged) + 1 /\ Cardinality(Engaged) \in Nat
    BY <2>1, <2>3, FS_AddElement, FS_CardinalityType
  <2> QED BY <1>1, <2>4 DEF StoreInv, CountInv, Shape, MemoryShape
<1>7. WorkInv'
  <2> SUFFICES ASSUME NEW b \in Actors, NEW s \in Slices PROVE WorkOK(b, s)' BY DEF WorkInv
  <2>1. CASE b = a
    <3>1. State(a, s) = "off" BY <1>1, JobsAreOff DEF At
    <3> QED BY <1>1, <2>1, <3>1 DEF WorkOK, State
  <2>2. CASE b # a
    <3>1. th'[b] = th[b] /\ WorkOK(b, s) BY <2>2 DEF Others, StoreInv, WorkInv
    <3> QED BY <1>1, <3>1 DEF WorkOK, State, At, My, SizeOf, Present, Data
  <2> QED BY <2>1, <2>2
<1>8. ReserveInv' BY <1>1 DEF StoreInv, ReserveInv, Others, My
<1> QED BY <1>3, <1>4, <1>5, <1>6, <1>7, <1>8

\* A page whose callers may fault it in is used by holders only, who know it
\* to be verified.
LEMMA EnterFacts ==
  ASSUME StoreInv, Shared = {}, NEW a \in Actors, NEW p \in Pages, Enter(a, p),
         Missing(p) \/ ~Verified(p)
  PROVE  /\ \A b \in Actors \ {a} : My(b) # p
         /\ leases[p] = 0
<1>1. ASSUME NEW b \in Actors \ {a}, My(b) = p PROVE FALSE
  <2>1. At(b, "held") BY <1>1 DEF Enter, MayCall
  <2>2. HeldOK(b) BY DEF StoreInv, HeldInv
  <2> QED BY <1>1, <2>1, <2>2 DEF HeldOK, At, Missing, Verified
<1>2. Holders(p) = {} BY <1>1 DEF Holders, Enter, At
<1> QED BY <1>1, <1>2, FS_EmptySet DEF StoreInv, LeaseInv

LEMMA EnterShape ==
  ASSUME StoreInv, NEW a \in Actors, NEW p \in Pages, Enter(a, p)
  PROVE  /\ PartialShape' /\ JobShape' /\ UNCHANGED <<page, manifest, reserved>>
         /\ calls' \in Nat /\ calls' <= MaxCalls
BY PageStoreAssumption
   DEF Enter, StoreInv, Shape, PartialShape, JobShape, MemoryShape, partial

LEMMA LookupMissKeeps ==
  ASSUME StoreInv, Shared = {}, NEW a \in Actors, NEW p \in Pages, LookupMiss(a, p)
  PROVE  StoreInv'
<1>0. /\ th \in [Actors -> Threads] /\ At(a, "idle") /\ Enter(a, p) /\ lock' = None
      /\ UNCHANGED <<page, manifest, leases>>
  BY DEF StoreInv, Shape, ThreadShape, LookupMiss, Enter
<1>1. ThreadShape' /\ Others(a) /\ My(a)' = p /\ th'[a].pc = "resolve"
  <2>1. th' = [th EXCEPT ![a].pc = "resolve", ![a].page = p] BY DEF LookupMiss
  <2>2. th'[a] = [th[a] EXCEPT !.pc = "resolve", !.page = p] BY <1>0, <2>1
  <2>3. th'[a] \in Threads BY <1>0, <2>2 DEF Threads, PCs
  <2> QED BY <1>0, <2>1, <2>2, <2>3 DEF ThreadShape, Others, My, Threads
<1>2. \A b \in Actors \ {a} : My(b) # p BY <1>0, EnterFacts DEF LookupMiss
<1>3. LockInv' /\ IdleInv' /\ Alone' /\ CountInv' /\ WorkInv' /\ ReserveInv'
  BY <1>0, <1>1, <1>2, EnterStep
<1>4. DiskShape' BY <1>0, RowFacts DEF StoreInv, Shape, DiskShape, LookupMiss
<1>5. MemoryShape' BY <1>0, EnterShape DEF StoreInv, Shape, MemoryShape
<1>6. LeaseInv' BY <1>0, <1>1, LeaseStep DEF At
<1>7. VictimInv' BY <1>0, <1>1 DEF StoreInv, VictimInv, Others, Dropping
<1>8. HeldInv'
  <2>1. HeldOK(a)' BY <1>1 DEF HeldOK, At
  <2> QED BY <1>0, <1>1, <2>1, HeldStep
<1> QED BY <1>0, <1>1, <1>3, <1>4, <1>5, <1>6, <1>7, <1>8, EnterShape DEF StoreInv, Shape

LEMMA LookupCorruptKeeps ==
  ASSUME StoreInv, Shared = {}, NEW a \in Actors, NEW p \in Pages, LookupCorrupt(a, p)
  PROVE  StoreInv'
<1>0. /\ th \in [Actors -> Threads] /\ At(a, "idle") /\ Enter(a, p) /\ lock' = a
      /\ UNCHANGED <<page, manifest, index, leases>>
  BY DEF StoreInv, Shape, ThreadShape, LookupCorrupt, Enter
<1>1. /\ ThreadShape' /\ Others(a) /\ My(a)' = p /\ th'[a].pc = "dropPage" /\ th'[a].victim = p
  <2>1. th' = [th EXCEPT ![a].pc = "dropPage", ![a].page = p, ![a].back = "resolve", ![a].victim = p]
    BY DEF LookupCorrupt
  <2>2. th'[a] = [th[a] EXCEPT !.pc = "dropPage", !.page = p, !.back = "resolve", !.victim = p]
    BY <1>0, <2>1
  <2>3. th'[a] \in Threads BY <1>0, <2>2 DEF Threads, PCs
  <2>4. Others(a) BY <1>0, <2>1 DEF Others
  <2>5. th' \in [Actors -> Threads] BY <1>0, <2>1, <2>3
  <2> QED BY <1>0, <2>2, <2>3, <2>4, <2>5 DEF ThreadShape, My, Threads
<1>2. leases[p] = 0 /\ \A b \in Actors \ {a} : My(b) # p BY <1>0, EnterFacts DEF LookupCorrupt
<1>3. LockInv' /\ IdleInv' /\ Alone' /\ CountInv' /\ WorkInv' /\ ReserveInv'
  BY <1>0, <1>1, <1>2, EnterStep
<1>4. DiskShape' BY <1>0 DEF StoreInv, Shape, DiskShape
<1>5. MemoryShape' BY <1>0, EnterShape DEF StoreInv, Shape, MemoryShape
<1>6. LeaseInv' BY <1>0, <1>1, LeaseStep DEF At
<1>7. VictimInv' BY <1>0, <1>1, <1>2 DEF StoreInv, VictimInv, Others, Dropping
<1>8. HeldInv'
  <2>1. HeldOK(a)' BY <1>1 DEF HeldOK, At
  <2> QED BY <1>0, <1>1, <2>1, HeldStep
<1> QED BY <1>0, <1>1, <1>3, <1>4, <1>5, <1>6, <1>7, <1>8, EnterShape DEF StoreInv, Shape

LEMMA LookupHitKeeps ==
  ASSUME StoreInv, Shared = {}, NEW a \in Actors, NEW p \in Pages, LookupHit(a, p)
  PROVE  StoreInv'
<1>0. /\ th \in [Actors -> Threads] /\ At(a, "idle") /\ Enter(a, p) /\ lock' = None
      /\ UNCHANGED <<page, manifest>> /\ leases' = [leases EXCEPT ![p] = @ + 1]
  BY DEF StoreInv, Shape, ThreadShape, LookupHit, Enter
<1>1. ThreadShape' /\ Others(a) /\ My(a)' = p /\ th'[a].pc = "held"
  <2>1. th' = [th EXCEPT ![a].pc = "held", ![a].page = p] BY DEF LookupHit
  <2>2. th'[a] = [th[a] EXCEPT !.pc = "held", !.page = p] BY <1>0, <2>1
  <2>3. th'[a] \in Threads BY <1>0, <2>2 DEF Threads, PCs
  <2> QED BY <1>0, <2>1, <2>2, <2>3 DEF ThreadShape, Others, My, Threads
<1>2. page[p] # None /\ manifest[p] = page[p] BY DEF LookupHit, Missing, Verified
<1>3. LockInv' /\ IdleInv' /\ Alone' /\ CountInv' /\ WorkInv' /\ ReserveInv'
  BY <1>0, <1>1, EnterStep
<1>4. DiskShape' BY <1>0, RowFacts DEF StoreInv, Shape, DiskShape, LookupHit
<1>5. MemoryShape'
  <2>1. leases' \in [Pages -> Nat] BY <1>0 DEF StoreInv, Shape, MemoryShape
  <2> QED BY <1>0, <2>1, EnterShape DEF StoreInv, Shape, MemoryShape
<1>6. LeaseInv' BY <1>0, <1>1, TakeLease DEF At
<1>7. VictimInv'
  <2>1. \A b \in Actors : th'[b].pc \notin Dropping
    BY <1>0, <1>1, LockIsExclusive DEF Enter, Others, Locked, Dropping
  <2> QED BY <2>1 DEF VictimInv
<1>8. HeldInv'
  <2>1. HeldOK(a)' BY <1>0, <1>1, <1>2 DEF HeldOK, At
  <2> QED BY <1>0, <1>1, <2>1, HeldStep
<1> QED BY <1>0, <1>1, <1>3, <1>4, <1>5, <1>6, <1>7, <1>8, EnterShape DEF StoreInv, Shape

-----------------------------------------------------------------------------
(* The environment, and the invariant.                                     *)

LEMMA RotKeeps == ASSUME StoreInv, NEW p \in Pages, Rot(p) PROVE StoreInv'
<1>1. /\ lock = None /\ leases[p] = 0 /\ page' = [page EXCEPT ![p] = Rotten]
      /\ UNCHANGED <<manifest, index, part, journal, pdir, lock, leases, reserved, th, wk, calls>>
  BY DEF Rot, Unleased, partial, memory
<1>2. Rotten \in Contents
  <2>1. [i \in 1..SliceLen |-> 0] \in [1..SliceLen -> 0..SliceLen] BY PageStoreAssumption
  <2> DEFINE z == [i \in 1..SliceLen |-> 0]
  <2>2. z \in Seq(0..SliceLen) /\ Len(z) = SliceLen
    <3> HIDE DEF z
    <3>1. z \in [1..SliceLen -> 0..SliceLen] BY <2>1 DEF z
    <3>2. z \in Seq(0..SliceLen) BY <3>1, PageStoreAssumption, SeqDef
    <3>3. DOMAIN z = 1..SliceLen /\ DOMAIN z = 1..Len(z) /\ Len(z) \in Nat
      BY <3>1, <3>2, LenProperties
    <3> QED BY <3>2, <3>3, PageStoreAssumption
  <2>3. z \in Blk BY <2>2, PageStoreAssumption DEF Blk
  <2> QED BY <2>3 DEF Rotten, Contents
<1>3. DiskShape' BY <1>1, <1>2 DEF StoreInv, Shape, DiskShape
<1>4. PartialShape' /\ MemoryShape' /\ ThreadShape' /\ JobShape'
  BY <1>1 DEF StoreInv, Shape, PartialShape, MemoryShape, ThreadShape, JobShape
<1>5. LockInv' /\ IdleInv' /\ Alone' /\ WorkInv' /\ VictimInv' /\ LeaseInv' /\ CountInv' /\ ReserveInv'
  BY <1>1 DEF StoreInv, LockInv, IdleInv, Alone, WorkInv, WorkOK, VictimInv, LeaseInv, Holders,
              CountInv, Engaged, ReserveInv, At, My, State, SizeOf, Present, Data
<1>6. HeldInv'
  <2> SUFFICES ASSUME NEW b \in Actors PROVE HeldOK(b)' BY DEF HeldInv
  <2>1. th[b].pc \notin Locked BY <1>1, NoneIsFresh DEF StoreInv, LockInv
  <2>2. CASE At(b, "held")
    <3>1. Holders(p) = {} BY <1>1, UnleasedIsUnheld DEF StoreInv
    <3>2. My(b) # p /\ My(b) \in Pages BY <2>2, <3>1, OwnPage DEF Holders, At
    <3>3. page'[My(b)] = page[My(b)] BY <1>1, <3>2 DEF StoreInv, Shape, DiskShape
    <3> QED BY <1>1, <2>2, <3>3 DEF StoreInv, HeldInv, HeldOK, At, My
  <2>3. CASE ~At(b, "held") BY <1>1, <2>1, <2>3 DEF HeldOK, At, Locked, Dropping
  <2> QED BY <2>2, <2>3
<1> QED BY <1>3, <1>4, <1>5, <1>6 DEF StoreInv, Shape

\* What a crash leaves of a file: what was durable of it, and all there is is
\* durable afterwards; a crash of the process alone spoils no block.
LEMMA SurvivorFacts ==
  ASSUME NEW f \in Files, NEW g \in Survivors(f)
  PROVE  /\ g \in Files /\ g.synced = Len(g.data)
         /\ Len(g.data) \in f.synced..Len(f.data)
         /\ \A i \in 1..f.synced : g.data[i] = f.data[i]
         /\ ~HardCrash => \A i \in 1..Len(g.data) : g.data[i] = f.data[i]
<1>1. f.data \in Blk /\ f.synced \in Nat /\ f.synced <= Len(f.data) BY DEF Files
<1>2. f.data \in Seq(0..SliceLen) /\ Len(f.data) \in Nat /\ Len(f.data) <= SliceLen
      /\ f.data \in [1..Len(f.data) -> 0..SliceLen] /\ DOMAIN f.data = 1..Len(f.data)
  BY <1>1, LenProperties DEF Blk
<1>3. CASE \E n \in f.synced..Len(f.data) : g = File(SubSeq(f.data, 1, n), n)
  <2>1. PICK n \in f.synced..Len(f.data) : g = File(SubSeq(f.data, 1, n), n) BY <1>3
  <2>2. n \in Nat /\ n <= Len(f.data) BY <1>1, <1>2, <2>1
  <2> DEFINE d == SubSeq(f.data, 1, n)
  <2>3. d \in Seq(0..SliceLen) /\ Len(d) = n /\ \A i \in 1..n : d[i] = f.data[i]
    BY <1>2, <2>2, SubSeqProperties
  <2>4. g.data = d /\ g.synced = n /\ g = File(d, n) BY <2>1 DEF File
  <2> HIDE DEF d
  <2>5. n <= SliceLen BY <1>2, <2>2, PageStoreAssumption
  <2>10. d \in Blk BY <2>3, <2>5 DEF Blk
  <2>6. g \in Files BY <2>2, <2>3, <2>4, <2>10 DEF File, Files
  <2>7. \A i \in 1..f.synced : i \in 1..n BY <1>1, <2>1
  <2>8. Len(g.data) \in f.synced..Len(f.data) BY <2>1, <2>3, <2>4
  <2> QED BY <2>3, <2>4, <2>6, <2>7, <2>8
<1>4. CASE /\ HardCrash
           /\ g = File([i \in DOMAIN f.data |-> IF i <= f.synced THEN f.data[i] ELSE 0], Len(f.data))
  <2> DEFINE n == Len(f.data)
             d == [i \in 1..n |-> IF i <= f.synced THEN f.data[i] ELSE 0]
  <2>1. g = File(d, n) BY <1>2, <1>4
  <2>2. d \in [1..n -> 0..SliceLen] BY <1>2, PageStoreAssumption
  <2>3. \A i \in 1..f.synced : d[i] = f.data[i] BY <1>1, <1>2
  <2> HIDE DEF d
  <2>4. d \in Seq(0..SliceLen) BY <1>2, <2>2, SeqDef
  <2>5. DOMAIN d = 1..n /\ DOMAIN d = 1..Len(d) /\ Len(d) \in Nat BY <2>2, <2>4, LenProperties
  <2>6. Len(d) = n BY <1>2, <2>5
  <2>7. g.data = d /\ g.synced = n BY <2>1 DEF File
  <2>8. d \in Blk BY <1>2, <2>4, <2>6 DEF Blk
  <2>9. g \in Files BY <1>2, <2>1, <2>6, <2>8 DEF File, Files
  <2>10. Len(g.data) \in f.synced..Len(f.data) BY <1>1, <1>2, <2>6, <2>7
  <2> QED BY <1>4, <2>3, <2>6, <2>7, <2>9, <2>10
<1> QED BY <1>3, <1>4, NoneIsFresh DEF Survivors

LEMMA CrashFacts ==
  ASSUME StoreInv, Crash
  PROVE  /\ part' \in [Pages -> [Slices -> Files \union {None}]]
         /\ \A p \in Pages, s \in Slices :
              /\ part[p][s] = None => part'[p][s] = None
              /\ part[p][s] # None =>
                   part[p][s] \in Files /\ part'[p][s] \in Survivors(part[p][s])
                   /\ part'[p][s] \in Files
<1>1. /\ \A p \in Pages, s \in Slices : part'[p][s] \in Survivors(part[p][s])
      /\ part' \in [Pages -> [Slices -> UNION {Survivors(part[p][s]) : p \in Pages, s \in Slices}]]
  BY DEF Crash
<1>2. ASSUME NEW p \in Pages, NEW s \in Slices
      PROVE  /\ part'[p][s] \in Files \union {None}
             /\ part[p][s] = None => part'[p][s] = None
             /\ part[p][s] # None =>
                  part[p][s] \in Files /\ part'[p][s] \in Survivors(part[p][s])
                  /\ part'[p][s] \in Files
  <2>1. part[p][s] \in Files \union {None} BY DEF StoreInv, Shape, PartialShape
  <2>2. part'[p][s] \in Survivors(part[p][s]) BY <1>1
  <2>3. CASE part[p][s] = None BY <2>2, <2>3 DEF Survivors
  <2>4. CASE part[p][s] # None BY <2>1, <2>2, <2>4, SurvivorFacts
  <2> QED BY <2>3, <2>4
<1> HIDE DEF Survivors
<1>3. part' \in [Pages -> [Slices -> Files \union {None}]]
  <2> DEFINE U == UNION {Survivors(part[p][s]) : p \in Pages, s \in Slices}
  <2>1. part' \in [Pages -> [Slices -> U]] BY <1>1
  <2> HIDE DEF U
  <2> QED BY <1>2, <2>1
<1> QED BY <1>2, <1>3

LEMMA CrashKeeps == ASSUME StoreInv, Crash PROVE StoreInv'
<1>1. /\ th' = [a \in Actors |-> Idle] /\ wk' = [a \in Actors |-> NoWork]
      /\ lock' = None /\ reserved' = {} /\ leases' = [p \in Pages |-> 0]
      /\ UNCHANGED <<page, manifest, index, journal, pdir, calls>>
  BY DEF Crash, disk
<1>2. part' \in [Pages -> [Slices -> Files \union {None}]] BY CrashFacts
<1>3. Shape'
  <2>1. IsFiniteSet({}) BY FS_EmptySet
  <2> QED BY <1>1, <1>2, <2>1, IdleShape, NoWorkShape
      DEF StoreInv, Shape, DiskShape, PartialShape, MemoryShape, ThreadShape, JobShape
<1>4. \A a \in Actors : th'[a] = Idle /\ wk'[a] = NoWork BY <1>1
<1>5. LockInv' /\ IdleInv' /\ Alone' /\ VictimInv' /\ HeldInv' /\ ReserveInv'
  BY <1>1, <1>4, IdleShape, NoneIsFresh
     DEF LockInv, IdleInv, Alone, VictimInv, HeldInv, HeldOK, ReserveInv, At, My, Locked, Dropping
<1>6. WorkInv' BY <1>4, NoWorkShape DEF WorkInv, WorkOK, State
<1>7. LeaseInv'
  <2>1. \A p \in Pages : Holders(p)' = {} BY <1>4, IdleShape DEF Holders
  <2> QED BY <1>1, <2>1, FS_EmptySet DEF LeaseInv
<1>8. CountInv'
  <2>1. Engaged' = {} BY <1>4, IdleShape DEF Engaged, At
  <2> QED BY <1>1, <2>1, FS_EmptySet DEF CountInv, StoreInv, Shape, MemoryShape
<1> QED BY <1>3, <1>5, <1>6, <1>7, <1>8 DEF StoreInv

LEMMA InitHolds == ASSUME Init PROVE StoreInv
<1>1. /\ th = [a \in Actors |-> Idle] /\ wk = [a \in Actors |-> NoWork]
      /\ lock = None /\ reserved = {} /\ leases = [p \in Pages |-> 0] /\ calls = 0
      /\ page = [p \in Pages |-> None] /\ manifest = [p \in Pages |-> None]
      /\ index = <<>> /\ pdir = {}
      /\ part = [p \in Pages |-> NoEntries] /\ journal = [p \in Pages |-> NoEntries]
  BY DEF Init
<1>2. Shape
  <2>1. IsFiniteSet({}) BY FS_EmptySet
  <2>2. DiskShape BY <1>1, EmptyFacts DEF DiskShape
  <2>3. PartialShape BY <1>1 DEF PartialShape, NoEntries, Records
  <2>4. MemoryShape BY <1>1, <2>1, PageStoreAssumption DEF MemoryShape
  <2>5. ThreadShape /\ JobShape BY <1>1, IdleShape, NoWorkShape DEF ThreadShape, JobShape
  <2> QED BY <2>2, <2>3, <2>4, <2>5 DEF Shape
<1>3. \A a \in Actors : th[a] = Idle /\ wk[a] = NoWork BY <1>1
<1>4. LockInv /\ IdleInv /\ Alone /\ VictimInv /\ HeldInv /\ ReserveInv
  BY <1>1, <1>3, IdleShape, NoneIsFresh
     DEF LockInv, IdleInv, Alone, VictimInv, HeldInv, HeldOK, ReserveInv, At, My, Locked, Dropping
<1>5. WorkInv BY <1>3, NoWorkShape DEF WorkInv, WorkOK, State
<1>6. LeaseInv
  <2>1. \A p \in Pages : Holders(p) = {} BY <1>3, IdleShape DEF Holders
  <2> QED BY <1>1, <2>1, FS_EmptySet DEF LeaseInv
<1>7. CountInv
  <2>1. Engaged = {} BY <1>3, IdleShape DEF Engaged, At
  <2> QED BY <1>1, <2>1, FS_EmptySet DEF CountInv
<1> QED BY <1>2, <1>4, <1>5, <1>6, <1>7 DEF StoreInv

\* A step of thread a, of its own or of one of its workers.
ActorStep(a) ==
  \/ \E p \in Pages : LookupMiss(a, p) \/ LookupCorrupt(a, p) \/ LookupHit(a, p)
  \/ Work(a) \/ ResolveFails(a) \/ Release(a)
  \/ \E s \in Slices : FetchAbort(a, s)

LEMMA ActorKeeps == ASSUME StoreInv, Shared = {}, NEW a \in Actors, ActorStep(a) PROVE StoreInv'
<1>1. CASE \E p \in Pages : LookupMiss(a, p) \/ LookupCorrupt(a, p) \/ LookupHit(a, p)
  BY <1>1, LookupMissKeeps, LookupCorruptKeeps, LookupHitKeeps
<1>2. CASE DropPage(a) \/ DropManifest(a) \/ DropRow(a) BY <1>2, DropPageKeeps, DropManifestKeeps, DropRowKeeps
<1>3. CASE Resolve(a) \/ Reserve(a) \/ ResolveFails(a) BY <1>3, ResolveKeeps, ReserveKeeps, ResolveFailsKeeps
<1>4. CASE FitRoom(a) \/ FitEvict(a) \/ FitFails(a) BY <1>4, FitRoomKeeps, FitEvictKeeps, FitFailsKeeps
<1>5. CASE PrepareRead(a) \/ PrepareSlice(a) \/ PrepareWrite(a)
  BY <1>5, PrepareReadKeeps, PrepareSliceKeeps, PrepareWriteKeeps
<1>6. CASE Fetch(a)
  BY <1>6, FetchStatKeeps, FetchOpenKeeps, FetchBlockKeeps, FetchEndKeeps, FetchRecordKeeps DEF Fetch
<1>7. CASE \E s \in Slices : FetchAbort(a, s) BY <1>7, FetchAbortKeeps
<1>8. CASE CancelReservation(a) \/ CancelFetch(a) \/ FetchFailed(a)
  BY <1>8, CancelReservationKeeps, CancelFetchKeeps, FetchFailedKeeps
<1>9. CASE StartCommit(a) \/ Assemble(a) \/ WriteManifest(a)
  BY <1>9, StartCommitKeeps, AssembleKeeps, WriteManifestKeeps
<1>10. CASE IndexPage(a) \/ CleanUp(a) \/ Release(a) BY <1>10, IndexPageKeeps, CleanUpKeeps, ReleaseKeeps
<1> QED BY <1>1, <1>2, <1>3, <1>4, <1>5, <1>6, <1>7, <1>8, <1>9, <1>10 DEF ActorStep, Work

\* Every step is a thread's, decay, a crash or none.
LEMMA Steps ==
  ASSUME [Next]_vars
  PROVE  \/ \E a \in Actors : ActorStep(a)
         \/ \E p \in Pages : Rot(p)
         \/ Crash
         \/ UNCHANGED vars
BY DEF Next, ActorStep, Finished

LEMMA StutterKeeps == ASSUME StoreInv, UNCHANGED vars PROVE StoreInv'
BY DEF vars, disk, partial, memory, bounds, StoreInv, Shape, DiskShape, PartialShape, MemoryShape,
       ThreadShape, JobShape, LockInv, IdleInv, Alone, WorkInv, WorkOK, VictimInv, HeldInv, HeldOK,
       LeaseInv, Holders, CountInv, Engaged, ReserveInv, At, My, State, SizeOf, Present, Data

\* The bookkeeping invariant holds in every behaviour whose callers never fault
\* in one page twice at once.
THEOREM StoreIsSound == ASSUME Shared = {} PROVE Spec => []StoreInv
<1>1. Init => StoreInv BY InitHolds
<1>2. StoreInv /\ [Next]_vars => StoreInv' BY Steps, ActorKeeps, RotKeeps, CrashKeeps, StutterKeeps
<1> QED BY <1>1, <1>2, PTL DEF Spec

\* Distinct pages, bounded files, bounded leases: the types of every variable.
LEMMA TypesFollow == ASSUME StoreInv PROVE TypeOK
<1> DEFINE k == (Cardinality(Actors) + 1) * SliceLen
<1>1. k \in Nat /\ SliceLen <= k
  <2> DEFINE c == Cardinality(Actors)
  <2>1. c \in Nat /\ SliceLen \in Nat BY PageStoreAssumption, FS_CardinalityType
  <2> HIDE DEF c
  <2>2. c * SliceLen \in Nat BY <2>1
  <2>3. (c + 1) * SliceLen = c * SliceLen + SliceLen BY <2>1
  <2> QED BY <2>1, <2>2, <2>3 DEF c
<1> Blocks = UNION {[1..n -> 0..SliceLen] : n \in 0..k} BY DEF Blocks
<1> MaybeFile = {None} \union [data : Blocks, synced : 0..k] BY DEF MaybeFile
<1> HIDE DEF k
<1>2. ASSUME NEW d \in Blk PROVE d \in Blocks /\ Len(d) \in 0..k
  <2>1. Len(d) \in Nat /\ Len(d) <= SliceLen /\ d \in [1..Len(d) -> 0..SliceLen]
    BY LenProperties DEF Blk
  <2>2. Len(d) \in 0..k BY <1>1, <2>1, PageStoreAssumption
  <2> QED BY <2>1, <2>2
<1>3. ASSUME NEW c \in Contents PROVE c \in [Slices -> Blocks] BY <1>2 DEF Contents
<1>4. ASSUME NEW f \in Files PROVE f \in [data : Blocks, synced : 0..k]
  <2>1. f \in [data : Blk, synced : Nat] /\ f.synced <= Len(f.data) BY DEF Files
  <2>2. f.data \in Blocks /\ Len(f.data) \in 0..k /\ f.synced \in Nat BY <1>2, <2>1
  <2>3. f.synced \in 0..k BY <1>1, <2>1, <2>2
  <2> QED BY <2>1, <2>2, <2>3
<1>5. \A r \in Records : r \in MaybeBlocks BY <1>2 DEF Records, MaybeBlocks
<1>6. ASSUME NEW c \in [Slices -> Records] PROVE c \in [Slices -> MaybeBlocks] BY <1>5
<1>7. /\ page \in [Pages -> {None} \union [Slices -> Blocks]]
      /\ manifest \in [Pages -> {None} \union [Slices -> Blocks]]
  BY <1>3 DEF StoreInv, Shape, DiskShape
<1>8. index \in Seq(Pages) /\ IsInjective(index) BY DEF StoreInv, Shape, DiskShape, Distinct
<1>9. \A p \in Pages, s \in Slices : part[p][s] \in MaybeFile /\ journal[p][s] \in MaybeBlocks
  BY <1>4, <1>5 DEF StoreInv, Shape, PartialShape
<1>10. /\ pdir \subseteq Pages /\ reserved \subseteq Pages /\ lock \in Actors \union {None}
  BY DEF StoreInv, Shape, PartialShape, MemoryShape
<1>11. leases \in [Pages -> 0..MaxCalls]
  <2>1. ASSUME NEW p \in Pages PROVE leases[p] \in 0..MaxCalls
    <3>1. Holders(p) \subseteq Engaged BY DEF Holders, Engaged, At
    <3>2. Engaged \in SUBSET Actors BY DEF Engaged
    <3>3. IsFiniteSet(Engaged) BY <3>2, PageStoreAssumption, FS_Subset
    <3>4. /\ Cardinality(Holders(p)) <= Cardinality(Engaged)
          /\ Cardinality(Engaged) \in Nat /\ Cardinality(Holders(p)) \in Nat
      BY <3>1, <3>3, FS_Subset, FS_CardinalityType, HoldersAreFinite
    <3>5. leases[p] = Cardinality(Holders(p)) BY DEF StoreInv, LeaseInv
    <3>6. Cardinality(Engaged) <= calls /\ calls \in Nat /\ calls <= MaxCalls
      BY DEF StoreInv, CountInv, Shape, MemoryShape
    <3>7. MaxCalls \in Nat BY PageStoreAssumption
    <3> QED BY <3>4, <3>5, <3>6, <3>7
  <2> QED BY <2>1 DEF StoreInv, Shape, MemoryShape
<1>12. ASSUME NEW a \in Actors
       PROVE  /\ th[a].pc \in PCs /\ th[a].page \in Pages \union {None}
              /\ th[a].back \in {None, "resolve", "reserve", "commit"}
              /\ th[a].victim \in Pages \union {None} /\ th[a].scan \subseteq Slices
              /\ th[a].copy \in [Slices -> MaybeBlocks] /\ th[a].cancel \in BOOLEAN
              /\ wk[a] \in [Slices -> [st : WorkStates, append : BOOLEAN, at : 0..SliceLen]]
  <2>1. th[a] \in Threads /\ wk[a] \in [Slices -> Jobs] BY DEF StoreInv, Shape, ThreadShape, JobShape
  <2>2. th[a].copy \in [Slices -> Records] BY <2>1 DEF Threads
  <2> QED BY <1>6, <2>1, <2>2 DEF Threads, Jobs
<1> QED BY <1>7, <1>8, <1>9, <1>10, <1>11, <1>12 DEF TypeOK

\* Whoever holds a page keeps it, verified, until the release: an eviction for
\* another page, a corrupt lookup or decay never takes it.
THEOREM HoldersKeepTheirPages == ASSUME Shared = {} PROVE Spec => []HeldPageStays
<1>1. StoreInv => HeldPageStays BY DEF StoreInv, HeldInv, HeldOK, HeldPageStays, At
<1> QED BY <1>1, StoreIsSound, PTL

\* The types, and the reservation behind every download.
THEOREM TypesAndReservations == ASSUME Shared = {} PROVE Spec => [](TypeOK /\ DownloadHoldsReservation)
<1>1. StoreInv => DownloadHoldsReservation BY DEF StoreInv, ReserveInv, DownloadHoldsReservation
<1> QED BY <1>1, TypesFollow, StoreIsSound, PTL

-----------------------------------------------------------------------------
(* What the steps do to files, records and scans.                          *)

\* The steps that touch no partial file and no record.
BookStep(a) ==
  \/ \E p \in Pages : LookupMiss(a, p) \/ LookupCorrupt(a, p) \/ LookupHit(a, p)
  \/ DropPage(a) \/ DropManifest(a) \/ DropRow(a)
  \/ Resolve(a) \/ ResolveFails(a) \/ Reserve(a)
  \/ FitRoom(a) \/ FitEvict(a) \/ FitFails(a)
  \/ CancelReservation(a) \/ CancelFetch(a) \/ FetchFailed(a)
  \/ StartCommit(a) \/ Assemble(a) \/ WriteManifest(a) \/ IndexPage(a) \/ Release(a)

LEMMA BookThreads ==
  ASSUME StoreInv, NEW a \in Actors, BookStep(a)
  PROVE  /\ Others(a) /\ part' = part /\ journal' = journal
         /\ th'[a].pc # "inspect" /\ th'[a].copy \in {th[a].copy, NoEntries}
<1>0. th \in [Actors -> Threads] /\ th[a] \in Threads BY DEF StoreInv, Shape, ThreadShape
<1>1. CASE \E p \in Pages : LookupMiss(a, p) \/ LookupCorrupt(a, p) \/ LookupHit(a, p)
  BY <1>0, <1>1 DEF LookupMiss, LookupCorrupt, LookupHit, Enter, partial, Threads, Others
<1>2. CASE DropPage(a) \/ DropManifest(a)
  BY <1>0, <1>2 DEF DropPage, DropManifest, Goto, partial, Threads, Others
<1>3. CASE DropRow(a)
  <2>1. CASE th[a].back = "resolve" BY <1>0, <1>3, <2>1 DEF DropRow, partial, Threads, Others
  <2>2. CASE th[a].back # "resolve" BY <1>0, <1>3, <2>2 DEF DropRow, partial, Threads, Others
  <2> QED BY <2>1, <2>2
<1>4. CASE Resolve(a) \/ ResolveFails(a)
  BY <1>0, <1>4 DEF Resolve, ResolveFails, Goto, partial, Threads, Others, Idle
<1>5. CASE Reserve(a)
  <2>1. CASE My(a) \in reserved BY <1>0, <1>5, <2>1 DEF Reserve, Goto, partial, Threads, Others
  <2>2. CASE My(a) \notin reserved BY <1>0, <1>5, <2>2 DEF Reserve, partial, Threads, Others
  <2> QED BY <2>1, <2>2
<1>6. CASE FitRoom(a)
  <2>1. CASE th[a].back = "reserve" BY <1>0, <1>6, <2>1 DEF FitRoom, partial, Threads, Others
  <2>2. CASE th[a].back # "reserve" BY <1>0, <1>6, <2>2 DEF FitRoom, partial, Threads, Others
  <2> QED BY <2>1, <2>2
<1>7. CASE FitEvict(a) BY <1>0, <1>7 DEF FitEvict, partial, Threads, Others
<1>8. CASE FitFails(a)
  <2>1. CASE th[a].back = "reserve" BY <1>0, <1>8, <2>1 DEF FitFails, partial, Threads, Others, Idle
  <2>2. CASE th[a].back # "reserve" BY <1>0, <1>8, <2>2 DEF FitFails, partial, Threads, Others
  <2> QED BY <2>1, <2>2
<1>9. CASE CancelReservation(a) \/ CancelFetch(a) \/ FetchFailed(a)
  BY <1>0, <1>9 DEF CancelReservation, CancelFetch, FetchFailed, partial, Threads, Others, Idle, At
<1>10. CASE StartCommit(a) BY <1>0, <1>10 DEF StartCommit, partial, Threads, Others
<1>11. CASE Assemble(a)
  <2>1. CASE \A s \in Slices : Complete(My(a), s)
    BY <1>0, <1>11, <2>1 DEF Assemble, Goto, partial, Threads, Others
  <2>2. CASE ~ \A s \in Slices : Complete(My(a), s)
    BY <1>0, <1>11, <2>2 DEF Assemble, Goto, partial, Threads, Others
  <2> QED BY <2>1, <2>2
<1>12. CASE WriteManifest(a) \/ IndexPage(a) \/ Release(a)
  BY <1>0, <1>12 DEF WriteManifest, IndexPage, Release, Goto, partial, Threads, Others, Idle
<1> QED BY <1>1, <1>2, <1>3, <1>4, <1>5, <1>6, <1>7, <1>8, <1>9, <1>10, <1>11, <1>12 DEF BookStep

-----------------------------------------------------------------------------
(* Contents.                                                               *)

\* Of two runs of the source's bytes the shorter is a prefix of the longer.
LEMMA ExactPrefix ==
  ASSUME NEW d \in Blk, NEW e \in Blk, Exact(d), Exact(e), Len(d) <= Len(e)
  PROVE  IsPrefix(d, e)
<1>1. d \in Seq(0..SliceLen) /\ e \in Seq(0..SliceLen) /\ Len(d) \in Nat /\ Len(e) \in Nat
  BY DEF Blk
<1>2. SubSeq(d, 1, Len(d)) = d /\ DOMAIN d = 1..Len(d) BY <1>1
<1> DEFINE f == SubSeq(e, 1, Len(d))
<1>3. f \in Seq(0..SliceLen) /\ Len(f) = Len(d) /\ \A i \in 1..Len(d) : f[i] = e[i]
  <2> DEFINE n == Len(d)
  <2>1. e \in [1..Len(e) -> 0..SliceLen] BY <1>1, LenProperties
  <2>2. n \in Int /\ \A i \in 1..n : e[i] \in 0..SliceLen BY <1>1, <2>1
  <2>3. /\ f \in Seq(0..SliceLen) /\ Len(f) = IF 1 <= n THEN n - 1 + 1 ELSE 0
        /\ \A i \in 1..(n - 1 + 1) : f[i] = e[1 + i - 1]
    BY <2>2, SubSeqProperties
  <2> HIDE DEF f
  <2> QED BY <1>1, <2>3
<1>4. \A i \in 1..Len(d) : d[i] = f[i] BY <1>1, <1>3 DEF Exact
<1> HIDE DEF f
<1>5. d = f BY <1>1, <1>3, <1>4, SeqEqual
<1> QED BY <1>2, <1>5 DEF IsPrefix, f

\* The source's bytes, all of them.
LEMMA ExactSlice == ASSUME NEW d \in Blk, Exact(d), Len(d) = SliceLen PROVE d = RightSlice
<1>1. d \in [1..SliceLen -> 0..SliceLen] BY LenProperties DEF Blk
<1> QED BY <1>1 DEF Exact, RightSlice

LEMMA RightIsNotRotten == RightPage # Rotten
<1>1. PICK s \in Slices : TRUE BY PageStoreAssumption
<1>2. 1 \in 1..SliceLen BY PageStoreAssumption
<1>3. RightPage[s][1] = 1 /\ Rotten[s][1] = 0 BY <1>1, <1>2 DEF RightPage, RightSlice, Rotten
<1> QED BY <1>3

LEMMA FilesExactBook == ASSUME StoreInv, FilesExact, NEW a \in Actors, BookStep(a) PROVE FilesExact'
<1>1. \A b \in Actors : th'[b].copy \in {th[b].copy, NoEntries} BY BookThreads DEF Others
<1>2. part' = part /\ journal' = journal BY BookThreads
<1>3. \A s \in Slices : NoEntries[s] = None BY DEF NoEntries
<1> QED BY <1>1, <1>2, <1>3 DEF FilesExact

LEMMA PrepareReadFacts ==
  ASSUME StoreInv, NEW a \in Actors, PrepareRead(a)
  PROVE  /\ My(a) \in Pages /\ Others(a) /\ part' = part /\ journal' = journal /\ wk' = wk
         /\ th'[a].pc = "inspect" /\ th'[a].copy = journal[My(a)] /\ My(a)' = My(a)
<1>1. th \in [Actors -> Threads] /\ th[a] \in Threads /\ At(a, "prepare")
  BY DEF StoreInv, Shape, ThreadShape, PrepareRead
<1>2. My(a) \in Pages BY <1>1, OwnPage DEF At
<1> QED BY <1>1, <1>2 DEF PrepareRead, Threads, Others, My, memory

\* The journal written back; or it cannot be, and the call gives up.
LEMMA PrepareWriteFacts ==
  ASSUME StoreInv, NEW a \in Actors, PrepareWrite(a)
  PROVE  /\ My(a) \in Pages /\ Others(a) /\ part' = part /\ My(a)' = My(a)
         /\ th'[a].pc # "inspect" /\ th'[a].copy = NoEntries
         /\ \A s \in Slices : State(a, s) = "off"
         /\ \A b \in Actors \ {a} : wk'[b] = wk[b]
         /\ journal' \in {journal, [journal EXCEPT ![My(a)] = th[a].copy]}
<1>1. th \in [Actors -> Threads] /\ th[a] \in Threads /\ At(a, "inspect")
  BY DEF StoreInv, Shape, ThreadShape, PrepareWrite
<1>2. My(a) \in Pages /\ \A s \in Slices : State(a, s) = "off" BY <1>1, OwnPage, JobsAreOff DEF At
<1>3. CASE My(a) \in pdir
  <2>1. /\ th' = [th EXCEPT ![a].pc = "fetch", ![a].copy = NoEntries]
        /\ journal' = [journal EXCEPT ![My(a)] = th[a].copy] /\ part' = part
        /\ wk' = [wk EXCEPT ![a] = [s \in Slices |-> [NoWork[s] EXCEPT !.st = "queued"]]]
    BY <1>3 DEF PrepareWrite
  <2>2. th'[a] = [th[a] EXCEPT !.pc = "fetch", !.copy = NoEntries] BY <1>1, <2>1
  <2>3. \A b \in Actors \ {a} : wk'[b] = wk[b] BY <2>1 DEF StoreInv, Shape, JobShape
  <2>4. th'[a].pc = "fetch" /\ th'[a].copy = NoEntries /\ My(a)' = My(a) BY <1>1, <2>2 DEF Threads, My
  <2>5. Others(a) BY <1>1, <2>1 DEF Others
  <2> QED BY <1>2, <2>1, <2>3, <2>4, <2>5
<1>4. CASE My(a) \notin pdir
  <2>1. /\ th' = [th EXCEPT ![a].pc = "cancel", ![a].copy = NoEntries]
        /\ journal' = journal /\ part' = part /\ wk' = wk
    BY <1>4 DEF PrepareWrite
  <2>2. th'[a] = [th[a] EXCEPT !.pc = "cancel", !.copy = NoEntries] BY <1>1, <2>1
  <2>3. th'[a].pc = "cancel" /\ th'[a].copy = NoEntries /\ My(a)' = My(a) BY <1>1, <2>2 DEF Threads, My
  <2>4. Others(a) BY <1>1, <2>1 DEF Others
  <2> QED BY <1>2, <2>1, <2>3, <2>4
<1> QED BY <1>3, <1>4

LEMMA FetchRecordFacts ==
  ASSUME StoreInv, NEW a \in Actors, NEW s \in Slices, FetchRecord(a, s)
  PROVE  /\ My(a) \in Pages /\ State(a, s) \in {"recordOk", "recordErr"} /\ part' = part /\ th' = th
         /\ \A b \in Actors, t \in Slices : b # a \/ t # s => wk'[b][t] = wk[b][t]
         /\ \/ journal' = journal
            \/ /\ Present(My(a), s) /\ Data(My(a), s) \in Blk /\ Len(Data(My(a), s)) > 0
               /\ journal' = [journal EXCEPT ![My(a)][s] = Data(My(a), s)]
<1>1. State(a, s) \in {"recordOk", "recordErr"} /\ part' = part /\ th' = th BY DEF FetchRecord
<1>2. My(a) \in Pages BY <1>1, WorkerPage
<1>3. \A b \in Actors, t \in Slices : b # a \/ t # s => wk'[b][t] = wk[b][t]
  BY DEF FetchRecord, SetWork, StoreInv, Shape, JobShape
<1>4. CASE SizeOf(My(a), s) > 0
  <2>1. Present(My(a), s) BY <1>4 DEF SizeOf, Present
  <2>2. Data(My(a), s) \in Blk /\ Len(Data(My(a), s)) > 0 BY <1>2, <1>4, <2>1, SizeFacts
  <2> QED BY <1>1, <1>2, <1>3, <1>4, <2>1, <2>2 DEF FetchRecord
<1>5. CASE ~(SizeOf(My(a), s) > 0) BY <1>1, <1>2, <1>3, <1>5 DEF FetchRecord
<1> QED BY <1>4, <1>5

LEMMA FetchStatFacts ==
  ASSUME StoreInv, NEW a \in Actors, NEW s \in Slices, FetchStat(a, s)
  PROVE  /\ part' = part /\ journal' = journal /\ th' = th /\ State(a, s) = "queued"
         /\ \A b \in Actors, t \in Slices : b # a \/ t # s => wk'[b][t] = wk[b][t]
<1>1. State(a, s) = "queued" /\ journal' = journal /\ th' = th BY DEF FetchStat
<1>2. My(a) \in Pages BY <1>1, WorkerPage
<1>3. ~(SizeOf(My(a), s) > SliceLen) BY <1>2, SizeFacts, PageStoreAssumption
<1> QED BY <1>1, <1>3 DEF FetchStat, StoreInv, Shape, JobShape

\* A request that ends, well or not.
FetchDone(a, s) == FetchEnd(a, s) \/ FetchAbort(a, s)

LEMMA FetchDoneFacts ==
  ASSUME StoreInv, NEW a \in Actors, NEW s \in Slices, FetchDone(a, s)
  PROVE  /\ part' = Synced(a, s) /\ journal' = journal /\ th' = th /\ State(a, s) # "off"
         /\ \A b \in Actors, t \in Slices : b # a \/ t # s => wk'[b][t] = wk[b][t]
BY DEF FetchDone, FetchEnd, FetchAbort, SetWork, StoreInv, Shape, JobShape

LEMMA CleanUpFacts ==
  ASSUME StoreInv, NEW a \in Actors, CleanUp(a)
  PROVE  /\ My(a) \in Pages /\ At(a, "clean") /\ wk' = wk /\ Others(a)
         /\ th'[a].pc = "held" /\ th'[a].copy = th[a].copy
         /\ part' = [part EXCEPT ![My(a)] = NoEntries]
         /\ journal' = [journal EXCEPT ![My(a)] = NoEntries]
<1>1. th \in [Actors -> Threads] /\ th[a] \in Threads /\ At(a, "clean")
  BY DEF StoreInv, Shape, ThreadShape, CleanUp
<1>2. My(a) \in Pages BY <1>1, OwnPage DEF At
<1>3. wk' = wk BY <1>1, NobodyIsOrphaned DEF CleanUp, At
<1> QED BY <1>1, <1>2, <1>3 DEF CleanUp, Goto, Threads, Others

\* The steps of the workers and of the scan keep every byte the source's.
LEMMA FilesExactPrepare ==
  ASSUME StoreInv, FilesExact, NEW a \in Actors,
         PrepareRead(a) \/ PrepareSlice(a) \/ PrepareWrite(a) \/ CleanUp(a)
  PROVE  FilesExact'
<1>1. \A s \in Slices : NoEntries[s] = None BY DEF NoEntries
<1>2. CASE PrepareRead(a)
  <2>1. /\ My(a) \in Pages /\ Others(a) /\ part' = part /\ journal' = journal
        /\ th'[a].copy = journal[My(a)]
    BY <1>2, PrepareReadFacts
  <2> QED BY <2>1 DEF FilesExact, Others
<1>3. CASE PrepareSlice(a)
  <2> DEFINE p == My(a)
             s == Min(th[a].scan)
             kept == Kept(Data(p, s), th[a].copy[s])
  <2>1. /\ p \in Pages /\ s \in Slices /\ journal' = journal /\ Others(a)
        /\ \A q \in Pages, t \in Slices : q # p \/ t # s => part'[q][t] = part[q][t]
        /\ \A t \in Slices : t # s => th'[a].copy[t] = th[a].copy[t]
        /\ ~Present(p, s) => part' = part /\ th'[a].copy = th[a].copy
        /\ Present(p, s) =>
                 /\ part[p][s] \in Files /\ th[a].copy[s] \in Records
                 /\ th'[a].copy[s] = kept
                 /\ part'[p][s] = IF kept = None THEN None
                                  ELSE File(kept, Min({part[p][s].synced, Len(kept)}))
    BY <1>3, PrepareSliceFacts
  <2>2. ASSUME Present(p, s), kept # None PROVE Exact(kept) /\ (part'[p][s] # None => part'[p][s].data = kept)
    <3>1. Data(p, s) \in Blk /\ Exact(Data(p, s)) BY <2>1, <2>2 DEF Files, Data, FilesExact, Present
    <3>2. th[a].copy[s] # None => Exact(th[a].copy[s]) BY <2>1 DEF FilesExact
    <3>3. th[a].copy[s] \in Records BY <2>1, <2>2
    <3>4. (kept = th[a].copy[s] /\ th[a].copy[s] # None) \/ kept = Data(p, s)
      <4> HIDE DEF p, s
      <4> QED BY <2>2, <3>1, <3>3, KeptFacts
    <3>5. part'[p][s] # None => part'[p][s].data = kept BY <2>1, <2>2 DEF File
    <3> QED BY <3>1, <3>2, <3>4, <3>5
  <2> HIDE DEF p, s, kept
  <2>3. ASSUME NEW q \in Pages, NEW t \in Slices, part'[q][t] # None PROVE Exact(part'[q][t].data)
    <3>1. CASE q = p /\ t = s /\ Present(p, s) BY <2>1, <2>2, <2>3, <3>1
    <3>2. CASE ~(q = p /\ t = s /\ Present(p, s))
      <4>1. part'[q][t] = part[q][t] BY <2>1, <3>2
      <4> QED BY <2>3, <4>1 DEF FilesExact
    <3> QED BY <3>1, <3>2
  <2>4. ASSUME NEW b \in Actors, NEW t \in Slices, th'[b].copy[t] # None PROVE Exact(th'[b].copy[t])
    <3>1. CASE b = a /\ t = s /\ Present(p, s) BY <2>1, <2>2, <2>4, <3>1
    <3>2. CASE ~(b = a /\ t = s /\ Present(p, s))
      <4>1. th'[b].copy[t] = th[b].copy[t] BY <2>1, <3>2 DEF Others
      <4> QED BY <2>4, <4>1 DEF FilesExact
    <3> QED BY <3>1, <3>2
  <2> QED BY <2>1, <2>3, <2>4 DEF FilesExact
<1>4. CASE PrepareWrite(a)
  <2>1. /\ My(a) \in Pages /\ Others(a) /\ part' = part /\ th'[a].copy = NoEntries
        /\ journal' \in {journal, [journal EXCEPT ![My(a)] = th[a].copy]}
    BY <1>4, PrepareWriteFacts
  <2>2. journal \in [Pages -> [Slices -> Records]] BY DEF StoreInv, Shape, PartialShape
  <2>3. \A q \in Pages, t \in Slices : journal'[q][t] \in {journal[q][t], th[a].copy[t]}
    BY <2>1, <2>2
  <2> QED BY <1>1, <2>1, <2>3 DEF FilesExact, Others
<1>5. CASE CleanUp(a)
  <2>1. /\ My(a) \in Pages /\ Others(a) /\ th'[a].copy = th[a].copy
        /\ part' = [part EXCEPT ![My(a)] = NoEntries]
        /\ journal' = [journal EXCEPT ![My(a)] = NoEntries]
    BY <1>5, CleanUpFacts
  <2>2. journal \in [Pages -> [Slices -> Records]] /\ part \in [Pages -> [Slices -> Files \union {None}]]
    BY DEF StoreInv, Shape, PartialShape
  <2>3. \A q \in Pages, t \in Slices :
          journal'[q][t] \in {journal[q][t], None} /\ part'[q][t] \in {part[q][t], None}
    BY <1>1, <2>1, <2>2
  <2> QED BY <2>1, <2>3 DEF FilesExact, Others
<1> QED BY <1>2, <1>3, <1>4, <1>5

LEMMA FilesExactFetch ==
  ASSUME StoreInv, FilesExact, NEW a \in Actors, NEW s \in Slices,
         \/ FetchStat(a, s) \/ FetchOpen(a, s) \/ FetchBlock(a, s)
         \/ FetchDone(a, s) \/ FetchRecord(a, s)
  PROVE  FilesExact'
<1>1. CASE FetchStat(a, s) BY <1>1, FetchStatFacts DEF FilesExact
<1>2. CASE FetchOpen(a, s)
  <2> DEFINE p == My(a)
  <2>1. journal' = journal /\ th' = th BY <1>2 DEF FetchOpen
  <2>2. /\ part'[p][s] = part[p][s] \/ part'[p][s] = File(<<>>, 0)
        /\ \A q \in Pages, t \in Slices : q # p \/ t # s => part'[q][t] = part[q][t]
    BY <1>2, FetchOpenFacts
  <2>3. Exact(File(<<>>, 0).data) BY DEF Exact, File
  <2> HIDE DEF p
  <2> QED BY <2>1, <2>2, <2>3 DEF FilesExact
<1>3. CASE FetchBlock(a, s)
  <2> DEFINE p == My(a)
             w == wk[a][s]
             data == Written(Data(p, s), w.append, w.at)
  <2>1. /\ p \in Pages /\ Present(p, s) /\ part[p][s] \in Files /\ Len(Data(p, s)) = w.at
        /\ Data(p, s) \in Blk /\ Len(data) = w.at + 1 /\ data[w.at + 1] = w.at + 1
        /\ \A i \in 1..w.at : data[i] = Data(p, s)[i]
        /\ part'[p][s] = [part[p][s] EXCEPT !.data = data]
        /\ part' = [part EXCEPT ![p][s] = part'[p][s]]
    BY <1>3, FetchBlockFacts
  <2>2. journal' = journal /\ th' = th BY <1>3 DEF FetchBlock
  <2>3. Exact(Data(p, s)) BY <2>1 DEF FilesExact, Data, Present
  <2> HIDE DEF w, data
  <2>4. w.at \in Nat BY <2>1 DEF Blk
  <2>5. Exact(data) BY <2>1, <2>3, <2>4 DEF Exact
  <2>6. part'[p][s].data = data BY <2>1 DEF Files
  <2>7. \A q \in Pages, t \in Slices : q # p \/ t # s => part'[q][t] = part[q][t]
    BY <2>1 DEF StoreInv, Shape, PartialShape
  <2> HIDE DEF p
  <2> QED BY <2>2, <2>5, <2>6, <2>7 DEF FilesExact
<1>4. CASE FetchDone(a, s)
  <2>1. part' = Synced(a, s) /\ journal' = journal /\ th' = th /\ State(a, s) # "off"
    BY <1>4, FetchDoneFacts
  <2>2. \A q \in Pages, t \in Slices :
          part'[q][t] # None => part[q][t] # None /\ part'[q][t].data = part[q][t].data
    BY <2>1, SyncedFacts
  <2> QED BY <2>1, <2>2 DEF FilesExact
<1>5. CASE FetchRecord(a, s)
  <2>1. /\ My(a) \in Pages /\ part' = part /\ th' = th
        /\ \/ journal' = journal
           \/ Present(My(a), s) /\ journal' = [journal EXCEPT ![My(a)][s] = Data(My(a), s)]
    BY <1>5, FetchRecordFacts
  <2>2. \A q \in Pages, t \in Slices :
          \/ journal'[q][t] = journal[q][t]
          \/ q = My(a) /\ t = s /\ Present(My(a), s) /\ journal'[q][t] = Data(My(a), s)
    BY <2>1 DEF StoreInv, Shape, PartialShape
  <2>3. Present(My(a), s) => Exact(Data(My(a), s)) BY <2>1 DEF FilesExact, Present, Data
  <2> QED BY <2>1, <2>2, <2>3 DEF FilesExact
<1> QED BY <1>1, <1>2, <1>3, <1>4, <1>5

LEMMA FilesExactCrash ==
  ASSUME StoreInv, FilesExact, ~HardCrash, Crash PROVE FilesExact'
<1>1. journal' = journal /\ \A a \in Actors, s \in Slices : th'[a].copy[s] = None
  BY DEF Crash, Idle, NoEntries
<1>2. ASSUME NEW p \in Pages, NEW s \in Slices, part'[p][s] # None PROVE Exact(part'[p][s].data)
  <2>1. part[p][s] # None /\ part[p][s] \in Files /\ part'[p][s] \in Survivors(part[p][s])
    BY <1>2, CrashFacts
  <2>2. /\ Len(part'[p][s].data) \in part[p][s].synced..Len(part[p][s].data)
        /\ \A i \in 1..Len(part'[p][s].data) : part'[p][s].data[i] = part[p][s].data[i]
    BY <2>1, SurvivorFacts
  <2>3. Exact(part[p][s].data) BY <2>1 DEF FilesExact
  <2>4. Len(part[p][s].data) \in Nat /\ part[p][s].synced \in Nat BY <2>1 DEF Files, Blk
  <2> DEFINE g == part'[p][s].data
             d == part[p][s].data
  <2>5. Len(g) \in Nat /\ Len(g) <= Len(d) BY <2>2, <2>4
  <2>6. \A i \in 1..Len(g) : g[i] = i
    <3>1. \A i \in 1..Len(g) : i \in 1..Len(d) BY <2>4, <2>5
    <3>2. \A i \in 1..Len(d) : d[i] = i BY <2>3 DEF Exact
    <3> QED BY <2>2, <3>1, <3>2
  <2> QED BY <2>6 DEF Exact
<1> QED BY <1>1, <1>2 DEF FilesExact

\* A step of a thread keeps books, prepares or cleans up, or is a worker's.
LEMMA ActorKinds ==
  ASSUME NEW a \in Actors, ActorStep(a)
  PROVE  \/ BookStep(a)
         \/ PrepareRead(a) \/ PrepareSlice(a) \/ PrepareWrite(a) \/ CleanUp(a)
         \/ \E s \in Slices :
              \/ FetchStat(a, s) \/ FetchOpen(a, s) \/ FetchBlock(a, s)
              \/ FetchDone(a, s) \/ FetchRecord(a, s)
BY DEF ActorStep, Work, Fetch, BookStep, FetchDone

LEMMA FilesExactStep ==
  ASSUME StoreInv, FilesExact, ~HardCrash, [Next]_vars PROVE FilesExact'
<1>1. ASSUME NEW a \in Actors, ActorStep(a) PROVE FilesExact'
  BY <1>1, ActorKinds, FilesExactBook, FilesExactPrepare, FilesExactFetch
<1>2. ASSUME NEW p \in Pages, Rot(p) PROVE FilesExact'
  BY <1>2 DEF Rot, FilesExact, partial
<1>3. UNCHANGED vars => FilesExact' BY DEF vars, partial, FilesExact
<1> QED BY <1>1, <1>2, <1>3, Steps, FilesExactCrash

\* Only commit writes pages and manifests, and only with assemble does a thread
\* come to write a manifest.
LEMMA PagesFrame ==
  ASSUME StoreInv, NEW a \in Actors, ActorStep(a), ~Assemble(a), ~WriteManifest(a)
  PROVE  /\ Others(a) /\ th'[a].pc # "manifest"
         /\ \A p \in Pages : page'[p] \in {page[p], None} /\ manifest'[p] \in {manifest[p], None}
<1>0. th \in [Actors -> Threads] /\ th[a] \in Threads BY DEF StoreInv, Shape, ThreadShape
<1> DEFINE Kept2 == \A p \in Pages : page'[p] \in {page[p], None} /\ manifest'[p] \in {manifest[p], None}
<1>a. ASSUME page' = page, manifest' = manifest PROVE Kept2 BY <1>a
<1>1. CASE DropPage(a) \/ DropManifest(a)
  <2>1. Kept2 BY <1>1 DEF DropPage, DropManifest, StoreInv, Shape, DiskShape
  <2>2. Others(a) /\ th'[a].pc # "manifest"
    BY <1>0, <1>1 DEF DropPage, DropManifest, Goto, Threads, Others
  <2> QED BY <2>1, <2>2
<1>2. CASE /\ BookStep(a) /\ ~DropPage(a) /\ ~DropManifest(a)
  <2>1. page' = page /\ manifest' = manifest
    BY <1>2 DEF BookStep, LookupMiss, LookupCorrupt, LookupHit, Enter, DropRow, Resolve, ResolveFails,
           Reserve, FitRoom, FitEvict, FitFails, CancelReservation, CancelFetch, FetchFailed,
           StartCommit, IndexPage, Release, disk
  <2>2. Others(a) BY <1>2, BookThreads
  <2>3. th'[a].pc # "manifest"
    <3>1. CASE \E p \in Pages : LookupMiss(a, p) \/ LookupCorrupt(a, p) \/ LookupHit(a, p)
      BY <1>0, <3>1 DEF LookupMiss, LookupCorrupt, LookupHit, Threads
    <3>2. CASE DropRow(a)
      <4>1. CASE th[a].back = "resolve" BY <1>0, <3>2, <4>1 DEF DropRow, Threads
      <4>2. CASE th[a].back # "resolve" BY <1>0, <3>2, <4>2 DEF DropRow, Threads
      <4> QED BY <4>1, <4>2
    <3>3. CASE Resolve(a) \/ ResolveFails(a) BY <1>0, <3>3 DEF Resolve, ResolveFails, Goto, Threads, Idle
    <3>4. CASE Reserve(a)
      <4>1. CASE My(a) \in reserved BY <1>0, <3>4, <4>1 DEF Reserve, Goto, Threads
      <4>2. CASE My(a) \notin reserved BY <1>0, <3>4, <4>2 DEF Reserve, Threads
      <4> QED BY <4>1, <4>2
    <3>5. CASE FitRoom(a)
      <4>1. CASE th[a].back = "reserve" BY <1>0, <3>5, <4>1 DEF FitRoom, Threads
      <4>2. CASE th[a].back # "reserve" BY <1>0, <3>5, <4>2 DEF FitRoom, Threads
      <4> QED BY <4>1, <4>2
    <3>6. CASE FitEvict(a) BY <1>0, <3>6 DEF FitEvict, Threads
    <3>7. CASE FitFails(a)
      <4>1. CASE th[a].back = "reserve" BY <1>0, <3>7, <4>1 DEF FitFails, Threads, Idle
      <4>2. CASE th[a].back # "reserve" BY <1>0, <3>7, <4>2 DEF FitFails, Threads
      <4> QED BY <4>1, <4>2
    <3>8. CASE CancelReservation(a) \/ CancelFetch(a) \/ FetchFailed(a)
      BY <1>0, <3>8 DEF CancelReservation, CancelFetch, FetchFailed, Threads, Idle, At
    <3>9. CASE StartCommit(a) \/ IndexPage(a) \/ Release(a)
      BY <1>0, <3>9 DEF StartCommit, IndexPage, Release, Goto, Threads, Idle
    <3> QED BY <1>2, <3>1, <3>2, <3>3, <3>4, <3>5, <3>6, <3>7, <3>8, <3>9 DEF BookStep
  <2> QED BY <1>a, <2>1, <2>2, <2>3
<1>3. CASE PrepareRead(a) \/ PrepareSlice(a) \/ PrepareWrite(a) \/ CleanUp(a)
  <2>1. page' = page /\ manifest' = manifest
    BY <1>3 DEF PrepareRead, PrepareSlice, PrepareWrite, CleanUp, disk
  <2>2. CASE PrepareRead(a) BY <1>a, <2>1, <2>2, PrepareReadFacts
  <2>3. CASE PrepareSlice(a)
    <3>1. Others(a) /\ th'[a].pc = "inspect" BY <2>3, PrepareSliceFacts
    <3> QED BY <1>a, <2>1, <3>1
  <2>4. CASE PrepareWrite(a)
    <3>1. th'[a].pc # "manifest"
      <4>1. CASE My(a) \in pdir BY <1>0, <2>4, <4>1 DEF PrepareWrite, Threads
      <4>2. CASE My(a) \notin pdir BY <1>0, <2>4, <4>2 DEF PrepareWrite, Threads
      <4> QED BY <4>1, <4>2
    <3> QED BY <1>a, <2>1, <2>4, <3>1, PrepareWriteFacts
  <2>5. CASE CleanUp(a) BY <1>a, <2>1, <2>5, CleanUpFacts
  <2> QED BY <1>3, <2>2, <2>3, <2>4, <2>5
<1>4. ASSUME NEW s \in Slices,
             \/ FetchStat(a, s) \/ FetchOpen(a, s) \/ FetchBlock(a, s)
             \/ FetchDone(a, s) \/ FetchRecord(a, s)
      PROVE  page' = page /\ manifest' = manifest /\ Others(a) /\ th'[a].pc # "manifest"
  <2>1. page' = page /\ manifest' = manifest /\ th' = th /\ State(a, s) # "off"
    BY <1>4 DEF FetchStat, FetchOpen, FetchBlock, FetchDone, FetchEnd, FetchAbort, FetchRecord, disk
  <2> QED BY <2>1, WorkerPage DEF Others, At
<1> QED BY <1>a, <1>1, <1>2, <1>3, <1>4, ActorKinds DEF BookStep

\* The whole page is assembled from whole slices.
LEMMA AssembleIsRight ==
  ASSUME StoreInv, FilesExact, NEW a \in Actors, Assemble(a)
  PROVE  /\ My(a) \in Pages /\ Others(a) /\ My(a)' = My(a) /\ manifest' = manifest
         /\ th'[a].pc \notin {"clean", "held"}
         /\ \/ page' = page /\ th'[a].pc # "manifest"
            \/ page' = [page EXCEPT ![My(a)] = RightPage]
<1>0. th \in [Actors -> Threads] /\ th[a] \in Threads /\ At(a, "assemble")
  BY DEF StoreInv, Shape, ThreadShape, Assemble
<1>1. My(a) \in Pages BY <1>0, OwnPage DEF At
<1>2. manifest' = manifest BY DEF Assemble
<1>3. CASE \A s \in Slices : Complete(My(a), s)
  <2>1. th' = [th EXCEPT ![a].pc = "manifest"] /\ page' = [page EXCEPT ![My(a)] = [s \in Slices |-> Data(My(a), s)]]
    BY <1>3 DEF Assemble, Goto
  <2>2. ASSUME NEW s \in Slices PROVE Data(My(a), s) = RightSlice
    <3>1. Present(My(a), s) /\ SizeOf(My(a), s) = SliceLen BY <1>3 DEF Complete
    <3>2. Data(My(a), s) \in Blk /\ Len(Data(My(a), s)) = SliceLen BY <1>1, <3>1, SizeFacts
    <3>3. Exact(Data(My(a), s)) BY <1>1, <3>1 DEF FilesExact, Present, Data
    <3> QED BY <3>2, <3>3, ExactSlice
  <2>3. [s \in Slices |-> Data(My(a), s)] = RightPage BY <2>2 DEF RightPage
  <2>4. th'[a].pc = "manifest" /\ My(a)' = My(a) /\ Others(a) BY <1>0, <2>1 DEF Threads, My, Others
  <2> QED BY <1>1, <1>2, <2>1, <2>3, <2>4
<1>4. CASE ~ \A s \in Slices : Complete(My(a), s)
  <2>1. th' = [th EXCEPT ![a].pc = "cancel"] /\ page' = page BY <1>4 DEF Assemble, Goto
  <2>2. th'[a].pc = "cancel" /\ My(a)' = My(a) /\ Others(a) BY <1>0, <2>1 DEF Threads, My, Others
  <2> QED BY <1>1, <1>2, <2>1, <2>2
<1> QED BY <1>3, <1>4

LEMMA WriteManifestFacts ==
  ASSUME StoreInv, NEW a \in Actors, WriteManifest(a)
  PROVE  /\ My(a) \in Pages /\ At(a, "manifest") /\ Others(a) /\ My(a)' = My(a) /\ page' = page
         /\ th'[a].pc = "index" /\ manifest' = [manifest EXCEPT ![My(a)] = page[My(a)]]
<1>0. th \in [Actors -> Threads] /\ th[a] \in Threads /\ At(a, "manifest")
  BY DEF StoreInv, Shape, ThreadShape, WriteManifest
<1>1. My(a) \in Pages BY <1>0, OwnPage DEF At
<1> QED BY <1>0, <1>1 DEF WriteManifest, Goto, Threads, Others, My

LEMMA PagesExactStep ==
  ASSUME StoreInv, StoreInv', FilesExact, PagesExact, [Next]_vars PROVE PagesExact'
<1>1. page \in [Pages -> Contents \union {None}] /\ manifest \in [Pages -> Contents \union {None}]
  BY DEF StoreInv, Shape, DiskShape
<1>2. \A b \in Actors : At(b, "manifest")' => My(b)' \in Pages /\ page'[My(b)'] # None
  <2>1. \A b \in Actors : At(b, "manifest") => My(b) \in Pages /\ page[My(b)] # None
    BY OwnPage DEF StoreInv, HeldInv, HeldOK, At
  <2>2. IdleInv' /\ HeldInv' /\ ThreadShape' BY DEF StoreInv, Shape
  <2> SUFFICES ASSUME NEW b \in Actors, th'[b].pc = "manifest" PROVE th'[b].page \in Pages /\ page'[th'[b].page] # None
    BY DEF At, My
  <2>3. th'[b].page # None /\ page'[th'[b].page] # None BY <2>2 DEF IdleInv, HeldInv, HeldOK, At, My
  <2>4. th'[b].page \in Pages \union {None} BY <2>2 DEF ThreadShape, Threads
  <2> QED BY <2>3, <2>4
<1>3. ASSUME NEW a \in Actors, ActorStep(a), ~Assemble(a), ~WriteManifest(a) PROVE PagesExact'
  <2>1. /\ Others(a) /\ th'[a].pc # "manifest"
        /\ \A p \in Pages : page'[p] \in {page[p], None} /\ manifest'[p] \in {manifest[p], None}
    BY <1>3, PagesFrame
  <2>2. ASSUME NEW b \in Actors, th'[b].pc = "manifest" PROVE page'[th'[b].page] = RightPage
    <3>1. b # a /\ th'[b] = th[b] BY <2>1, <2>2 DEF Others
    <3>2. page[My(b)] = RightPage BY <2>2, <3>1 DEF PagesExact, At
    <3>3. My(b) \in Pages /\ page'[My(b)] # None BY <1>2, <2>2, <3>1 DEF At, My
    <3> QED BY <2>1, <3>1, <3>2, <3>3 DEF My
  <2> QED BY <2>1, <2>2 DEF PagesExact, At, My
<1>4. ASSUME NEW a \in Actors, Assemble(a) PROVE PagesExact'
  <2>1. /\ My(a) \in Pages /\ Others(a) /\ My(a)' = My(a) /\ manifest' = manifest
        /\ \/ page' = page /\ th'[a].pc # "manifest"
           \/ page' = [page EXCEPT ![My(a)] = RightPage]
    BY <1>4, AssembleIsRight
  <2>2. \A p \in Pages : page'[p] \in {page[p], RightPage} BY <1>1, <2>1
  <2>3. ASSUME NEW b \in Actors, th'[b].pc = "manifest" PROVE page'[th'[b].page] = RightPage
    <3>1. CASE b = a BY <1>1, <2>1, <2>3, <3>1 DEF My
    <3>2. CASE b # a
      <4>1. th'[b] = th[b] BY <2>1, <3>2 DEF Others
      <4>2. page[My(b)] = RightPage /\ My(b) \in Pages BY <2>3, <4>1, OwnPage DEF PagesExact, At
      <4> QED BY <2>2, <4>1, <4>2 DEF My
    <3> QED BY <3>1, <3>2
  <2> QED BY <2>1, <2>2, <2>3 DEF PagesExact, At, My
<1>5. ASSUME NEW a \in Actors, WriteManifest(a) PROVE PagesExact'
  <2>1. /\ My(a) \in Pages /\ At(a, "manifest") /\ Others(a) /\ page' = page
        /\ th'[a].pc = "index" /\ manifest' = [manifest EXCEPT ![My(a)] = page[My(a)]]
    BY <1>5, WriteManifestFacts
  <2>2. page[My(a)] = RightPage BY <2>1 DEF PagesExact
  <2>3. \A p \in Pages : manifest'[p] \in {manifest[p], RightPage} BY <1>1, <2>1, <2>2
  <2> QED BY <2>1, <2>3 DEF PagesExact, At, My, Others
<1>6. ASSUME NEW p \in Pages, Rot(p) PROVE PagesExact'
  <2>1. page' = [page EXCEPT ![p] = Rotten] /\ manifest' = manifest /\ th' = th /\ lock = None
    BY <1>6 DEF Rot, memory
  <2>2. \A b \in Actors : ~At(b, "manifest")
    BY <2>1, NoneIsFresh DEF StoreInv, LockInv, Locked, At
  <2>3. \A q \in Pages : page'[q] \in {page[q], Rotten} BY <1>1, <2>1
  <2> QED BY <2>1, <2>2, <2>3 DEF PagesExact, At
<1>7. Crash => PagesExact'
  BY IdleShape DEF Crash, disk, PagesExact, At
<1>8. UNCHANGED vars => PagesExact' BY DEF vars, disk, PagesExact, At, My
<1> QED BY <1>3, <1>4, <1>5, <1>6, <1>7, <1>8, Steps

LEMMA ExactInit == ASSUME Init PROVE FilesExact /\ PagesExact
BY IdleShape DEF Init, FilesExact, PagesExact, NoEntries, At, Idle

LEMMA ContentsAreRight ==
  ASSUME Shared = {}, ~HardCrash PROVE Spec => [](StoreInv /\ FilesExact /\ PagesExact)
<1>1. Init => FilesExact /\ PagesExact BY ExactInit
<1>2. StoreInv /\ StoreInv' /\ FilesExact /\ PagesExact /\ [Next]_vars => FilesExact' /\ PagesExact'
  BY FilesExactStep, PagesExactStep
<1> QED BY <1>1, <1>2, StoreIsSound, PTL DEF Spec

\* A page whose checksum verifies holds the source's bytes, all of them.
THEOREM PublishedPagesAreExact ==
  ASSUME Shared = {}, ~HardCrash PROVE Spec => []PublishedPageIsExact
<1>1. PagesExact => PublishedPageIsExact BY DEF PagesExact, PublishedPageIsExact
<1> QED BY <1>1, ContentsAreRight, PTL

-----------------------------------------------------------------------------
(* Progress: what a record covers stays on the disk.                       *)

\* A step that changes neither files nor records, closes no file and starts no
\* scan keeps the invariant.
LEMMA ProgressFrame ==
  ASSUME ProgressInv, part' = part, journal' = journal,
         \A a \in Actors : At(a, "inspect")' => th'[a] = th[a],
         \A a \in Actors, s \in Slices : State(a, s) = "open" => State(a, s)' = "open" /\ My(a)' = My(a)
  PROVE  ProgressInv'
<1>1. ASSUME NEW p \in Pages, NEW s \in Slices
      PROVE  FileOK(p, s)'
  BY DEF ProgressInv, FileOK, ScanOK, At, My, State
<1>2. ASSUME NEW a \in Actors, NEW s \in Slices, At(a, "inspect")'
      PROVE  ScanOK(a, s)'
  <2>1. th'[a] = th[a] /\ At(a, "inspect") BY <1>2 DEF At
  <2> QED BY <2>1 DEF ProgressInv, FileOK, ScanOK, At, My, State
<1> QED BY <1>1, <1>2 DEF ProgressInv, ScanOK

\* The workers that have a file open, when a thread keeps its books.
LEMMA BookWorkers ==
  ASSUME StoreInv, NEW a \in Actors, BookStep(a)
  PROVE  \A b \in Actors, s \in Slices :
           State(b, s) = "open" => State(b, s)' = "open" /\ My(b)' = My(b)
<1>0. th \in [Actors -> Threads] /\ th[a] \in Threads /\ wk \in [Actors -> [Slices -> Jobs]]
  BY DEF StoreInv, Shape, ThreadShape, JobShape
<1>1. Others(a) BY BookThreads
<1>2. \A b \in Actors, s \in Slices : State(b, s) = "open" => At(b, "fetch")
  BY DEF StoreInv, WorkInv, WorkOK
<1>3. CASE CancelFetch(a)
  <2>1. th' = [th EXCEPT ![a].cancel = TRUE]
        /\ wk' = [wk EXCEPT ![a] = [s \in Slices |-> IF State(a, s) = "queued" THEN NoWork[s] ELSE wk[a][s]]]
    BY <1>3 DEF CancelFetch
  <2>2. My(a)' = My(a) BY <1>0, <2>1 DEF Threads, My
  <2>3. \A b \in Actors, s \in Slices : State(b, s) = "open" => wk'[b][s] = wk[b][s]
    BY <1>0, <2>1 DEF State
  <2> QED BY <1>1, <2>2, <2>3 DEF Others, State, My
<1>4. CASE FetchFailed(a) \/ StartCommit(a) \/ CancelReservation(a)
  <2>1. \A s \in Slices : State(a, s) # "open"
    BY <1>2, <1>4 DEF FetchFailed, StartCommit, CancelReservation, At
  <2>2. \A b \in Actors \ {a} : wk'[b] = wk[b]
    BY <1>0, <1>4 DEF FetchFailed, StartCommit, CancelReservation
  <2> QED BY <1>1, <2>1, <2>2 DEF Others, State, My
<1>5. CASE /\ BookStep(a) /\ ~CancelFetch(a) /\ ~FetchFailed(a) /\ ~StartCommit(a) /\ ~CancelReservation(a)
  <2>1. wk' = wk /\ ~At(a, "fetch")
    BY <1>5 DEF BookStep, LookupMiss, LookupCorrupt, LookupHit, Enter, DropPage, DropManifest, DropRow,
           Resolve, ResolveFails, Reserve, FitRoom, FitEvict, FitFails,
           Assemble, WriteManifest, IndexPage, Release, At
  <2> QED BY <1>1, <1>2, <2>1 DEF Others, State, My
<1> QED BY <1>3, <1>4, <1>5

LEMMA ProgressBook == ASSUME StoreInv, ProgressInv, NEW a \in Actors, BookStep(a) PROVE ProgressInv'
<1>1. \A b \in Actors : At(b, "inspect")' => th'[b] = th[b] BY BookThreads DEF Others, At
<1> QED BY <1>1, BookThreads, BookWorkers, ProgressFrame

\* A thread other than a that scans is on another page.
LEMMA ScansApart ==
  ASSUME StoreInv, NEW a \in Actors, ~At(a, "idle"), ~At(a, "held")
  PROVE  \A b \in Actors \ {a} : At(b, "inspect") => My(b) \in Pages /\ My(b) # My(a)
BY OwnPage, ApartFrom DEF At

\* Nobody but the workers of the thread on page p has files of p open.
LEMMA OpenersAreOwn ==
  ASSUME StoreInv, NEW a \in Actors, ~At(a, "idle"), ~At(a, "held"), NEW b \in Actors, NEW s \in Slices,
         My(b) = My(a), State(b, s) = "open"
  PROVE  b = a
<1>1. At(b, "fetch") BY DEF StoreInv, WorkInv, WorkOK
<1>2. My(a) # None BY DEF StoreInv, IdleInv
<1> QED BY <1>1, <1>2 DEF StoreInv, Alone, At

LEMMA ProgressPrepareRead ==
  ASSUME StoreInv, ProgressInv, NEW a \in Actors, PrepareRead(a) PROVE ProgressInv'
<1>1. /\ My(a) \in Pages /\ Others(a) /\ part' = part /\ journal' = journal /\ wk' = wk
      /\ th'[a].copy = journal[My(a)] /\ My(a)' = My(a)
  BY PrepareReadFacts
<1>2. ASSUME NEW p \in Pages, NEW s \in Slices
      PROVE  FileOK(p, s)'
  <2>1. \A b \in Actors : My(b)' = My(b) BY <1>1 DEF Others, My
  <2> QED BY <1>1, <2>1 DEF ProgressInv, FileOK, ScanOK, At, My, State
<1>3. ASSUME NEW b \in Actors, NEW s \in Slices, At(b, "inspect")'
      PROVE  ScanOK(b, s)'
  <2>1. CASE b = a BY <1>1, <2>1 DEF ProgressInv, FileOK, ScanOK, At, My, State
  <2>2. CASE b # a
    <3>1. th'[b] = th[b] /\ At(b, "inspect") BY <1>1, <1>3, <2>2 DEF Others, At
    <3> QED BY <1>1, <3>1 DEF ProgressInv, FileOK, ScanOK, At, My, State
  <2> QED BY <2>1, <2>2
<1> QED BY <1>2, <1>3 DEF ProgressInv, ScanOK

\* A record whose bytes are all durable is kept by the scan, and what the scan
\* keeps is durable.
LEMMA ScanKeeps ==
  ASSUME StoreInv, FilesExact, ProgressInv, NEW a \in Actors, PrepareSlice(a)
  PROVE  LET p == My(a)
             s == Min(th[a].scan)
             rec == th[a].copy[s]
             kept == Kept(Data(p, s), rec)
         IN Present(p, s) =>
              /\ kept \in Records /\ (rec # None => kept = rec)
              /\ kept # None =>
                   /\ part'[p][s] = File(kept, Len(kept)) /\ Len(kept) \in 1..Len(kept)
<1> DEFINE p == My(a)
           s == Min(th[a].scan)
           rec == th[a].copy[s]
           data == Data(p, s)
           kept == Kept(data, rec)
<1>0. At(a, "inspect") /\ ~At(a, "idle") /\ ~At(a, "held") BY DEF PrepareSlice, At
<1>1. /\ p \in Pages /\ s \in Slices
      /\ Present(p, s) =>
           /\ part[p][s] \in Files /\ rec \in Records /\ kept \in Records
           /\ part'[p][s] = IF kept = None THEN None
                            ELSE File(kept, Min({part[p][s].synced, Len(kept)}))
  BY PrepareSliceFacts
<1> SUFFICES ASSUME Present(p, s)
             PROVE  /\ kept \in Records /\ (rec # None => kept = rec)
                    /\ kept # None =>
                         /\ part'[p][s] = File(kept, Len(kept)) /\ Len(kept) \in 1..Len(kept)
  OBVIOUS
<1>2. data \in Blk /\ part[p][s].synced \in Nat /\ part[p][s].synced <= Len(data) /\ Exact(data)
  BY <1>1 DEF Files, Data, FilesExact, Present
<1>3. part[p][s].synced = Len(data)
  <2>1. ~ \E b \in Actors : My(b) = p /\ State(b, s) = "open"
    <3> SUFFICES ASSUME NEW b \in Actors, My(b) = My(a), State(b, s) = "open" PROVE FALSE OBVIOUS
    <3>1. b = a BY <1>0, <1>1, OpenersAreOwn
    <3>2. State(a, s) = "off" BY <1>0, <1>1, JobsAreOff DEF At
    <3> QED BY <3>1, <3>2
  <2> QED BY <1>1, <2>1 DEF ProgressInv, FileOK, ScanOK, At, My, State, Present, Data
<1>4. Len(data) \in Nat /\ Len(data) <= SliceLen BY <1>2 DEF Blk
<1>5. CASE rec # None
  <2>1. Len(rec) \in 1..part[p][s].synced /\ rec \in Blk
    BY <1>0, <1>1, <1>5 DEF ProgressInv, FileOK, ScanOK, At, My, State, Records
  <2>2. Exact(rec) BY <1>1, <1>5 DEF FilesExact
  <2>3. Len(rec) <= Len(data) /\ Len(rec) \in Nat /\ Len(rec) >= 1 BY <1>3, <1>4, <2>1
  <2> HIDE DEF rec, data
  <2>4. IsPrefix(rec, data) BY <1>2, <2>1, <2>2, <2>3, ExactPrefix
  <2>5. kept = rec BY <1>4, <1>5, <2>4, PageStoreAssumption DEF Kept
  <2>6. Min({part[p][s].synced, Len(kept)}) = Len(kept)
    <3>1. part[p][s].synced \in Int /\ Len(kept) \in Int /\ Len(kept) <= part[p][s].synced
      BY <1>3, <1>4, <2>3, <2>5
    <3> HIDE DEF kept, p, s
    <3> QED BY <3>1, MinOfTwo
  <2>7. Len(kept) \in 1..Len(kept) BY <2>3, <2>5
  <2> HIDE DEF kept, p, s
  <2> QED BY <1>1, <1>5, <2>5, <2>6, <2>7
<1>6. CASE rec = None /\ kept # None
  <2> HIDE DEF rec, data
  <2>1. kept = data /\ Len(data) = SliceLen
    BY <1>4, <1>6, PageStoreAssumption DEF Kept
  <2>2. Min({part[p][s].synced, Len(kept)}) = Len(kept) /\ Len(kept) \in 1..Len(kept)
    BY <1>3, <1>4, <2>1, PageStoreAssumption, MinOfTwo
  <2> HIDE DEF kept, p, s
  <2> QED BY <1>1, <1>6, <2>2
<1>7. CASE rec = None /\ kept = None BY <1>1, <1>7
<1> QED BY <1>5, <1>6, <1>7

LEMMA ProgressPrepareSlice ==
  ASSUME StoreInv, FilesExact, ProgressInv, NEW a \in Actors, PrepareSlice(a) PROVE ProgressInv'
<1> DEFINE p == My(a)
           s == Min(th[a].scan)
           rec == th[a].copy[s]
           kept == Kept(Data(p, s), rec)
<1>0. At(a, "inspect") /\ ~At(a, "idle") /\ ~At(a, "held") BY DEF PrepareSlice, At
<1>1. /\ p \in Pages /\ s \in Slices /\ wk' = wk /\ journal' = journal
      /\ Others(a) /\ My(a)' = p
      /\ \A q \in Pages, t \in Slices : q # p \/ t # s => part'[q][t] = part[q][t]
      /\ \A t \in Slices : t # s => th'[a].copy[t] = th[a].copy[t]
      /\ ~Present(p, s) => part' = part /\ th'[a].copy = th[a].copy
      /\ Present(p, s) =>
           /\ th'[a].copy[s] = kept
           /\ part'[p][s] = IF kept = None THEN None
                            ELSE File(kept, Min({part[p][s].synced, Len(kept)}))
  BY PrepareSliceFacts
<1>2. Present(p, s) =>
        /\ kept \in Records /\ (rec # None => kept = rec)
        /\ kept # None => part'[p][s] = File(kept, Len(kept)) /\ Len(kept) \in 1..Len(kept)
  BY ScanKeeps
<1>3. ASSUME NEW t \in Slices
      PROVE  /\ journal[p][t] # None => th[a].copy[t] = journal[p][t]
             /\ th[a].copy[t] # None => part[p][t] # None /\ Len(th[a].copy[t]) \in 1..part[p][t].synced
             /\ journal[p][t] # None => part[p][t] # None /\ Len(journal[p][t]) \in 1..part[p][t].synced
  BY <1>0, <1>1 DEF ProgressInv, FileOK, ScanOK, At, My, State
<1>4. \A b \in Actors : My(b)' = My(b) BY <1>1 DEF Others, My
<1> HIDE DEF p, s, rec, kept
<1>5. ASSUME Present(p, s), kept # None
      PROVE  /\ part'[p][s] # None /\ part'[p][s].synced = Len(kept) /\ part'[p][s].data = kept
             /\ Len(kept) \in 1..part'[p][s].synced
  <2>1. part'[p][s] = File(kept, Len(kept)) /\ Len(kept) \in 1..Len(kept) BY <1>2, <1>5
  <2>2. File(kept, Len(kept)) \in Files
    BY <1>2, <1>5, <2>1 DEF Records, Blk, File, Files
  <2> QED BY <2>1, <2>2, NoneIsFresh DEF File
<1>6. ASSUME NEW t \in Slices
      PROVE  /\ journal[p][t] # None => th'[a].copy[t] = journal[p][t]
             /\ th'[a].copy[t] # None =>
                  part'[p][t] # None /\ Len(th'[a].copy[t]) \in 1..part'[p][t].synced
             /\ journal[p][t] # None =>
                  part'[p][t] # None /\ Len(journal[p][t]) \in 1..part'[p][t].synced
  <2>1. CASE t # s \/ ~Present(p, s) BY <1>1, <1>3, <2>1
  <2>2. CASE t = s /\ Present(p, s)
    <3>1. th'[a].copy[s] = kept /\ (journal[p][s] # None => kept = journal[p][s])
      BY <1>1, <1>2, <1>3, <2>2 DEF rec
    <3> QED BY <1>5, <2>2, <3>1
  <2> QED BY <2>1, <2>2
<1>7. ASSUME NEW q \in Pages, NEW t \in Slices
      PROVE  FileOK(q, t)'
  <2>1. CASE q = p /\ t = s /\ Present(p, s)
    <3>1. part'[p][s] # None => kept # None BY <1>1, <2>1
    <3> QED BY <1>1, <1>5, <1>6, <2>1, <3>1 DEF FileOK, State
  <2>2. CASE ~(q = p /\ t = s /\ Present(p, s))
    <3>1. part'[q][t] = part[q][t] BY <1>1, <2>2
    <3> QED BY <1>1, <1>4, <3>1 DEF ProgressInv, FileOK, ScanOK, At, My, State
  <2> QED BY <2>1, <2>2
<1>8. ASSUME NEW b \in Actors, NEW t \in Slices, At(b, "inspect")'
      PROVE  ScanOK(b, t)'
  <2>1. CASE b = a BY <1>1, <1>6, <2>1 DEF ScanOK, My, At
  <2>2. CASE b # a
    <3>1. th'[b] = th[b] /\ At(b, "inspect") BY <1>1, <1>8, <2>2 DEF Others, At
    <3>2. My(b) \in Pages /\ My(b) # p BY <1>0, <2>2, <3>1, ScansApart DEF p
    <3>3. part'[My(b)][t] = part[My(b)][t] BY <1>1, <3>2
    <3> QED BY <1>1, <3>1, <3>3 DEF ProgressInv, FileOK, ScanOK, At, My, State
  <2> QED BY <2>1, <2>2
<1> QED BY <1>7, <1>8 DEF ProgressInv, ScanOK

LEMMA ProgressPrepareWrite ==
  ASSUME StoreInv, ProgressInv, NEW a \in Actors, PrepareWrite(a) PROVE ProgressInv'
<1> DEFINE p == My(a)
<1>0. At(a, "inspect") /\ ~At(a, "idle") /\ ~At(a, "held") BY DEF PrepareWrite, At
<1>1. /\ p \in Pages /\ Others(a) /\ part' = part /\ My(a)' = p
      /\ th'[a].pc # "inspect"
      /\ \A s \in Slices : State(a, s) = "off"
      /\ \A b \in Actors \ {a} : wk'[b] = wk[b]
      /\ journal' \in {journal, [journal EXCEPT ![p] = th[a].copy]}
  BY PrepareWriteFacts
<1>2. journal \in [Pages -> [Slices -> Records]] BY DEF StoreInv, Shape, PartialShape
<1>3. \A q \in Pages, t \in Slices :
        \/ journal'[q][t] = journal[q][t]
        \/ q = p /\ journal'[q][t] = th[a].copy[t]
  BY <1>1, <1>2
<1>4. ASSUME NEW q \in Pages, NEW t \in Slices PROVE FileOK(q, t)'
  <2>1. journal'[q][t] # None => part[q][t] # None /\ Len(journal'[q][t]) \in 1..part[q][t].synced
    <3>1. CASE journal'[q][t] = journal[q][t] BY <3>1 DEF ProgressInv, FileOK
    <3>2. CASE q = p /\ journal'[q][t] = th[a].copy[t] BY <1>0, <3>2 DEF ProgressInv, ScanOK
    <3> QED BY <1>3, <3>1, <3>2
  <2>2. \A b \in Actors : My(b) = q /\ State(b, t) = "open" => My(b)' = q /\ State(b, t)' = "open"
    BY <1>1 DEF Others, My, State
  <2> QED BY <1>1, <2>1, <2>2 DEF ProgressInv, FileOK
<1>5. ASSUME NEW b \in Actors, NEW t \in Slices, At(b, "inspect")' PROVE ScanOK(b, t)'
  <2>1. b # a /\ th'[b] = th[b] /\ At(b, "inspect") BY <1>1, <1>5 DEF Others, At
  <2>2. My(b) \in Pages /\ My(b) # p BY <1>0, <2>1, ScansApart
  <2>3. journal'[My(b)] = journal[My(b)] BY <1>1, <1>2, <2>2
  <2> QED BY <1>1, <2>1, <2>3 DEF ProgressInv, ScanOK, My
<1> QED BY <1>4, <1>5 DEF ProgressInv, ScanOK

LEMMA ProgressCleanUp ==
  ASSUME StoreInv, ProgressInv, NEW a \in Actors, CleanUp(a) PROVE ProgressInv'
<1> DEFINE p == My(a)
<1>1. /\ p \in Pages /\ At(a, "clean") /\ wk' = wk /\ Others(a)
      /\ th'[a].pc = "held"
      /\ part' = [part EXCEPT ![p] = NoEntries]
      /\ journal' = [journal EXCEPT ![p] = NoEntries]
  BY CleanUpFacts
<1>2. /\ journal \in [Pages -> [Slices -> Records]]
      /\ part \in [Pages -> [Slices -> Files \union {None}]]
  BY DEF StoreInv, Shape, PartialShape
<1>3. ~At(a, "idle") /\ ~At(a, "held") /\ \A s \in Slices : State(a, s) = "off"
  BY <1>1, JobsAreOff DEF At
<1>4. ASSUME NEW q \in Pages, NEW t \in Slices PROVE FileOK(q, t)'
  <2>1. CASE q = p
    <3>1. part'[q][t] = None /\ journal'[q][t] = None BY <1>1, <1>2, <2>1 DEF NoEntries
    <3> QED BY <3>1 DEF FileOK
  <2>2. CASE q # p
    <3>1. part'[q] = part[q] /\ journal'[q] = journal[q] BY <1>1, <1>2, <2>2
    <3>2. \A b \in Actors : My(b) = q /\ State(b, t) = "open" => My(b)' = q /\ State(b, t)' = "open"
      BY <1>1, <1>3 DEF Others, My, State
    <3> QED BY <3>1, <3>2 DEF ProgressInv, FileOK
  <2> QED BY <2>1, <2>2
<1>5. ASSUME NEW b \in Actors, NEW t \in Slices, At(b, "inspect")' PROVE ScanOK(b, t)'
  <2>1. b # a /\ th'[b] = th[b] /\ At(b, "inspect") BY <1>1, <1>5 DEF Others, At
  <2>2. My(b) \in Pages /\ My(b) # p BY <1>3, <2>1, ScansApart
  <2>3. journal'[My(b)] = journal[My(b)] /\ part'[My(b)] = part[My(b)] BY <1>1, <1>2, <2>2
  <2> QED BY <2>1, <2>3 DEF ProgressInv, ScanOK, My
<1> QED BY <1>4, <1>5 DEF ProgressInv, ScanOK

\* A step of one worker: it is enough to look at its own file.
LEMMA ProgressWorker ==
  ASSUME StoreInv, ProgressInv, NEW a \in Actors, NEW s \in Slices, State(a, s) # "off", th' = th,
         \A b \in Actors, t \in Slices : b # a \/ t # s => wk'[b][t] = wk[b][t],
         \A q \in Pages, t \in Slices :
           q # My(a) \/ t # s => part'[q][t] = part[q][t] /\ journal'[q][t] = journal[q][t],
         FileOK(My(a), s)'
  PROVE  ProgressInv'
<1>0. My(a) \in Pages /\ At(a, "fetch") /\ ~At(a, "idle") /\ ~At(a, "held") BY WorkerPage DEF At
<1>1. ASSUME NEW q \in Pages, NEW t \in Slices PROVE FileOK(q, t)'
  <2>1. CASE q = My(a) /\ t = s BY <2>1 DEF FileOK, My
  <2>2. CASE q # My(a) \/ t # s
    <3>1. \A b \in Actors : My(b) = q /\ State(b, t) = "open" => My(b)' = q /\ State(b, t)' = "open"
      BY <2>2 DEF My, State
    <3> QED BY <2>2, <3>1 DEF ProgressInv, FileOK
  <2> QED BY <2>1, <2>2
<1>2. ASSUME NEW b \in Actors, NEW t \in Slices, At(b, "inspect")' PROVE ScanOK(b, t)'
  <2>1. b # a /\ At(b, "inspect") BY <1>0, <1>2 DEF At
  <2>2. My(b) \in Pages /\ My(b) # My(a) BY <1>0, <2>1, ScansApart
  <2>3. journal'[My(b)][t] = journal[My(b)][t] /\ part'[My(b)][t] = part[My(b)][t] BY <2>2
  <2> QED BY <2>1, <2>3 DEF ProgressInv, ScanOK, My
<1> QED BY <1>1, <1>2 DEF ProgressInv, ScanOK

\* A file its only worker has not open is durable to its end.
LEMMA ClosedIsSynced ==
  ASSUME StoreInv, ProgressInv, NEW a \in Actors, NEW s \in Slices,
         State(a, s) \notin {"off", "open"}, Present(My(a), s)
  PROVE  part[My(a)][s].synced = Len(part[My(a)][s].data)
<1>1. My(a) \in Pages /\ ~At(a, "idle") /\ ~At(a, "held") BY WorkerPage DEF At
<1>2. ~ \E b \in Actors : My(b) = My(a) /\ State(b, s) = "open" BY <1>1, OpenersAreOwn
<1> QED BY <1>1, <1>2 DEF ProgressInv, FileOK, Present

LEMMA ProgressFetch ==
  ASSUME StoreInv, ProgressInv, NEW a \in Actors, NEW s \in Slices,
         \/ FetchStat(a, s) \/ FetchOpen(a, s) \/ FetchBlock(a, s)
         \/ FetchDone(a, s) \/ FetchRecord(a, s)
  PROVE  ProgressInv'
<1> DEFINE p == My(a)
<1>0. State(a, s) # "off" /\ th' = th
  BY DEF FetchStat, FetchOpen, FetchBlock, FetchDone, FetchEnd, FetchAbort, FetchRecord
<1>1. p \in Pages /\ ~At(a, "idle") /\ ~At(a, "held") BY <1>0, WorkerPage DEF At
<1>2. wk \in [Actors -> [Slices -> Jobs]] /\ wk[a][s] \in Jobs
      /\ journal \in [Pages -> [Slices -> Records]]
      /\ part \in [Pages -> [Slices -> Files \union {None}]]
  BY DEF StoreInv, Shape, PartialShape, JobShape
<1>3. journal[p][s] # None => part[p][s] # None /\ Len(journal[p][s]) \in 1..part[p][s].synced
  BY <1>1 DEF ProgressInv, FileOK
<1>4. part[p][s] # None =>
        part[p][s].synced \in Nat /\ Len(part[p][s].data) \in Nat /\ part[p][s].synced <= Len(part[p][s].data)
  BY <1>1, <1>2 DEF Files, Blk
<1>5. CASE FetchStat(a, s)
  <2>1. /\ part' = part /\ journal' = journal /\ State(a, s) = "queued"
        /\ \A b \in Actors, t \in Slices : b # a \/ t # s => wk'[b][t] = wk[b][t]
    BY <1>5, FetchStatFacts
  <2>2. part[p][s] # None => part[p][s].synced = Len(part[p][s].data)
    BY <2>1, ClosedIsSynced DEF Present
  <2>3. FileOK(p, s)' BY <1>0, <1>3, <2>1, <2>2 DEF FileOK, My
  <2> QED BY <1>0, <2>1, <2>3, ProgressWorker DEF My
<1>6. CASE FetchOpen(a, s)
  <2>1. /\ part'[p][s] # None /\ Len(part'[p][s].data) = wk[a][s].at
        /\ \/ part'[p][s] = part[p][s]
           \/ SizeOf(p, s) = 0 /\ part'[p][s] = File(<<>>, 0)
        /\ \A q \in Pages, t \in Slices : q # p \/ t # s => part'[q][t] = part[q][t]
    BY <1>6, FetchOpenFacts
  <2>2. journal' = journal /\ wk' = [wk EXCEPT ![a][s].st = "open"] BY <1>6 DEF FetchOpen
  <2>3. /\ wk'[a][s].st = "open"
        /\ \A b \in Actors, t \in Slices : b # a \/ t # s => wk'[b][t] = wk[b][t]
    BY <1>2, <2>2 DEF Jobs
  <2>4. journal[p][s] # None => part'[p][s] = part[p][s]
    <3>1. journal[p][s] # None => SizeOf(p, s) # 0 BY <1>3, <1>4 DEF SizeOf, Data
    <3> QED BY <2>1, <3>1
  <2>5. My(a)' = p /\ State(a, s)' = "open" BY <1>0, <2>3 DEF My, State
  <2>6. FileOK(p, s)' BY <1>0, <1>3, <2>2, <2>4, <2>5 DEF FileOK
  <2> QED BY <1>0, <2>1, <2>2, <2>3, <2>6, ProgressWorker
<1>7. CASE FetchBlock(a, s)
  <2> DEFINE w == wk[a][s]
             data == Written(Data(p, s), w.append, w.at)
  <2>1. /\ State(a, s) = "open" /\ Present(p, s) /\ part[p][s] \in Files
        /\ wk' = [wk EXCEPT ![a][s] = [w EXCEPT !.at = w.at + 1]]
        /\ part'[p][s] = [part[p][s] EXCEPT !.data = data]
        /\ part' = [part EXCEPT ![p][s] = part'[p][s]] /\ data \in Blk
    BY <1>7, FetchBlockFacts
  <2> HIDE DEF data
  <2>2. journal' = journal BY <1>7 DEF FetchBlock
  <2>3. /\ wk'[a][s].st = "open"
        /\ \A b \in Actors, t \in Slices : b # a \/ t # s => wk'[b][t] = wk[b][t]
    BY <1>2, <2>1 DEF Jobs, State
  <2>4. \A q \in Pages, t \in Slices : q # p \/ t # s => part'[q][t] = part[q][t]
    <3> HIDE DEF p
    <3>1. part'[p][s] \in {part'[p][s]} OBVIOUS
    <3> QED BY <1>2, <2>1
  <2>5. part'[p][s].synced = part[p][s].synced /\ part'[p][s] \in [data : Blk, synced : Nat]
    BY <2>1 DEF Files
  <2>6. part'[p][s] # None
    <3>1. 0..SliceLen \subseteq Nat BY PageStoreAssumption
    <3>2. Seq(0..SliceLen) \subseteq Seq(Nat) BY <3>1, SeqMonotonic
    <3>3. part'[p][s] \in [data : Seq(Nat), synced : Nat] BY <2>5, <3>2 DEF Blk
    <3> QED BY <3>3, PageStoreAssumption
  <2>7. My(a)' = p /\ State(a, s)' = "open" BY <1>0, <2>3 DEF My, State
  <2>8. FileOK(p, s)' BY <1>0, <1>3, <2>2, <2>5, <2>6, <2>7 DEF FileOK
  <2> QED BY <1>0, <2>2, <2>3, <2>4, <2>8, ProgressWorker
<1>8. CASE FetchDone(a, s)
  <2>1. /\ part' = Synced(a, s) /\ journal' = journal
        /\ \A b \in Actors, t \in Slices : b # a \/ t # s => wk'[b][t] = wk[b][t]
    BY <1>8, FetchDoneFacts
  <2>2. /\ \A q \in Pages, t \in Slices :
             /\ q # p \/ t # s => part'[q][t] = part[q][t]
             /\ part'[q][t] = None <=> part[q][t] = None
             /\ part'[q][t] # None => part'[q][t].data = part[q][t].data
        /\ IF State(a, s) = "open"
             THEN part'[p][s] # None /\ part'[p][s].synced = Len(part'[p][s].data)
             ELSE part' = part
    BY <1>0, <2>1, SyncedFacts
  <2>3. part'[p][s] # None =>
          /\ part'[p][s].synced = Len(part'[p][s].data)
          /\ part'[p][s].synced >= part[p][s].synced /\ part'[p][s].synced \in Nat
    <3>1. CASE State(a, s) = "open" BY <1>1, <1>4, <2>2, <3>1
    <3>2. CASE State(a, s) # "open"
      <4>1. part'[p][s] = part[p][s] BY <2>2, <3>2
      <4>2. part[p][s] # None => part[p][s].synced = Len(part[p][s].data)
        BY <1>0, <3>2, ClosedIsSynced DEF Present
      <4> QED BY <1>4, <4>1, <4>2
    <3> QED BY <3>1, <3>2
  <2>4. part[p][s] # None => part'[p][s] # None BY <1>1, <2>2
  <2>5. journal'[p][s] # None => part'[p][s] # None /\ Len(journal'[p][s]) \in 1..part'[p][s].synced
    BY <1>3, <1>4, <2>1, <2>3, <2>4
  <2>6. FileOK(p, s)' BY <1>0, <2>3, <2>5 DEF FileOK, My
  <2> QED BY <1>0, <2>1, <2>2, <2>6, ProgressWorker
<1>9. CASE FetchRecord(a, s)
  <2>1. /\ State(a, s) \in {"recordOk", "recordErr"} /\ part' = part
        /\ \A b \in Actors, t \in Slices : b # a \/ t # s => wk'[b][t] = wk[b][t]
        /\ \/ journal' = journal
           \/ /\ Present(p, s) /\ Data(p, s) \in Blk /\ Len(Data(p, s)) > 0
              /\ journal' = [journal EXCEPT ![p][s] = Data(p, s)]
    BY <1>9, FetchRecordFacts
  <2>2. part[p][s] # None => part[p][s].synced = Len(part[p][s].data)
    BY <2>1, ClosedIsSynced DEF Present
  <2>3. \A q \in Pages, t \in Slices : q # p \/ t # s => journal'[q][t] = journal[q][t]
    BY <1>2, <2>1
  <2>4. journal'[p][s] # None => part[p][s] # None /\ Len(journal'[p][s]) \in 1..part[p][s].synced
    <3>1. CASE journal' = journal BY <1>3, <3>1
    <3>2. CASE journal' # journal
      <4>1. journal'[p][s] = Data(p, s) /\ Present(p, s) /\ Len(Data(p, s)) > 0 BY <1>1, <1>2, <2>1, <3>2
      <4> QED BY <1>4, <2>2, <4>1 DEF Present, Data
    <3> QED BY <3>1, <3>2
  <2>5. FileOK(p, s)' BY <1>0, <2>1, <2>2, <2>4 DEF FileOK, My
  <2> QED BY <1>0, <2>1, <2>3, <2>5, ProgressWorker
<1> QED BY <1>5, <1>6, <1>7, <1>8, <1>9

LEMMA ProgressCrash == ASSUME StoreInv, ProgressInv, Crash PROVE ProgressInv'
<1>1. journal' = journal /\ \A a \in Actors : ~At(a, "inspect")' BY IdleShape DEF Crash, At
<1>2. ASSUME NEW p \in Pages, NEW s \in Slices PROVE FileOK(p, s)'
  <2>1. CASE part[p][s] = None
    <3>1. part'[p][s] = None BY <2>1, CrashFacts
    <3> QED BY <1>1, <2>1, <3>1 DEF ProgressInv, FileOK
  <2>2. CASE part[p][s] # None
    <3>1. part[p][s] \in Files /\ part'[p][s] \in Survivors(part[p][s]) BY <2>2, CrashFacts
    <3>2. /\ part'[p][s] \in Files /\ part'[p][s].synced = Len(part'[p][s].data)
          /\ Len(part'[p][s].data) \in part[p][s].synced..Len(part[p][s].data)
      BY <3>1, SurvivorFacts
    <3>3. part'[p][s] # None BY <3>2, NoneIsFresh
    <3>4. part[p][s].synced \in Nat /\ part'[p][s].synced \in Nat /\ part'[p][s].synced >= part[p][s].synced
      BY <3>1, <3>2 DEF Files
    <3>5. journal[p][s] # None => Len(journal[p][s]) \in 1..part'[p][s].synced
      BY <3>4 DEF ProgressInv, FileOK
    <3> QED BY <1>1, <3>2, <3>3, <3>5 DEF FileOK
  <2> QED BY <2>1, <2>2
<1> QED BY <1>1, <1>2 DEF ProgressInv, ScanOK

LEMMA ProgressStep ==
  ASSUME StoreInv, FilesExact, ProgressInv, [Next]_vars PROVE ProgressInv'
<1>1. ASSUME NEW a \in Actors, ActorStep(a) PROVE ProgressInv'
  BY <1>1, ActorKinds, ProgressBook, ProgressPrepareRead, ProgressPrepareSlice, ProgressPrepareWrite,
     ProgressCleanUp, ProgressFetch
<1>2. ASSUME NEW p \in Pages, Rot(p) PROVE ProgressInv'
  BY <1>2, ProgressFrame DEF Rot, partial, State, My
<1>3. UNCHANGED vars => ProgressInv' BY ProgressFrame DEF vars, partial, State, My
<1> QED BY <1>1, <1>2, <1>3, Steps, ProgressCrash

LEMMA ProgressInit == ASSUME Init PROVE ProgressInv
BY IdleShape DEF Init, ProgressInv, FileOK, ScanOK, NoEntries, At, Idle

LEMMA ProgressIsSound ==
  ASSUME Shared = {}, ~HardCrash
  PROVE  Spec => [](StoreInv /\ FilesExact /\ PagesExact /\ ProgressInv)
<1>1. StoreInv /\ FilesExact /\ ProgressInv /\ [Next]_vars => ProgressInv' BY ProgressStep
<1> QED BY <1>1, ProgressInit, ContentsAreRight, PTL DEF Spec

\* What may become of the record of slice s of page p in one step.
RecordKept(p, s) ==
  \/ journal'[p][s] # None /\ IsPrefix(journal[p][s], journal'[p][s])
  \/ page[p] = RightPage /\ manifest[p] = RightPage

LEMMA SameRecord ==
  ASSUME StoreInv, FilesExact, NEW p \in Pages, NEW s \in Slices,
         journal[p][s] # None, journal'[p][s] = journal[p][s]
  PROVE  RecordKept(p, s)
<1>1. journal[p][s] \in Blk /\ Exact(journal[p][s])
  BY DEF StoreInv, Shape, PartialShape, Records, FilesExact
<1> DEFINE d == journal[p][s]
<1>2. Len(d) \in Nat BY <1>1 DEF Blk
<1> HIDE DEF d
<1>3. IsPrefix(d, d) BY <1>1, <1>2, ExactPrefix DEF d
<1> QED BY <1>3 DEF RecordKept, d

LEMMA RecordsKeptByActor ==
  ASSUME StoreInv, FilesExact, PagesExact, ProgressInv, NEW a \in Actors, ActorStep(a),
         NEW p \in Pages, NEW s \in Slices, journal[p][s] # None
  PROVE  RecordKept(p, s)
<1>0. journal \in [Pages -> [Slices -> Records]] BY DEF StoreInv, Shape, PartialShape
<1>1. CASE journal'[p][s] = journal[p][s] BY <1>1, SameRecord
<1>2. CASE PrepareWrite(a)
  <2>1. My(a) \in Pages /\ journal' \in {journal, [journal EXCEPT ![My(a)] = th[a].copy]}
    BY <1>2, PrepareWriteFacts
  <2>2. journal'[p][s] = journal[p][s] \/ (p = My(a) /\ journal'[p][s] = th[a].copy[s]) BY <1>0, <2>1
  <2>3. At(a, "inspect") BY <1>2 DEF PrepareWrite
  <2>4. p = My(a) => th[a].copy[s] = journal[p][s] BY <2>3 DEF ProgressInv, ScanOK
  <2> QED BY <2>2, <2>4, SameRecord
<1>3. CASE CleanUp(a)
  <2>1. /\ My(a) \in Pages /\ At(a, "clean")
        /\ journal' = [journal EXCEPT ![My(a)] = NoEntries]
    BY <1>3, CleanUpFacts
  <2>2. p # My(a) => journal'[p][s] = journal[p][s] BY <1>0, <2>1
  <2>3. page[My(a)] # None /\ manifest[My(a)] = page[My(a)]
    BY <2>1 DEF StoreInv, HeldInv, HeldOK, At
  <2>4. page[My(a)] = RightPage BY <2>1, <2>3 DEF PagesExact
  <2> QED BY <2>2, <2>3, <2>4, SameRecord DEF RecordKept
<1>4. ASSUME NEW t \in Slices, FetchRecord(a, t) PROVE RecordKept(p, s)
  <2> DEFINE q == My(a)
  <2>1. /\ q \in Pages /\ State(a, t) \in {"recordOk", "recordErr"}
        /\ \/ journal' = journal
           \/ /\ Present(q, t) /\ Data(q, t) \in Blk
              /\ journal' = [journal EXCEPT ![q][t] = Data(q, t)]
    BY <1>4, FetchRecordFacts
  <2>2. CASE journal'[p][s] = journal[p][s] BY <2>2, SameRecord
  <2>3. CASE journal'[p][s] # journal[p][s]
    <3>1. /\ p = q /\ s = t /\ Present(p, s) /\ Data(p, s) \in Blk
          /\ journal'[p][s] = Data(p, s)
      BY <1>0, <2>1, <2>3
    <3> DEFINE d == journal[p][s]
               e == Data(p, s)
    <3>2. Exact(d) /\ Exact(e) /\ d \in Blk /\ e \in Blk
      BY <1>0, <3>1 DEF FilesExact, Present, Data, Records
    <3>3. part[p][s].synced = Len(e)
      BY <2>1, <3>1, ClosedIsSynced DEF Data
    <3>4. Len(d) \in 1..Len(e) BY <3>3 DEF ProgressInv, FileOK
    <3>5. Len(e) \in Nat BY <3>2 DEF Blk
    <3> HIDE DEF d, e
    <3>6. IsPrefix(d, e) BY <3>2, <3>4, <3>5, ExactPrefix
    <3>7. e # None BY <3>2, NoneIsFresh
    <3> QED BY <3>1, <3>6, <3>7 DEF RecordKept, d, e
  <2> QED BY <2>2, <2>3
<1>5. BookStep(a) \/ PrepareRead(a) \/ PrepareSlice(a) => journal' = journal
  BY BookThreads, PrepareReadFacts DEF PrepareSlice
<1>6. ASSUME NEW t \in Slices, FetchStat(a, t) \/ FetchOpen(a, t) \/ FetchBlock(a, t) \/ FetchDone(a, t)
      PROVE  journal' = journal
  BY <1>6 DEF FetchStat, FetchOpen, FetchBlock, FetchDone, FetchEnd, FetchAbort
<1> QED BY <1>1, <1>2, <1>3, <1>4, <1>5, <1>6, ActorKinds

\* A record only grows, along the same bytes, until its page is published.
THEOREM RecordsOnlyGrow == ASSUME Shared = {}, ~HardCrash PROVE Spec => ProgressIsKept
<1> DEFINE Grows == \A p \in Pages, s \in Slices : journal[p][s] # None => RecordKept(p, s)
<1>1. ASSUME StoreInv, FilesExact, PagesExact, ProgressInv, [Next]_vars PROVE Grows
  <2> SUFFICES ASSUME NEW p \in Pages, NEW s \in Slices, journal[p][s] # None PROVE RecordKept(p, s)
    OBVIOUS
  <2>1. ASSUME NEW a \in Actors, ActorStep(a) PROVE RecordKept(p, s) BY <1>1, <2>1, RecordsKeptByActor
  <2>2. ASSUME NEW q \in Pages, Rot(q) PROVE RecordKept(p, s) BY <1>1, <2>2, SameRecord DEF Rot, partial
  <2>3. Crash => journal' = journal BY DEF Crash
  <2>4. UNCHANGED vars => RecordKept(p, s) BY <1>1, SameRecord DEF vars, partial
  <2> QED BY <1>1, <2>1, <2>2, <2>3, <2>4, Steps, SameRecord
<1>2. Grows <=> \A p \in Pages, s \in Slices : journal[p][s] # None =>
                  \/ journal'[p][s] # None /\ IsPrefix(journal[p][s], journal'[p][s])
                  \/ page[p] = RightPage /\ manifest[p] = RightPage
  BY DEF RecordKept
<1>3. StoreInv /\ FilesExact /\ PagesExact /\ ProgressInv /\ [Next]_vars =>
        (\A p \in Pages, s \in Slices : journal[p][s] # None =>
           \/ journal'[p][s] # None /\ IsPrefix(journal[p][s], journal'[p][s])
           \/ page[p] = RightPage /\ manifest[p] = RightPage)
  BY <1>1, <1>2
<1> QED BY <1>3, ProgressIsSound, PTL DEF Spec, ProgressIsKept

-----------------------------------------------------------------------------
(* The store implements the cache of PageCache.                            *)

Avail == {p \in Pages : page[p] = RightPage /\ manifest[p] = RightPage}
Using(a) == th[a].pc \in {"clean", "held"}
UseOf(a) == IF Using(a) THEN My(a) ELSE None
Users == [a \in Actors |-> UseOf(a)]

\* The abstract steps, in the words of the store.
LEMMA CacheSteps ==
  /\ Avail = {} /\ Users = [a \in Actors |-> None] => Cache!CacheInit
  /\ Avail' = Avail /\ Users' = Users => UNCHANGED Cache!cacheVars
  /\ \A p \in Pages : Avail' = Avail \union {p} /\ Users' = Users => Cache!CacheNext
  /\ \A p \in Pages :
       (\A a \in Actors : UseOf(a) # p) /\ Avail' = Avail \ {p} /\ Users' = Users => Cache!CacheNext
  /\ \A a \in Actors, p \in Pages :
       UseOf(a) = None /\ p \in Avail /\ Users' = [Users EXCEPT ![a] = p] /\ Avail' = Avail => Cache!CacheNext
  /\ \A a \in Actors : Users' = [Users EXCEPT ![a] = None] /\ Avail' = Avail => Cache!CacheNext
  /\ Users' = [a \in Actors |-> None] /\ Avail' = Avail => Cache!CacheNext
<1>1. Avail = {} /\ Users = [a \in Actors |-> None] => Cache!CacheInit
  BY DEF Cache!CacheInit, Avail, Users, UseOf, Using
<1>2. Avail' = Avail /\ Users' = Users => UNCHANGED Cache!cacheVars
  BY DEF Cache!cacheVars, Avail, Users, UseOf, Using
<1>3. ASSUME NEW p \in Pages, Avail' = Avail \union {p}, Users' = Users PROVE Cache!CacheNext
  <2>1. Cache!Publish(p) BY <1>3 DEF Cache!Publish, Avail, Users, UseOf, Using
  <2> QED BY <2>1 DEF Cache!CacheNext
<1>4. ASSUME NEW p \in Pages, \A a \in Actors : UseOf(a) # p, Avail' = Avail \ {p}, Users' = Users
      PROVE  Cache!CacheNext
  <2>1. Cache!Withdraw(p) BY <1>4 DEF Cache!Withdraw, Avail, Users, UseOf, Using
  <2> QED BY <2>1 DEF Cache!CacheNext
<1>5. ASSUME NEW a \in Actors, NEW p \in Pages,
             UseOf(a) = None, p \in Avail, Users' = [Users EXCEPT ![a] = p], Avail' = Avail
      PROVE  Cache!CacheNext
  <2>1. Cache!Acquire(a, p) BY <1>5 DEF Cache!Acquire, Avail, Users, UseOf, Using
  <2> QED BY <2>1 DEF Cache!CacheNext
<1>6. ASSUME NEW a \in Actors, Users' = [Users EXCEPT ![a] = None], Avail' = Avail PROVE Cache!CacheNext
  <2>1. Cache!GiveBack(a) BY <1>6 DEF Cache!GiveBack, Avail, Users, UseOf, Using
  <2> QED BY <2>1 DEF Cache!CacheNext
<1>7. ASSUME Users' = [a \in Actors |-> None], Avail' = Avail PROVE Cache!CacheNext
  <2>1. Cache!Restart BY <1>7 DEF Cache!Restart, Avail, Users, UseOf, Using
  <2> QED BY <2>1 DEF Cache!CacheNext
<1> QED BY <1>1, <1>2, <1>3, <1>4, <1>5, <1>6, <1>7

LEMMA UsersStep ==
  ASSUME NEW a \in Actors, Others(a)
  PROVE  /\ Users' = [Users EXCEPT ![a] = UseOf(a)']
         /\ UseOf(a)' = UseOf(a) => Users' = Users
BY DEF Users, UseOf, Using, Others, My

\* All steps but four neither begin nor end the use of a page.
LEMMA UnusedSteps ==
  ASSUME StoreInv, NEW a \in Actors, ActorStep(a),
         \A p \in Pages : ~LookupHit(a, p), ~IndexPage(a), ~CleanUp(a), ~Release(a)
  PROVE  Others(a) /\ ~Using(a) /\ ~Using(a)'
<1>0. th \in [Actors -> Threads] /\ th[a] \in Threads BY DEF StoreInv, Shape, ThreadShape
<1>1. CASE BookStep(a)
  <2>1. Others(a) BY <1>1, BookThreads
  <2>2. CASE \E p \in Pages : LookupMiss(a, p) \/ LookupCorrupt(a, p)
    BY <1>0, <2>1, <2>2 DEF LookupMiss, LookupCorrupt, Enter, At, Using, Threads
  <2>3. CASE DropPage(a) \/ DropManifest(a)
    BY <1>0, <2>1, <2>3 DEF DropPage, DropManifest, Goto, At, Using, Threads
  <2>4. CASE DropRow(a)
    <3>1. CASE th[a].back = "resolve" BY <1>0, <2>1, <2>4, <3>1 DEF DropRow, At, Using, Threads
    <3>2. CASE th[a].back # "resolve" BY <1>0, <2>1, <2>4, <3>2 DEF DropRow, At, Using, Threads
    <3> QED BY <3>1, <3>2
  <2>5. CASE Resolve(a) \/ ResolveFails(a)
    BY <1>0, <2>1, <2>5 DEF Resolve, ResolveFails, Goto, At, Using, Threads, Idle
  <2>6. CASE Reserve(a)
    <3>1. CASE My(a) \in reserved BY <1>0, <2>1, <2>6, <3>1 DEF Reserve, Goto, At, Using, Threads
    <3>2. CASE My(a) \notin reserved BY <1>0, <2>1, <2>6, <3>2 DEF Reserve, At, Using, Threads
    <3> QED BY <3>1, <3>2
  <2>7. CASE FitRoom(a)
    <3>1. CASE th[a].back = "reserve" BY <1>0, <2>1, <2>7, <3>1 DEF FitRoom, At, Using, Threads
    <3>2. CASE th[a].back # "reserve" BY <1>0, <2>1, <2>7, <3>2 DEF FitRoom, At, Using, Threads
    <3> QED BY <3>1, <3>2
  <2>8. CASE FitEvict(a) BY <1>0, <2>1, <2>8 DEF FitEvict, At, Using, Threads
  <2>9. CASE FitFails(a)
    <3>1. CASE th[a].back = "reserve" BY <1>0, <2>1, <2>9, <3>1 DEF FitFails, At, Using, Threads, Idle
    <3>2. CASE th[a].back # "reserve" BY <1>0, <2>1, <2>9, <3>2 DEF FitFails, At, Using, Threads
    <3> QED BY <3>1, <3>2
  <2>10. CASE CancelReservation(a) \/ CancelFetch(a) \/ FetchFailed(a)
    BY <1>0, <2>1, <2>10 DEF CancelReservation, CancelFetch, FetchFailed, At, Using, Threads, Idle
  <2>11. CASE StartCommit(a) BY <1>0, <2>1, <2>11 DEF StartCommit, At, Using, Threads
  <2>12. CASE Assemble(a)
    <3>1. CASE \A s \in Slices : Complete(My(a), s)
      BY <1>0, <2>1, <2>12, <3>1 DEF Assemble, Goto, At, Using, Threads
    <3>2. CASE ~ \A s \in Slices : Complete(My(a), s)
      BY <1>0, <2>1, <2>12, <3>2 DEF Assemble, Goto, At, Using, Threads
    <3> QED BY <3>1, <3>2
  <2>13. CASE WriteManifest(a) BY <1>0, <2>1, <2>13 DEF WriteManifest, Goto, At, Using, Threads
  <2> QED
    BY <1>1, <2>2, <2>3, <2>4, <2>5, <2>6, <2>7, <2>8, <2>9, <2>10, <2>11, <2>12, <2>13 DEF BookStep
<1>2. CASE PrepareRead(a) BY <1>2, PrepareReadFacts DEF PrepareRead, At, Using
<1>3. CASE PrepareSlice(a)
  <2>1. Others(a) /\ th'[a].pc = "inspect" BY <1>3, PrepareSliceFacts
  <2> QED BY <1>3, <2>1 DEF PrepareSlice, At, Using
<1>4. CASE PrepareWrite(a)
  <2>1. Others(a) BY <1>4, PrepareWriteFacts
  <2>2. CASE My(a) \in pdir BY <1>0, <1>4, <2>1, <2>2 DEF PrepareWrite, At, Using, Threads
  <2>3. CASE My(a) \notin pdir BY <1>0, <1>4, <2>1, <2>3 DEF PrepareWrite, At, Using, Threads
  <2> QED BY <2>2, <2>3
<1>5. ASSUME NEW s \in Slices,
             \/ FetchStat(a, s) \/ FetchOpen(a, s) \/ FetchBlock(a, s)
             \/ FetchDone(a, s) \/ FetchRecord(a, s)
      PROVE  Others(a) /\ ~Using(a) /\ ~Using(a)'
  <2>1. th' = th /\ State(a, s) # "off"
    BY <1>5 DEF FetchStat, FetchOpen, FetchBlock, FetchDone, FetchEnd, FetchAbort, FetchRecord
  <2> QED BY <2>1, WorkerPage DEF Others, At, Using
<1> QED BY <1>1, <1>2, <1>3, <1>4, <1>5, ActorKinds

\* Four steps write pages or manifests.
LEMMA PagesStay ==
  ASSUME NEW a \in Actors, ActorStep(a),
         ~DropPage(a), ~DropManifest(a), ~Assemble(a), ~WriteManifest(a)
  PROVE  page' = page /\ manifest' = manifest
<1>1. CASE BookStep(a)
  BY <1>1 DEF BookStep, LookupMiss, LookupCorrupt, LookupHit, Enter, DropRow, Resolve, ResolveFails,
         Reserve, FitRoom, FitEvict, FitFails, CancelReservation, CancelFetch, FetchFailed,
         StartCommit, IndexPage, Release, disk
<1>2. CASE PrepareRead(a) \/ PrepareSlice(a) \/ PrepareWrite(a) \/ CleanUp(a)
  BY <1>2 DEF PrepareRead, PrepareSlice, PrepareWrite, CleanUp, disk
<1>3. ASSUME NEW s \in Slices,
             \/ FetchStat(a, s) \/ FetchOpen(a, s) \/ FetchBlock(a, s)
             \/ FetchDone(a, s) \/ FetchRecord(a, s)
      PROVE  page' = page /\ manifest' = manifest
  BY <1>3 DEF FetchStat, FetchOpen, FetchBlock, FetchDone, FetchEnd, FetchAbort, FetchRecord, disk
<1> QED BY <1>1, <1>2, <1>3, ActorKinds

LEMMA UnleasedIsUnused ==
  ASSUME StoreInv, NEW p \in Pages, leases[p] = 0 PROVE \A a \in Actors : UseOf(a) # p
<1>1. Holders(p) = {} BY UnleasedIsUnheld DEF StoreInv
<1> QED BY <1>1, NoneIsFresh DEF Holders, UseOf, Using

LEMMA RightPageIsContent == RightPage \in Contents /\ RightPage # None
<1>1. RightSlice \in Seq(0..SliceLen) /\ Len(RightSlice) = SliceLen
  BY PageStoreAssumption DEF RightSlice
<1>2. RightSlice \in Blk BY <1>1, PageStoreAssumption DEF Blk
<1> QED BY <1>2, NoneIsFresh DEF RightPage, Contents

\* Each step of a thread is a step of the cache or none.
LEMMA ActorRefines ==
  ASSUME StoreInv, FilesExact, PagesExact, NEW a \in Actors, ActorStep(a)
  PROVE  Cache!CacheNext \/ UNCHANGED Cache!cacheVars
<1>0. /\ th \in [Actors -> Threads] /\ th[a] \in Threads
      /\ page \in [Pages -> Contents \union {None}] /\ manifest \in [Pages -> Contents \union {None}]
  BY DEF StoreInv, Shape, ThreadShape, DiskShape
<1>1. ASSUME NEW p \in Pages, LookupHit(a, p) PROVE Cache!CacheNext
  <2>1. page[p] # None /\ manifest[p] = page[p] /\ th[a].pc = "idle" /\ page' = page /\ manifest' = manifest
        /\ th' = [th EXCEPT ![a].pc = "held", ![a].page = p]
    BY <1>1 DEF LookupHit, Enter, Missing, Verified, At
  <2>2. p \in Avail BY <2>1 DEF PagesExact, Avail
  <2>3. UseOf(a) = None /\ UseOf(a)' = p /\ Others(a)
    BY <1>0, <2>1 DEF UseOf, Using, My, Threads, Others
  <2>4. Avail' = Avail BY <2>1 DEF Avail
  <2> QED BY <2>2, <2>3, <2>4, UsersStep, CacheSteps
<1>2. CASE IndexPage(a)
  <2>1. th[a].pc = "index" /\ page' = page /\ manifest' = manifest /\ th' = [th EXCEPT ![a].pc = "clean"]
    BY <1>2 DEF IndexPage, Goto, At
  <2>2. My(a) \in Pages BY <2>1, OwnPage DEF At
  <2>3. page[My(a)] # None /\ manifest[My(a)] = page[My(a)] BY <2>1 DEF StoreInv, HeldInv, HeldOK
  <2>4. My(a) \in Avail BY <2>2, <2>3 DEF PagesExact, Avail
  <2>5. UseOf(a) = None /\ UseOf(a)' = My(a) /\ Others(a)
    BY <1>0, <2>1 DEF UseOf, Using, My, Threads, Others
  <2>6. Avail' = Avail BY <2>1 DEF Avail
  <2> QED BY <2>2, <2>4, <2>5, <2>6, UsersStep, CacheSteps
<1>3. CASE Release(a)
  <2>1. page' = page /\ manifest' = manifest /\ th' = [th EXCEPT ![a] = Idle] BY <1>3 DEF Release, disk
  <2>2. UseOf(a)' = None /\ Others(a) BY <1>0, <2>1, IdleShape DEF UseOf, Using, Others
  <2>3. Avail' = Avail BY <2>1 DEF Avail
  <2> QED BY <2>2, <2>3, UsersStep, CacheSteps
<1>4. CASE CleanUp(a)
  <2>1. page' = page /\ manifest' = manifest /\ th' = [th EXCEPT ![a].pc = "held"] /\ th[a].pc = "clean"
    BY <1>4 DEF CleanUp, disk, Goto, At
  <2>2. UseOf(a)' = UseOf(a) /\ Others(a) BY <1>0, <2>1 DEF UseOf, Using, My, Threads, Others
  <2>3. Avail' = Avail BY <2>1 DEF Avail
  <2> QED BY <2>2, <2>3, UsersStep, CacheSteps
<1>5. CASE DropPage(a) \/ DropManifest(a)
  <2> DEFINE v == th[a].victim
  <2>1. th[a].pc \in Dropping BY <1>5 DEF DropPage, DropManifest, At, Dropping
  <2>2. v \in Pages /\ leases[v] = 0 BY <2>1 DEF StoreInv, VictimInv
  <2>3. \A b \in Actors : UseOf(b) # v BY <2>2, UnleasedIsUnused
  <2>4. \/ page' = [page EXCEPT ![v] = None] /\ manifest' = manifest
        \/ page' = page /\ manifest' = [manifest EXCEPT ![v] = None]
    BY <1>5 DEF DropPage, DropManifest
  <2>5. Avail' = Avail \ {v}
    <3>1. \A p \in Pages :
            page'[p] = RightPage /\ manifest'[p] = RightPage
              <=> (p # v /\ page[p] = RightPage /\ manifest[p] = RightPage)
      BY <1>0, <2>2, <2>4, RightPageIsContent
    <3> QED BY <3>1 DEF Avail
  <2>6. th[a].pc # "held" /\ th[a].pc # "clean" BY <2>1 DEF Dropping
  <2>7. Others(a) /\ UseOf(a)' = UseOf(a)
    BY <1>0, <1>5, <2>6 DEF DropPage, DropManifest, Goto, UseOf, Using, Threads, Others
  <2> HIDE DEF v
  <2> QED BY <2>2, <2>3, <2>5, <2>7, UsersStep, CacheSteps
<1>6. CASE Assemble(a)
  <2> DEFINE p == My(a)
  <2>1. /\ p \in Pages /\ Others(a) /\ manifest' = manifest
        /\ th'[a].pc \notin {"clean", "held"}
        /\ page' = page \/ page' = [page EXCEPT ![p] = RightPage]
    BY <1>6, AssembleIsRight
  <2>2. UseOf(a)' = UseOf(a) BY <1>6, <2>1 DEF Assemble, At, UseOf, Using
  <2>3. Avail' = Avail \/ Avail' = Avail \union {p}
    <3>1. CASE page' = page BY <2>1, <3>1 DEF Avail
    <3>2. CASE page' = [page EXCEPT ![p] = RightPage]
      <4>1. CASE manifest[p] = RightPage
        <5>1. \A q \in Pages :
                page'[q] = RightPage /\ manifest'[q] = RightPage
                  <=> (q = p \/ (page[q] = RightPage /\ manifest[q] = RightPage))
          BY <1>0, <2>1, <3>2, <4>1
        <5> QED BY <2>1, <5>1 DEF Avail
      <4>2. CASE manifest[p] # RightPage
        <5>1. \A q \in Pages :
                page'[q] = RightPage /\ manifest'[q] = RightPage
                  <=> (page[q] = RightPage /\ manifest[q] = RightPage)
          BY <1>0, <2>1, <3>2, <4>2
        <5> QED BY <5>1 DEF Avail
      <4> QED BY <4>1, <4>2
    <3> QED BY <2>1, <3>1, <3>2
  <2> HIDE DEF p
  <2> QED BY <2>1, <2>2, <2>3, UsersStep, CacheSteps
<1>7. CASE WriteManifest(a)
  <2> DEFINE p == My(a)
  <2>1. /\ p \in Pages /\ At(a, "manifest") /\ Others(a) /\ page' = page
        /\ th'[a].pc = "index" /\ manifest' = [manifest EXCEPT ![p] = page[p]]
    BY <1>7, WriteManifestFacts
  <2>2. page[p] = RightPage BY <2>1 DEF PagesExact
  <2>3. UseOf(a)' = UseOf(a) BY <2>1 DEF At, UseOf, Using
  <2>4. \A q \in Pages :
          page'[q] = RightPage /\ manifest'[q] = RightPage
            <=> (q = p \/ (page[q] = RightPage /\ manifest[q] = RightPage))
    BY <1>0, <2>1, <2>2
  <2> HIDE DEF p
  <2>5. Avail' = Avail \union {p} BY <2>1, <2>4 DEF Avail
  <2> QED BY <2>1, <2>3, <2>5, UsersStep, CacheSteps
<1>8. CASE /\ \A p \in Pages : ~LookupHit(a, p)
           /\ ~IndexPage(a) /\ ~Release(a) /\ ~CleanUp(a)
           /\ ~DropPage(a) /\ ~DropManifest(a) /\ ~Assemble(a) /\ ~WriteManifest(a)
  <2>1. Avail' = Avail BY <1>8, PagesStay DEF Avail
  <2>2. Others(a) /\ UseOf(a)' = UseOf(a) BY <1>8, UnusedSteps DEF UseOf
  <2> QED BY <2>1, <2>2, UsersStep, CacheSteps
<1> QED BY <1>1, <1>2, <1>3, <1>4, <1>5, <1>6, <1>7, <1>8

\* The store implements the cache: a page becomes available in one step and a
\* page in use never goes.
THEOREM StoreImplementsCache == ASSUME Shared = {}, ~HardCrash PROVE Spec => ImplementsPageCache
<1>1. Init => Cache!CacheInit
  <2> SUFFICES ASSUME Init PROVE Avail = {} /\ Users = [a \in Actors |-> None] BY CacheSteps
  <2>1. Avail = {} BY RightPageIsContent DEF Init, Avail
  <2>2. \A a \in Actors : UseOf(a) = None BY IdleShape DEF Init, UseOf, Using
  <2> QED BY <2>1, <2>2 DEF Users
<1>2. ASSUME StoreInv, FilesExact, PagesExact, [Next]_vars
      PROVE  Cache!CacheNext \/ UNCHANGED Cache!cacheVars
  <2>1. ASSUME NEW a \in Actors, ActorStep(a) PROVE Cache!CacheNext \/ UNCHANGED Cache!cacheVars
    BY <1>2, <2>1, ActorRefines
  <2>2. ASSUME NEW p \in Pages, Rot(p) PROVE Cache!CacheNext
    <3>1. page' = [page EXCEPT ![p] = Rotten] /\ manifest' = manifest /\ th' = th /\ leases[p] = 0
      BY <2>2 DEF Rot, Unleased
    <3>2. page \in [Pages -> Contents \union {None}] BY <1>2 DEF StoreInv, Shape, DiskShape
    <3>3. \A q \in Pages : page'[q] = RightPage <=> (q # p /\ page[q] = RightPage)
      BY <3>1, <3>2, RightIsNotRotten
    <3>4. Avail' = Avail \ {p} BY <3>1, <3>3 DEF Avail
    <3>5. Users' = Users BY <3>1 DEF Users, UseOf, Using, My
    <3>6. \A b \in Actors : UseOf(b) # p BY <1>2, <3>1, UnleasedIsUnused
    <3> QED BY <3>4, <3>5, <3>6, CacheSteps
  <2>3. CASE Crash
    <3>1. page' = page /\ manifest' = manifest /\ th' = [a \in Actors |-> Idle] BY <2>3 DEF Crash, disk
    <3>2. \A a \in Actors : UseOf(a)' = None BY <3>1, IdleShape DEF UseOf, Using
    <3>3. Avail' = Avail /\ Users' = [a \in Actors |-> None] BY <3>1, <3>2 DEF Avail, Users
    <3> QED BY <3>3, CacheSteps
  <2>4. CASE UNCHANGED vars
    <3>1. Avail' = Avail /\ Users' = Users BY <2>4 DEF vars, disk, Avail, Users, UseOf, Using, My
    <3> QED BY <3>1, CacheSteps
  <2> QED BY <1>2, <2>1, <2>2, <2>3, <2>4, Steps
<1>3. StoreInv /\ FilesExact /\ PagesExact /\ [Next]_vars => [Cache!CacheNext]_(Cache!cacheVars)
  BY <1>2
<1> QED BY <1>1, <1>3, ContentsAreRight, PTL DEF Spec, ImplementsPageCache, Cache!CacheSpec

-----------------------------------------------------------------------------
(* The budget.                                                             *)

\* The bytes of a set of pages.
Bytes(S) == Sum(Stride, S)

LEMMA BytesFacts ==
  ASSUME NEW S \in SUBSET Pages, IsFiniteSet(S), NEW p \in Pages
  PROVE  /\ Bytes(S) \in Nat /\ Stride[p] \in Nat
         /\ Bytes(S \ {p}) \in Nat /\ Bytes(S \ {p}) <= Bytes(S)
         /\ Bytes(S \union {p}) \in Nat
         /\ Bytes(S \union {p}) = Bytes(S \ {p}) + Stride[p]
<1>1. Stride \in [Pages -> Nat] BY PageStoreAssumption
<1> DEFINE T == S \ {p}
           V == S \union {p}
<1>2. T \in SUBSET S /\ T \in SUBSET Pages /\ IsFiniteSet(T) /\ p \notin T BY FS_Subset
<1>3. V \in SUBSET Pages /\ IsFiniteSet(V) BY FS_AddElement
<1>4. V = T \union {p} OBVIOUS
<1> HIDE DEF T, V
<1>5. Sum(Stride, T \union {p}) = Stride[p] + Sum(Stride, T) BY <1>1, <1>2, SumPutIn
<1>6. Sum(Stride, T) <= Sum(Stride, S) BY <1>1, <1>2, SumIsMonotone
<1>7. Sum(Stride, S) \in Nat /\ Sum(Stride, T) \in Nat /\ Sum(Stride, V) \in Nat
  BY <1>1, <1>2, <1>3, SumIsNat
<1>8. Stride[p] \in Nat BY <1>1
<1> QED BY <1>4, <1>5, <1>6, <1>7, <1>8 DEF Bytes, T, V

\* The budget and the room test in bytes of sets of pages.
LEMMA InBytes ==
  ASSUME StoreInv
  PROVE  /\ ToSet(index) \in SUBSET Pages /\ IsFiniteSet(ToSet(index))
         /\ reserved \in SUBSET Pages /\ IsFiniteSet(reserved) /\ MaxCache \in Nat
         /\ BudgetHonoured <=> (Bytes(ToSet(index)) + Bytes(reserved) <= MaxCache)
         /\ \A p \in Pages :
              Fits(p) <=> (Bytes(ToSet(index)) + Bytes(reserved \ {p}) + Stride[p] <= MaxCache)
<1>1. index \in Distinct(Pages) /\ reserved \in SUBSET Pages /\ IsFiniteSet(reserved)
  BY DEF StoreInv, Shape, DiskShape, MemoryShape
<1>2. ToSet(index) \in SUBSET Pages /\ IsFiniteSet(ToSet(index))
  BY <1>1, ElementsAreFinite DEF Distinct
<1> QED BY <1>1, <1>2, PageStoreAssumption
      DEF BudgetHonoured, Fits, Occupancy, ReservedElsewhere, Bytes, Sum

\* A step that touches no row, no reservation and no page of the cache, taken
\* outside the commit of a page.
LEMMA BudgetFrame ==
  ASSUME BudgetInv, NEW a \in Actors, Others(a), crashes' = crashes,
         index' = index, reserved' = reserved, page' = page, manifest' = manifest,
         th[a].pc \notin Committing,
         th'[a].pc \notin Committing \union {"dropManifest", "dropRow"}
  PROVE  BudgetInv'
<1>1. BudgetHonoured' /\ crashes' = 0 BY DEF BudgetInv, BudgetHonoured, Occupancy
<1>2. RowInv'
  <2>1. \A b \in Actors : th[b].pc \in {"manifest", "index"} => th'[b] = th[b] BY DEF Others, Committing
  <2> QED BY <2>1 DEF BudgetInv, RowInv, My
<1>3. GoneInv' BY DEF BudgetInv, GoneInv, Others
<1>4. RoomInv'
  <2>1. \A b \in Actors : th'[b].pc \in Committing => th'[b] = th[b] BY DEF Others
  <2> QED BY <2>1 DEF BudgetInv, RoomInv, Fits, Occupancy, ReservedElsewhere, My
<1> QED BY <1>1, <1>2, <1>3, <1>4 DEF BudgetInv

\* A step of the holder of the lock, or while nobody holds it: no other thread
\* commits or removes a page.
LEMMA BudgetLocked ==
  ASSUME StoreInv, BudgetInv, NEW a \in Actors, Others(a), crashes' = crashes,
         th[a].pc \in Locked \/ lock = None,
         BudgetHonoured',
         \A p \in Pages : page'[p] # None /\ manifest'[p] # None =>
           p \in ToSet(index') \/ (My(a)' = p /\ th'[a].pc \in {"manifest", "index"}),
         th'[a].pc \in {"dropManifest", "dropRow"} => page'[th'[a].victim] = None,
         th'[a].pc \in Committing => Fits(My(a))'
  PROVE  BudgetInv'
<1>1. \A b \in Actors \ {a} : th'[b] = th[b] /\ th[b].pc \notin Locked BY LockIsExclusive DEF Others
<1>2. \A b \in Actors \ {a} : th'[b].pc \notin Committing /\ th'[b].pc \notin {"dropManifest", "dropRow"}
  BY <1>1 DEF Locked, Dropping, Committing
<1>3. RowInv' BY DEF RowInv
<1>4. GoneInv' BY <1>2 DEF GoneInv
<1>5. RoomInv'
  <2> SUFFICES ASSUME NEW b \in Actors, th'[b].pc \in Committing PROVE Fits(My(b))' BY DEF RoomInv
  <2>1. b = a BY <1>2
  <2> QED BY <2>1
<1> QED BY <1>3, <1>4, <1>5 DEF BudgetInv

\* Seen from there, a published page has its row or is the one being committed.
LEMMA RowsLocked ==
  ASSUME StoreInv, BudgetInv, NEW a \in Actors, th[a].pc \in Locked \/ lock = None,
         NEW p \in Pages, page[p] # None, manifest[p] # None
  PROVE  p \in ToSet(index) \/ (My(a) = p /\ th[a].pc \in {"manifest", "index"})
<1>1. \A b \in Actors \ {a} : th[b].pc \notin {"manifest", "index"} BY LockIsExclusive DEF Locked, Dropping
<1> QED BY <1>1 DEF BudgetInv, RowInv

\* Fewer rows or reservations keep the budget.
LEMMA FewerBytes ==
  ASSUME StoreInv, StoreInv', BudgetHonoured, NEW p \in Pages,
         ToSet(index') \in {ToSet(index), ToSet(index) \ {p}},
         reserved' \in {reserved, reserved \ {p}}
  PROVE  BudgetHonoured'
<1> DEFINE I == ToSet(index)
           R == reserved
           J == ToSet(index)'
           Q == reserved'
<1>1. /\ I \in SUBSET Pages /\ IsFiniteSet(I) /\ R \in SUBSET Pages /\ IsFiniteSet(R)
      /\ MaxCache \in Nat /\ Bytes(I) + Bytes(R) <= MaxCache
  BY InBytes
<1>2. Bytes(I) \in Nat /\ Bytes(I \ {p}) \in Nat /\ Bytes(I \ {p}) <= Bytes(I)
  BY <1>1, BytesFacts
<1>3. Bytes(R) \in Nat /\ Bytes(R \ {p}) \in Nat /\ Bytes(R \ {p}) <= Bytes(R)
  BY <1>1, BytesFacts
<1>4. J \in {I, I \ {p}} /\ Q \in {R, R \ {p}} OBVIOUS
<1>5. BudgetHonoured' <=> (Bytes(J) + Bytes(Q) <= MaxCache)
  BY DEF BudgetHonoured, Occupancy, Bytes, Sum
<1> HIDE DEF I, R, J, Q
<1>6. Bytes(J) \in Nat /\ Bytes(J) <= Bytes(I) /\ Bytes(Q) \in Nat /\ Bytes(Q) <= Bytes(R)
  BY <1>2, <1>3, <1>4
<1> QED BY <1>1, <1>2, <1>3, <1>5, <1>6

\* The steps that leave rows, reservations and pages as they are.
LEMMA BudgetQuiet ==
  ASSUME StoreInv, BudgetInv, NEW a \in Actors,
         \/ \E p \in Pages : LookupCorrupt(a, p)
         \/ Resolve(a) \/ ResolveFails(a) \/ Reserve(a) \/ FitEvict(a) \/ FitFails(a)
         \/ CancelFetch(a) \/ FetchFailed(a) \/ StartCommit(a) \/ Release(a)
         \/ PrepareRead(a) \/ PrepareSlice(a) \/ PrepareWrite(a) \/ CleanUp(a)
         \/ \E s \in Slices :
              \/ FetchStat(a, s) \/ FetchOpen(a, s) \/ FetchBlock(a, s)
              \/ FetchDone(a, s) \/ FetchRecord(a, s)
  PROVE  BudgetInv'
<1>0. th \in [Actors -> Threads] /\ th[a] \in Threads BY DEF StoreInv, Shape, ThreadShape
<1> DEFINE Still == /\ crashes' = crashes /\ index' = index /\ reserved' = reserved
                    /\ page' = page /\ manifest' = manifest
           Apart == /\ Others(a) /\ th[a].pc \notin Committing
                    /\ th'[a].pc \notin Committing \union {"dropManifest", "dropRow"}
<1>f. ASSUME Still, Apart PROVE BudgetInv' BY <1>f, BudgetFrame
<1>1. ASSUME NEW p \in Pages, LookupCorrupt(a, p) PROVE BudgetInv'
  <2>1. /\ Still /\ th[a].pc = "idle"
        /\ th' = [th EXCEPT ![a].pc = "dropPage", ![a].page = p, ![a].back = "resolve", ![a].victim = p]
    BY <1>1 DEF LookupCorrupt, Enter, At
  <2>2. th'[a].pc = "dropPage" /\ Others(a) BY <1>0, <2>1 DEF Threads, Others
  <2> QED BY <1>f, <2>1, <2>2 DEF Committing
<1>2. CASE Resolve(a) \/ ResolveFails(a) \/ StartCommit(a) \/ Release(a)
  <2>1. Still BY <1>2 DEF Resolve, ResolveFails, StartCommit, Release, disk, memory, bounds
  <2>2. Apart
    BY <1>0, <1>2 DEF Resolve, ResolveFails, StartCommit, Release, Goto, At, Committing, Threads, Others, Idle
  <2> QED BY <1>f, <2>1, <2>2
<1>3. CASE Reserve(a)
  <2>1. Still BY <1>3 DEF Reserve, disk, bounds
  <2>2. CASE My(a) \in reserved
    <3>1. Apart BY <1>0, <1>3, <2>2 DEF Reserve, Goto, At, Committing, Threads, Others
    <3> QED BY <1>f, <2>1, <3>1
  <2>3. CASE My(a) \notin reserved
    <3>1. Apart BY <1>0, <1>3, <2>3 DEF Reserve, At, Committing, Threads, Others
    <3> QED BY <1>f, <2>1, <3>1
  <2> QED BY <2>2, <2>3
<1>4. CASE FitEvict(a)
  <2>1. Still /\ Apart
    BY <1>0, <1>4 DEF FitEvict, disk, memory, bounds, At, Committing, Threads, Others
  <2> QED BY <1>f, <2>1
<1>5. CASE FitFails(a)
  <2>1. Still BY <1>5 DEF FitFails, disk, bounds
  <2>2. CASE th[a].back = "reserve"
    <3>1. Apart BY <1>0, <1>5, <2>2 DEF FitFails, At, Committing, Threads, Others, Idle
    <3> QED BY <1>f, <2>1, <3>1
  <2>3. CASE th[a].back # "reserve"
    <3>1. Apart BY <1>0, <1>5, <2>3 DEF FitFails, At, Committing, Threads, Others
    <3> QED BY <1>f, <2>1, <3>1
  <2> QED BY <2>2, <2>3
<1>6. CASE CancelFetch(a) \/ FetchFailed(a)
  <2>1. Still BY <1>6 DEF CancelFetch, FetchFailed, disk, memory, bounds
  <2>2. Apart BY <1>0, <1>6 DEF CancelFetch, FetchFailed, At, Committing, Threads, Others
  <2> QED BY <1>f, <2>1, <2>2
<1>7. CASE PrepareRead(a)
  <2>1. Still /\ At(a, "prepare") BY <1>7 DEF PrepareRead, disk, memory, bounds
  <2>2. Apart BY <1>7, <2>1, PrepareReadFacts DEF At, Committing
  <2> QED BY <1>f, <2>1, <2>2
<1>8. CASE PrepareSlice(a)
  <2>1. Still /\ At(a, "inspect") BY <1>8 DEF PrepareSlice, disk, memory, bounds
  <2>2. Others(a) /\ th'[a].pc = "inspect" BY <1>8, PrepareSliceFacts
  <2>3. Apart BY <2>1, <2>2 DEF At, Committing
  <2> QED BY <1>f, <2>1, <2>3
<1>9. CASE PrepareWrite(a)
  <2>1. Still BY <1>9 DEF PrepareWrite, disk, memory, bounds
  <2>2. CASE My(a) \in pdir
    <3>1. Apart BY <1>0, <1>9, <2>2 DEF PrepareWrite, At, Committing, Threads, Others
    <3> QED BY <1>f, <2>1, <3>1
  <2>3. CASE My(a) \notin pdir
    <3>1. Apart BY <1>0, <1>9, <2>3 DEF PrepareWrite, At, Committing, Threads, Others
    <3> QED BY <1>f, <2>1, <3>1
  <2> QED BY <2>2, <2>3
<1>10. CASE CleanUp(a)
  <2>1. Still BY <1>10 DEF CleanUp, disk, bounds
  <2>2. Apart BY <1>10, CleanUpFacts DEF At, Committing
  <2> QED BY <1>f, <2>1, <2>2
<1>11. ASSUME NEW s \in Slices,
              \/ FetchStat(a, s) \/ FetchOpen(a, s) \/ FetchBlock(a, s)
              \/ FetchDone(a, s) \/ FetchRecord(a, s)
       PROVE  BudgetInv'
  <2>1. Still /\ th' = th /\ State(a, s) # "off"
    BY <1>11
       DEF FetchStat, FetchOpen, FetchBlock, FetchDone, FetchEnd, FetchAbort, FetchRecord, disk, memory, bounds
  <2>2. At(a, "fetch") BY <2>1, WorkerPage
  <2>3. Apart BY <2>1, <2>2 DEF At, Committing, Others
  <2> QED BY <1>f, <2>1, <2>3
<1> QED BY <1>1, <1>2, <1>3, <1>4, <1>5, <1>6, <1>7, <1>8, <1>9, <1>10, <1>11

\* A lookup that finds nothing deletes a row, one that hits has its row.
LEMMA BudgetLookup ==
  ASSUME StoreInv, StoreInv', BudgetInv, NEW a \in Actors, NEW p \in Pages,
         LookupMiss(a, p) \/ LookupHit(a, p)
  PROVE  BudgetInv'
<1>0. /\ th \in [Actors -> Threads] /\ th[a] \in Threads /\ index \in Distinct(Pages)
      /\ BudgetHonoured
  BY DEF StoreInv, Shape, ThreadShape, DiskShape, BudgetInv
<1>1. /\ th[a].pc = "idle" /\ lock = None /\ page' = page /\ manifest' = manifest
      /\ reserved' = reserved /\ crashes' = crashes
  BY DEF LookupMiss, LookupHit, Enter, At
<1>2. \A q \in Pages : page[q] # None /\ manifest[q] # None => q \in ToSet(index)
  BY <1>1, RowsLocked
<1>3. CASE LookupMiss(a, p)
  <2>1. index' = Without(p) /\ Missing(p) /\ th' = [th EXCEPT ![a].pc = "resolve", ![a].page = p]
    BY <1>3 DEF LookupMiss
  <2>2. ToSet(index') = ToSet(index) \ {p} BY <1>0, <2>1, RowFacts
  <2>3. BudgetHonoured' BY <1>0, <1>1, <2>2, FewerBytes
  <2>4. th'[a].pc = "resolve" /\ Others(a) BY <1>0, <2>1 DEF Threads, Others
  <2>5. \A q \in Pages : page'[q] # None /\ manifest'[q] # None => q \in ToSet(index')
    BY <1>1, <1>2, <2>1, <2>2 DEF Missing
  <2> QED BY <1>1, <2>3, <2>4, <2>5, BudgetLocked DEF Committing
<1>4. CASE LookupHit(a, p)
  <2>1. index' = Touched(p) /\ ~Missing(p) /\ th' = [th EXCEPT ![a].pc = "held", ![a].page = p]
    BY <1>4 DEF LookupHit
  <2>2. p \in ToSet(index) BY <1>2, <2>1 DEF Missing
  <2>3. ToSet(index') = ToSet(index)
    <3>1. ToSet(Touched(p)) = ToSet(index) \union {p} BY <1>0, RowFacts
    <3> QED BY <2>1, <2>2, <3>1
  <2>4. BudgetHonoured' BY <1>0, <1>1, <2>3, FewerBytes
  <2>5. th'[a].pc = "held" /\ Others(a) BY <1>0, <2>1 DEF Threads, Others
  <2>6. \A q \in Pages : page'[q] # None /\ manifest'[q] # None => q \in ToSet(index')
    BY <1>1, <1>2, <2>3
  <2> QED BY <1>1, <2>4, <2>5, <2>6, BudgetLocked DEF Committing
<1> QED BY <1>3, <1>4

\* The removal of a page: its row goes when the page file is gone.
LEMMA BudgetDrop ==
  ASSUME StoreInv, StoreInv', BudgetInv, NEW a \in Actors,
         DropPage(a) \/ DropManifest(a) \/ DropRow(a)
  PROVE  BudgetInv'
<1> DEFINE v == th[a].victim
<1>0. /\ th \in [Actors -> Threads] /\ th[a] \in Threads /\ index \in Distinct(Pages)
      /\ page \in [Pages -> Contents \union {None}] /\ manifest \in [Pages -> Contents \union {None}]
      /\ BudgetHonoured
  BY DEF StoreInv, Shape, ThreadShape, DiskShape, BudgetInv
<1>1. th[a].pc \in Dropping BY DEF DropPage, DropManifest, DropRow, At, Dropping
<1>2. th[a].pc \in Locked /\ th[a].pc \notin {"manifest", "index"} /\ v \in Pages
  BY <1>1 DEF Locked, Dropping, StoreInv, VictimInv
<1>3. \A q \in Pages : page[q] # None /\ manifest[q] # None => q \in ToSet(index)
  BY <1>2, RowsLocked
<1>4. CASE DropPage(a)
  <2>1. /\ page' = [page EXCEPT ![v] = None] /\ manifest' = manifest /\ index' = index
        /\ reserved' = reserved /\ crashes' = crashes /\ th' = [th EXCEPT ![a].pc = "dropManifest"]
    BY <1>4 DEF DropPage, Goto, memory, bounds
  <2>2. th'[a].pc = "dropManifest" /\ th'[a].victim = v /\ Others(a) BY <1>0, <2>1 DEF Threads, Others
  <2>3. page'[v] = None BY <1>0, <1>2, <2>1
  <2>4. \A q \in Pages : page'[q] # None /\ manifest'[q] # None => q \in ToSet(index')
    BY <1>0, <1>3, <2>1
  <2>5. BudgetHonoured' BY <1>0, <2>1 DEF BudgetHonoured, Occupancy
  <2> QED BY <1>2, <2>1, <2>2, <2>3, <2>4, <2>5, BudgetLocked DEF Committing
<1>5. CASE DropManifest(a)
  <2>1. /\ page' = page /\ manifest' = [manifest EXCEPT ![v] = None] /\ index' = index
        /\ reserved' = reserved /\ crashes' = crashes /\ th' = [th EXCEPT ![a].pc = "dropRow"]
    BY <1>5 DEF DropManifest, Goto, memory, bounds
  <2>2. th'[a].pc = "dropRow" /\ th'[a].victim = v /\ Others(a) BY <1>0, <2>1 DEF Threads, Others
  <2>3. page'[v] = None BY <1>5, <2>1 DEF DropManifest, At, BudgetInv, GoneInv
  <2>4. \A q \in Pages : page'[q] # None /\ manifest'[q] # None => q \in ToSet(index')
    BY <1>0, <1>3, <2>1
  <2>5. BudgetHonoured' BY <1>0, <2>1 DEF BudgetHonoured, Occupancy
  <2> QED BY <1>2, <2>1, <2>2, <2>3, <2>4, <2>5, BudgetLocked DEF Committing
<1>6. CASE DropRow(a)
  <2>1. /\ page' = page /\ manifest' = manifest /\ index' = Without(v)
        /\ reserved' = reserved /\ crashes' = crashes
    BY <1>6 DEF DropRow, bounds
  <2>2. page[v] = None BY <1>6 DEF DropRow, At, BudgetInv, GoneInv
  <2>3. ToSet(index') = ToSet(index) \ {v} BY <1>0, <1>2, <2>1, RowFacts
  <2>4. BudgetHonoured' BY <1>0, <1>2, <2>1, <2>3, FewerBytes
  <2>5. \A q \in Pages : page'[q] # None /\ manifest'[q] # None => q \in ToSet(index')
    BY <1>3, <2>1, <2>2, <2>3
  <2>6. th'[a].pc \in {"resolve", "fit"} /\ Others(a)
    <3>1. CASE th[a].back = "resolve" BY <1>0, <1>6, <3>1 DEF DropRow, Threads, Others
    <3>2. CASE th[a].back # "resolve" BY <1>0, <1>6, <3>2 DEF DropRow, Threads, Others
    <3> QED BY <3>1, <3>2
  <2> QED BY <1>2, <2>1, <2>4, <2>5, <2>6, BudgetLocked DEF Committing
<1> QED BY <1>4, <1>5, <1>6

\* Room is reserved, or confirmed for the commit, only where there is room.
LEMMA BudgetRoom ==
  ASSUME StoreInv, StoreInv', BudgetInv, NEW a \in Actors, FitRoom(a) \/ CancelReservation(a)
  PROVE  BudgetInv'
<1> DEFINE p == My(a)
<1>0. /\ th \in [Actors -> Threads] /\ th[a] \in Threads /\ BudgetHonoured
  BY DEF StoreInv, Shape, ThreadShape, BudgetInv
<1>1. /\ page' = page /\ manifest' = manifest /\ index' = index /\ crashes' = crashes
      /\ th[a].pc \in {"fit", "cancel"} /\ (th[a].pc \in Locked \/ lock = None)
  BY DEF FitRoom, CancelReservation, disk, bounds, At, Locked
<1>2. p \in Pages BY <1>1, OwnPage DEF At
<1>3. \A q \in Pages : page[q] # None /\ manifest[q] # None => q \in ToSet(index)
  BY <1>1, RowsLocked
<1>4. CASE CancelReservation(a)
  <2>1. reserved' = reserved \ {p} /\ th' = [th EXCEPT ![a] = Idle] BY <1>4 DEF CancelReservation
  <2>2. BudgetHonoured' BY <1>0, <1>1, <1>2, <2>1, FewerBytes
  <2>3. th'[a].pc = "idle" /\ Others(a) BY <1>0, <2>1, IdleShape DEF Others
  <2> QED BY <1>1, <1>3, <2>2, <2>3, BudgetLocked DEF Committing
<1>5. CASE FitRoom(a) /\ th[a].back = "reserve"
  <2>1. /\ Fits(p) /\ reserved' = reserved \union {p}
        /\ th' = [th EXCEPT ![a].pc = "prepare", ![a].back = None]
    BY <1>5 DEF FitRoom
  <2>2. th'[a].pc = "prepare" /\ Others(a) BY <1>0, <2>1 DEF Threads, Others
  <2>3. BudgetHonoured'
    <3> DEFINE I == ToSet(index)
               R == reserved
    <3>1. /\ I \in SUBSET Pages /\ IsFiniteSet(I) /\ R \in SUBSET Pages /\ IsFiniteSet(R)
          /\ MaxCache \in Nat /\ Bytes(I) + Bytes(R \ {p}) + Stride[p] <= MaxCache
      BY <1>2, <2>1, InBytes
    <3>2. Bytes(R \ {p}) \in Nat /\ Stride[p] \in Nat /\ Bytes(R \union {p}) = Bytes(R \ {p}) + Stride[p]
      BY <1>2, <3>1, BytesFacts
    <3>3. Bytes(I) \in Nat BY <1>2, <3>1, BytesFacts
    <3>4. BudgetHonoured' <=> (Bytes(I) + Bytes(R \union {p}) <= MaxCache)
      BY <1>1, <2>1 DEF BudgetHonoured, Occupancy, Bytes, Sum
    <3> HIDE DEF I, R, p
    <3> QED BY <3>1, <3>2, <3>3, <3>4
  <2> QED BY <1>1, <1>3, <2>2, <2>3, BudgetLocked DEF Committing
<1>6. CASE FitRoom(a) /\ th[a].back # "reserve"
  <2>1. /\ Fits(p) /\ reserved' = reserved
        /\ th' = [th EXCEPT ![a].pc = "assemble", ![a].back = None]
    BY <1>6 DEF FitRoom
  <2>2. th'[a].pc = "assemble" /\ My(a)' = p /\ Others(a) BY <1>0, <2>1 DEF Threads, Others, My
  <2>3. BudgetHonoured' BY <1>0, <1>1, <2>1 DEF BudgetHonoured, Occupancy
  <2>4. Fits(My(a))' BY <1>1, <2>1, <2>2 DEF Fits, Occupancy, ReservedElsewhere
  <2> QED BY <1>1, <1>3, <2>2, <2>3, <2>4, BudgetLocked DEF Committing
<1> QED BY <1>4, <1>5, <1>6

\* The commit takes the room it made.
LEMMA BudgetCommit ==
  ASSUME StoreInv, StoreInv', BudgetInv, NEW a \in Actors,
         Assemble(a) \/ WriteManifest(a) \/ IndexPage(a)
  PROVE  BudgetInv'
<1> DEFINE p == My(a)
<1>0. /\ th \in [Actors -> Threads] /\ th[a] \in Threads /\ BudgetHonoured /\ index \in Distinct(Pages)
      /\ page \in [Pages -> Contents \union {None}] /\ manifest \in [Pages -> Contents \union {None}]
  BY DEF StoreInv, Shape, ThreadShape, DiskShape, BudgetInv
<1>1. th[a].pc \in Committing /\ th[a].pc \in Locked /\ th[a].pc # "idle"
  BY DEF Assemble, WriteManifest, IndexPage, At, Locked, Committing
<1>2. p \in Pages /\ Fits(p) BY <1>1, OwnPage DEF At, BudgetInv, RoomInv
<1>3. \A q \in Pages : page[q] # None /\ manifest[q] # None =>
        q \in ToSet(index) \/ (q = p /\ th[a].pc \in {"manifest", "index"})
  BY <1>1, RowsLocked
<1>4. CASE Assemble(a)
  <2>1. /\ manifest' = manifest /\ index' = index /\ reserved' = reserved /\ crashes' = crashes
        /\ th[a].pc = "assemble"
    BY <1>4 DEF Assemble, bounds, At
  <2>2. BudgetHonoured' BY <1>0, <2>1 DEF BudgetHonoured, Occupancy
  <2>3. CASE \A s \in Slices : Complete(p, s)
    <3>1. page' = [page EXCEPT ![p] = [s \in Slices |-> Data(p, s)]] /\ th' = [th EXCEPT ![a].pc = "manifest"]
      BY <1>4, <2>3 DEF Assemble, Goto
    <3>2. th'[a].pc = "manifest" /\ My(a)' = p /\ Others(a) BY <1>0, <3>1 DEF Threads, Others, My
    <3>3. \A q \in Pages : page'[q] # None /\ manifest'[q] # None => q \in ToSet(index') \/ q = p
      BY <1>0, <1>3, <2>1, <3>1
    <3>4. Fits(My(a))' BY <1>2, <2>1, <3>2 DEF Fits, Occupancy, ReservedElsewhere
    <3> QED BY <1>1, <2>1, <2>2, <3>2, <3>3, <3>4, BudgetLocked
  <2>4. CASE ~ \A s \in Slices : Complete(p, s)
    <3>1. page' = page /\ th' = [th EXCEPT ![a].pc = "cancel"] BY <1>4, <2>4 DEF Assemble, Goto
    <3>2. th'[a].pc = "cancel" /\ Others(a) BY <1>0, <3>1 DEF Threads, Others
    <3> QED BY <1>1, <1>3, <2>1, <2>2, <3>1, <3>2, BudgetLocked DEF Committing
  <2> QED BY <2>3, <2>4
<1>5. CASE WriteManifest(a)
  <2>1. /\ index' = index /\ reserved' = reserved /\ crashes' = crashes
    BY <1>5 DEF WriteManifest, memory, bounds
  <2>2. /\ Others(a) /\ My(a)' = p /\ page' = page /\ th'[a].pc = "index"
        /\ manifest' = [manifest EXCEPT ![p] = page[p]]
    BY <1>5, WriteManifestFacts
  <2>3. \A q \in Pages : page'[q] # None /\ manifest'[q] # None => q \in ToSet(index') \/ q = p
    BY <1>0, <1>3, <2>1, <2>2
  <2>4. Fits(My(a))' BY <1>2, <2>1, <2>2 DEF Fits, Occupancy, ReservedElsewhere
  <2>5. BudgetHonoured' BY <1>0, <2>1 DEF BudgetHonoured, Occupancy
  <2> QED BY <1>1, <2>1, <2>2, <2>3, <2>4, <2>5, BudgetLocked
<1>6. CASE IndexPage(a)
  <2>1. /\ index' = Touched(p) /\ reserved' = reserved \ {p} /\ crashes' = crashes
        /\ page' = page /\ manifest' = manifest /\ th' = [th EXCEPT ![a].pc = "clean"]
    BY <1>6 DEF IndexPage, Goto, bounds
  <2>2. ToSet(index') = ToSet(index) \union {p} BY <1>0, <1>2, <2>1, RowFacts
  <2>3. th'[a].pc = "clean" /\ Others(a) BY <1>0, <2>1 DEF Threads, Others
  <2>4. BudgetHonoured'
    <3> DEFINE I == ToSet(index)
               R == reserved
    <3>1. /\ I \in SUBSET Pages /\ IsFiniteSet(I) /\ R \in SUBSET Pages /\ IsFiniteSet(R)
          /\ MaxCache \in Nat /\ Bytes(I) + Bytes(R \ {p}) + Stride[p] <= MaxCache
      BY <1>2, InBytes
    <3>2. /\ Bytes(I) \in Nat /\ Bytes(I \ {p}) \in Nat /\ Bytes(I \ {p}) <= Bytes(I)
          /\ Stride[p] \in Nat /\ Bytes(I \union {p}) = Bytes(I \ {p}) + Stride[p]
      BY <1>2, <3>1, BytesFacts
    <3>3. Bytes(R \ {p}) \in Nat BY <1>2, <3>1, BytesFacts
    <3>4. BudgetHonoured' <=> (Bytes(I \union {p}) + Bytes(R \ {p}) <= MaxCache)
      BY <2>1, <2>2 DEF BudgetHonoured, Occupancy, Bytes, Sum
    <3> HIDE DEF I, R, p
    <3> QED BY <3>1, <3>2, <3>3, <3>4
  <2>5. \A q \in Pages : page'[q] # None /\ manifest'[q] # None => q \in ToSet(index')
    BY <1>3, <2>1, <2>2
  <2> QED BY <1>1, <2>1, <2>3, <2>4, <2>5, BudgetLocked DEF Committing
<1> QED BY <1>4, <1>5, <1>6

LEMMA BudgetRot == ASSUME StoreInv, BudgetInv, NEW p \in Pages, Rot(p) PROVE BudgetInv'
<1>0. page \in [Pages -> Contents \union {None}] BY DEF StoreInv, Shape, DiskShape
<1>1. /\ page[p] # None /\ page' = [page EXCEPT ![p] = Rotten] /\ manifest' = manifest /\ index' = index
      /\ th' = th /\ reserved' = reserved /\ lock = None /\ crashes' = crashes
  BY DEF Rot, memory
<1>2. \A a \in Actors : th[a].pc \notin {"dropManifest", "dropRow"}
  BY <1>1, NoneIsFresh DEF StoreInv, LockInv, Locked, Dropping
<1>3. BudgetHonoured' BY <1>1 DEF BudgetInv, BudgetHonoured, Occupancy
<1>4. \A q \in Pages : page'[q] # None => page[q] # None BY <1>0, <1>1
<1>5. RowInv' BY <1>1, <1>4 DEF BudgetInv, RowInv, My
<1>6. GoneInv' BY <1>1, <1>2 DEF GoneInv
<1>7. RoomInv' BY <1>1 DEF BudgetInv, RoomInv, Fits, Occupancy, ReservedElsewhere, My
<1> QED BY <1>1, <1>3, <1>5, <1>6, <1>7 DEF BudgetInv

LEMMA BudgetInit == ASSUME Init PROVE BudgetInv
<1>1. index = <<>> /\ reserved = {} /\ crashes = 0 /\ \A a \in Actors : th[a].pc = "idle"
  BY IdleShape DEF Init
<1>2. ToSet(index) = {} BY <1>1 DEF ToSet
<1>3. Sum(Stride, {}) = 0 BY SumRow, FS_EmptySet
<1>4. BudgetHonoured
  <2>1. Occupancy = 0 /\ SumFunctionOnSet(Stride, reserved) = 0 BY <1>1, <1>2, <1>3 DEF Occupancy, Sum
  <2> QED BY <2>1, PageStoreAssumption DEF BudgetHonoured
<1>5. RowInv BY DEF Init, RowInv
<1> QED BY <1>1, <1>4, <1>5 DEF BudgetInv, GoneInv, RoomInv, Committing

LEMMA BudgetStep ==
  ASSUME StoreInv, StoreInv', BudgetInv, MaxCrashes = 0, [Next]_vars PROVE BudgetInv'
<1>1. ASSUME NEW a \in Actors, ActorStep(a) PROVE BudgetInv'
  BY <1>1, ActorKinds, BudgetQuiet, BudgetLookup, BudgetDrop, BudgetRoom, BudgetCommit DEF BookStep
<1>2. ASSUME NEW p \in Pages, Rot(p) PROVE BudgetInv' BY <1>2, BudgetRot
<1>3. ~Crash BY DEF Crash, BudgetInv
<1>4. CASE UNCHANGED vars
  BY <1>4 DEF vars, disk, memory, bounds, BudgetInv, BudgetHonoured, Occupancy, RowInv, GoneInv, RoomInv,
          Fits, ReservedElsewhere, My
<1> QED BY <1>1, <1>2, <1>3, <1>4, Steps

\* Without a crash, pages and promised room fit the budget together, and the
\* books are in order.
THEOREM BooksAreInOrder ==
  ASSUME Shared = {}, MaxCrashes = 0
  PROVE  Spec => []BudgetHonoured /\ []Accounting
<1>1. StoreInv /\ StoreInv' /\ BudgetInv /\ [Next]_vars => BudgetInv' BY BudgetStep
<1>2. BudgetInv => BudgetHonoured BY DEF BudgetInv
<1>3. TypeOK /\ DownloadHoldsReservation /\ BudgetHonoured => Accounting BY DEF Accounting
<1> QED BY <1>1, <1>2, <1>3, BudgetInit, StoreIsSound, TypesAndReservations, PTL DEF Spec
=============================================================================
