------------------------ MODULE ExpertRuntimeProofs ------------------------
(***************************************************************************)
(* Proofs about ExpertRuntime: used by one thread, the segmented LRU cache *)
(* keeps to its slots, holds every expert once, never raises, and keeps    *)
(* the experts hit last and those a session pins, for every capacity, any  *)
(* set of experts and any sequence of calls; raced on by a pool of any     *)
(* size, it exceeds its slots by a bounded number for each task the pool   *)
(* has taken.                                                              *)
(***************************************************************************)
EXTENDS ExpertRuntime, DataTheorems

-----------------------------------------------------------------------------
(* Ordered dicts: sequences without repetition.                            *)

Dict == Distinct(Keys)

LEMMA EmptyDict == <<>> \in Dict /\ ToSet(<<>>) = {} /\ Len(<<>>) = 0
BY DEF Dict, Distinct, IsInjective, ToSet

LEMMA DictLen ==
  ASSUME NEW d \in Dict
  PROVE  d \in Seq(Keys) /\ Len(d) \in Nat /\ DOMAIN d = 1..Len(d)
BY DEF Dict, Distinct

LEMMA ProtectedSlots == ProtectedCapacity \in Nat
BY ExpertRuntimeAssumption DEF ProtectedCapacity

\* A key appended to a dict that lacks it.
LEMMA AppendedKey ==
  ASSUME NEW d \in Dict, NEW k \in Keys, ~Has(d, k)
  PROVE  /\ Append(d, k) \in Dict
         /\ ToSet(Append(d, k)) = ToSet(d) \union {k}
         /\ Len(Append(d, k)) = Len(d) + 1
BY AppendFacts DEF Dict, Has

LEMMA InsertFacts ==
  ASSUME NEW d \in Dict, NEW k \in Keys
  PROVE  /\ Insert(d, k) \in Dict
         /\ ToSet(Insert(d, k)) = ToSet(d) \union {k}
         /\ Len(Insert(d, k)) = IF Has(d, k) THEN Len(d) ELSE Len(d) + 1
BY AppendedKey DEF Insert, Has

\* What is left when one position is taken out.
LEMMA TakenOut ==
  ASSUME NEW d \in Seq(Keys), NEW n \in 1..Len(d)
  PROVE  /\ RemoveAt(d, n) \in Seq(Keys) /\ Len(RemoveAt(d, n)) = Len(d) - 1
         /\ \A i \in 1..(Len(d) - 1) : RemoveAt(d, n)[i] = IF i < n THEN d[i] ELSE d[i + 1]
<1> DEFINE e == RemoveAt(d, n)
           p == SubSeq(d, 1, n - 1)
           q == SubSeq(d, n + 1, Len(d))
<1>1. p \in Seq(Keys) /\ Len(p) = n - 1 /\ \A i \in 1..(n - 1) : p[i] = d[i]
  OBVIOUS
<1>2. /\ q \in Seq(Keys) /\ Len(q) = Len(d) - n
      /\ \A i \in 1..(Len(d) - n) : q[i] = d[n + i]
  OBVIOUS
<1>3. e = p \o q BY DEF RemoveAt
<1> HIDE DEF p, q, e
<1>n. n \in 1..Len(d) /\ Len(d) \in Nat OBVIOUS
<1>4. e \in Seq(Keys) /\ Len(e) = Len(d) - 1
  <2>1. p \o q \in Seq(Keys) BY <1>1, <1>2, ConcatProperties
  <2>2. Len(p \o q) = Len(p) + Len(q) BY <1>1, <1>2, ConcatProperties
  <2>3. Len(e) = (n - 1) + (Len(d) - n) BY <2>2, <1>1, <1>2, <1>3
  <2> QED BY <2>1, <2>3, <1>3, <1>n
<1>5. ASSUME NEW i \in 1..(Len(d) - 1)
      PROVE  e[i] = IF i < n THEN d[i] ELSE d[i + 1]
  <2>1. e[i] = IF i <= Len(p) THEN p[i] ELSE q[i - Len(p)] BY <1>1, <1>2, <1>3
  <2> QED BY <2>1, <1>1, <1>2
<1> QED BY <1>4, <1>5 DEF e

\* One position taken out of a dict.
LEMMA RemovedKey ==
  ASSUME NEW d \in Dict, NEW n \in DOMAIN d
  PROVE  /\ RemoveAt(d, n) \in Dict
         /\ ToSet(RemoveAt(d, n)) = ToSet(d) \ {d[n]}
         /\ Len(RemoveAt(d, n)) = Len(d) - 1
BY RemoveAtFacts DEF Dict

LEMMA WithoutFacts ==
  ASSUME NEW d \in Dict, NEW k \in Keys, Has(d, k)
  PROVE  /\ Without(d, k) \in Dict
         /\ ToSet(Without(d, k)) = ToSet(d) \ {k}
         /\ Len(Without(d, k)) = Len(d) - 1
<1>1. \E i \in DOMAIN d : d[i] = k BY DEF Has, ToSet
<1> DEFINE n == CHOOSE i \in DOMAIN d : d[i] = k
<1>2. n \in DOMAIN d /\ d[n] = k BY <1>1
<1> HIDE DEF n
<1>3. /\ RemoveAt(d, n) \in Dict
      /\ ToSet(RemoveAt(d, n)) = ToSet(d) \ {k}
      /\ Len(RemoveAt(d, n)) = Len(d) - 1
  BY <1>2, RemovedKey
<1> QED BY <1>3 DEF Without, n

LEMMA MoveToEndFacts ==
  ASSUME NEW d \in Dict, NEW k \in Keys, Has(d, k)
  PROVE  /\ MoveToEnd(d, k) \in Dict
         /\ ToSet(MoveToEnd(d, k)) = ToSet(d)
         /\ Len(MoveToEnd(d, k)) = Len(d)
<1> DEFINE w == Without(d, k)
<1>1. w \in Dict /\ ToSet(w) = ToSet(d) \ {k} /\ Len(w) = Len(d) - 1 BY WithoutFacts
<1> HIDE DEF w
<1>2. ~Has(w, k) BY <1>1 DEF Has
<1>3. /\ Append(w, k) \in Dict /\ ToSet(Append(w, k)) = ToSet(w) \union {k}
      /\ Len(Append(w, k)) = Len(w) + 1
  BY <1>1, <1>2, AppendedKey
<1>4. k \in ToSet(d) /\ Len(d) \in Nat BY DEF Has, Dict, Distinct
<1> QED BY <1>1, <1>3, <1>4 DEF MoveToEnd, w

\* popitem(last=False) of a dict that is not empty.
LEMMA EvictedKey ==
  ASSUME NEW d \in Dict, d # <<>>
  PROVE  /\ Tail(d) \in Dict /\ Head(d) \in Keys /\ Head(d) \in ToSet(d)
         /\ ToSet(Tail(d)) = ToSet(d) \ {Head(d)}
         /\ Len(Tail(d)) = Len(d) - 1
<1> d \in Seq(Keys) /\ DOMAIN d = 1..Len(d) /\ Len(d) \in Nat \ {0} BY DEF Dict, Distinct
<1>1. 1 \in DOMAIN d /\ Head(d) = d[1] OBVIOUS
<1>2. Tail(d) = RemoveAt(d, 1)
  <2>1. SubSeq(d, 1, 0) = <<>> OBVIOUS
  <2>2. Tail(d) = SubSeq(d, 2, Len(d)) OBVIOUS
  <2>3. <<>> \o SubSeq(d, 2, Len(d)) = SubSeq(d, 2, Len(d)) OBVIOUS
  <2> QED BY <2>1, <2>2, <2>3 DEF RemoveAt
<1>3. Head(d) \in ToSet(d) /\ Head(d) \in Keys BY <1>1 DEF ToSet
<1> QED BY <1>1, <1>2, <1>3, RemovedKey

-----------------------------------------------------------------------------
(***************************************************************************)
(* The inductive invariant for a cache only Main uses.  ResidencyBounded   *)
(* is not inductive: between the removal of a key and its insertion in the *)
(* other partition one slot must be known to be free, and the key must be  *)
(* known to be in neither.                                                 *)
(***************************************************************************)

Callers == {"fetch", "pinVram", "pinRam"}
Outside == {"idle", "issue", "await", "pinVram", "pinRam"}
ThreadType ==
  [pc : PCs, key : Keys \union {Main}, caller : Callers \union {"none", "issue", "await", "task"},
   nested : BOOLEAN, demoted : Keys \union {Main}, task : Nat, seen : Nat]

Types ==
  /\ probationary \in Dict /\ protected \in Dict
  /\ th \in [Threads -> ThreadType]
  /\ agenda \in [order : Seq(Keys), next : Nat \ {0}, last : Nat]
  /\ agenda.last <= Len(agenda.order)
  /\ session \in [token : Nat, freq : [Keys -> Nat], pinned : SUBSET Keys, frozen : BOOLEAN]
  /\ pending \in [Keys -> Nat] /\ tasks \in Seq([key : Keys, st : {"queued", "running", "done", "failed"}])

InCold == Has(probationary, Key(Main))
InWarm == Has(protected, Key(Main))
PC(S) == th[Main].pc \in S

\* Where the key in hand is, at each step of get and put.
KeyPlace ==
  /\ ~PC(Outside) => Key(Main) \in Keys /\ th[Main].caller \in Callers
  /\ PC({"pop"}) => InCold
  /\ PC({"refresh", "readWarm", "store", "storeWarm"}) => InWarm
  /\ PC({"lookCold", "putCold"}) => ~InWarm
  /\ ~PC({"storeCold"})
  /\ PC({"issue"}) => Key(Main) \in Keys
  /\ PC({"room", "demote", "demoted", "promote", "full", "evict", "insert"}) => ~InCold /\ ~InWarm
  /\ PC({"get"}) /\ th[Main].nested => InCold \/ InWarm
  /\ PC({"lookCold"}) /\ th[Main].nested => InCold
  /\ PC({"pinRam"}) => ~th[Main].nested /\ th[Main].caller \in Callers
  /\ PC({"demoted"}) => /\ th[Main].demoted \in Keys /\ th[Main].demoted # Key(Main)
                        /\ ~Has(probationary, th[Main].demoted)
                        /\ ~Has(protected, th[Main].demoted)

\* Which partition has a slot to spare.
Room ==
  /\ PC({"room", "demote", "demoted", "insert"}) => Len(probationary) < ProbationaryCapacity
  /\ PC({"demoted", "promote"}) => Len(protected) < ProtectedCapacity

SlotsInv == Types /\ KeyPlace /\ Room /\ ResidencyBounded /\ OnePartition

LEMMA SlotsInvInit == Init => SlotsInv
<1> SUFFICES ASSUME Init PROVE SlotsInv OBVIOUS
<1> USE ExpertRuntimeAssumption DEF Init, Rest, NoAgenda, FreshSession
<1>1. th[Main] = Rest BY DEF Threads
<1>2. Types BY EmptyDict DEF Types, ThreadType, PCs
<1>3. KeyPlace /\ Room BY <1>1 DEF KeyPlace, Room, PC, Outside
<1>4. ResidencyBounded /\ OnePartition
  BY EmptyDict DEF ResidencyBounded, OnePartition, ProtectedCapacity
<1> QED BY <1>2, <1>3, <1>4 DEF SlotsInv

\* An exception leaves the cache as it is and Main outside of it.
LEMMA RaiseFacts ==
  ASSUME Types, KeyPlace, ~PC(Outside), Raise(Main)
  PROVE  /\ th' \in [Threads -> ThreadType] /\ tasks' = tasks
         /\ agenda' \in [order : Seq(Keys), next : Nat \ {0}, last : Nat]
         /\ agenda'.last <= Len(agenda'.order)
         /\ th[Main].pc' \in {"idle", "pinVram", "pinRam"} /\ ~th[Main].nested'
         /\ th[Main].pc' = "pinRam" => th[Main].caller' \in Callers
<1> USE DEF Types, ThreadType, Rest, PCs, Outside, Callers, Threads
<1>1. th[Main].caller \in Callers BY DEF KeyPlace
<1>2. Main \in Threads /\ Rest \in ThreadType OBVIOUS
<1>3. CASE th[Main].caller = "fetch"
  <2>1. th' = [th EXCEPT ![Main] = Rest] /\ tasks' = tasks /\ agenda' = agenda
    BY <1>3 DEF Raise
  <2>2. th' \in [Threads -> ThreadType] /\ th'[Main] = Rest BY <1>2, <2>1
  <2> QED BY <2>1, <2>2
<1>4. CASE th[Main].caller # "fetch"
  <2> DEFINE r == [Rest EXCEPT !.pc = th[Main].caller, !.caller = th[Main].caller]
  <2>1. agenda' = [agenda EXCEPT !.next = @ + 1] /\ tasks' = tasks /\ th' = [th EXCEPT ![Main] = r]
    BY <1>4 DEF Raise
  <2>2. /\ r \in ThreadType /\ r.pc \in {"idle", "pinVram", "pinRam"}
        /\ ~r.nested /\ r.caller \in Callers
    BY <1>1, <1>4
  <2> HIDE DEF r
  <2>3. th' \in [Threads -> ThreadType] /\ th'[Main] = r BY <1>2, <2>1, <2>2
  <2>4. /\ agenda' \in [order : Seq(Keys), next : Nat \ {0}, last : Nat]
        /\ agenda'.last <= Len(agenda'.order)
    <3>1. agenda.next + 1 \in Nat \ {0} OBVIOUS
    <3>2. agenda' = [order |-> agenda.order, next |-> agenda.next + 1, last |-> agenda.last]
      BY <2>1
    <3> QED BY <3>1, <3>2
  <2> QED BY <2>1, <2>2, <2>3, <2>4
<1> QED BY <1>3, <1>4

LEMMA SlotsInvRaise ==
  ASSUME SlotsInv, ~PC(Outside), Raise(Main),
         UNCHANGED <<probationary, protected, session, pending>>
  PROVE  SlotsInv'
<1>1. Types' BY RaiseFacts DEF SlotsInv, Types
<1>2. KeyPlace' /\ Room' BY RaiseFacts, <1>1 DEF SlotsInv, KeyPlace, Room, PC, Outside
<1> QED BY <1>1, <1>2 DEF SlotsInv, ResidencyBounded, OnePartition

\* get returns to put, to the session adapter or to fetch_expert.
LEMMA AfterGetFacts ==
  ASSUME Types, KeyPlace, ~PC(Outside), NEW found \in BOOLEAN, AfterGet(Main, found)
  PROVE  /\ th' \in [Threads -> ThreadType] /\ tasks' = tasks
         /\ agenda' \in [order : Seq(Keys), next : Nat \ {0}, last : Nat]
         /\ agenda'.last <= Len(agenda'.order)
         /\ th'[Main] = [th[Main] EXCEPT !.pc = th'[Main].pc]
         /\ th[Main].nested => th'[Main].pc = "store"
         /\ ~th[Main].nested => th'[Main].pc \in {"pinRam", "promoted", "read"}
<1> USE DEF Types, Threads
<1> DEFINE p == th'[Main].pc
<1>1. Main \in Threads /\ th[Main] \in ThreadType OBVIOUS
<1>2. /\ p \in {"store", "pinRam", "promoted", "read"}
      /\ th' = [th EXCEPT ![Main].pc = p]
      /\ th[Main].nested => p = "store"
      /\ ~th[Main].nested => p \in {"pinRam", "promoted", "read"}
      /\ tasks' = tasks
      /\ agenda' = agenda \/ agenda' = [agenda EXCEPT !.next = @ + 1]
  BY <1>1 DEF AfterGet, Goto, NoRaise, ThreadType
<1> HIDE DEF p
<1>3. th' \in [Threads -> ThreadType] /\ th'[Main] = [th[Main] EXCEPT !.pc = p]
  BY <1>1, <1>2 DEF ThreadType, PCs
<1>4. /\ agenda' \in [order : Seq(Keys), next : Nat \ {0}, last : Nat]
      /\ agenda'.last <= Len(agenda'.order)
  <2>1. agenda.next + 1 \in Nat \ {0} OBVIOUS
  <2>2. CASE agenda' = agenda BY <2>2
  <2>3. CASE agenda' = [agenda EXCEPT !.next = @ + 1]
    <3>1. agenda' = [order |-> agenda.order, next |-> agenda.next + 1, last |-> agenda.last]
      BY <2>3
    <3> QED BY <3>1, <2>1
  <2> QED BY <1>2, <2>2, <2>3
<1> QED BY <1>2, <1>3, <1>4 DEF p

\* A step that only moves Main's pc, inside the cache operation.
LEMMA SlotsInvGoto ==
  ASSUME SlotsInv, NEW p \in PCs, Goto(Main, p),
         UNCHANGED <<probationary, protected, session, agenda, pending, tasks>>,
         KeyPlace', Room'
  PROVE  SlotsInv'
<1>1. th' \in [Threads -> ThreadType]
  <2>1. Main \in Threads /\ th[Main] \in ThreadType BY DEF SlotsInv, Types, Threads
  <2>2. [th[Main] EXCEPT !.pc = p] \in ThreadType BY <2>1 DEF ThreadType
  <2> QED BY <2>1, <2>2 DEF SlotsInv, Types, Goto
<1>2. Types' BY <1>1 DEF SlotsInv, Types
<1> QED BY <1>2 DEF SlotsInv, ResidencyBounded, OnePartition

LEMMA SlotsInvGet ==
  ASSUME SlotsInv, Get(Main)
  PROVE  SlotsInv'
<1> USE ExpertRuntimeAssumption
    DEF At, Key, Goto, PC, InCold, InWarm, cache, gpu, pins, pool
<1> DEFINE k == th[Main].key
           m == th[Main]
<1>0. /\ Main \in Threads /\ th \in [Threads -> ThreadType] /\ m \in ThreadType
      /\ probationary \in Dict /\ protected \in Dict
      /\ Types /\ KeyPlace /\ Room /\ ResidencyBounded /\ OnePartition
  BY DEF SlotsInv, Types, Threads
<1>1. CASE LookProtected(Main)
  <2>1. PICK p \in {"refresh", "lookCold"} : Goto(Main, p) /\ (p = "refresh" <=> Has(protected, k))
    BY <1>1 DEF LookProtected
  <2>2. KeyPlace' /\ Room'
    BY <1>0, <1>1, <2>1 DEF LookProtected, KeyPlace, Room, Outside, ThreadType
  <2> QED BY <2>1, <2>2, <1>1, SlotsInvGoto DEF LookProtected, PCs
<1>2. CASE Refresh(Main)
  <2>1. k \in Keys /\ Has(protected, k) BY <1>0, <1>2 DEF Refresh, KeyPlace, Outside
  <2>2. /\ protected' = MoveToEnd(protected, k) /\ th' = [th EXCEPT ![Main].pc = "readWarm"]
        /\ probationary' = probationary /\ UNCHANGED <<session, pending, tasks, agenda>>
    BY <2>1, <1>2 DEF Refresh, NoRaise
  <2>3. /\ protected' \in Dict /\ ToSet(protected') = ToSet(protected)
        /\ Len(protected') = Len(protected)
    BY <2>1, <2>2, <1>0, MoveToEndFacts
  <2>4. th' \in [Threads -> ThreadType] BY <1>0, <2>2 DEF ThreadType, PCs
  <2>5. Types' BY <2>2, <2>3, <2>4, <1>0 DEF Types
  <2>6. KeyPlace' /\ Room'
    BY <1>0, <1>2, <2>1, <2>2, <2>3 DEF Refresh, KeyPlace, Room, Outside, Has, ThreadType
  <2> QED BY <2>2, <2>3, <2>5, <2>6, <1>0 DEF ResidencyBounded, OnePartition, SlotsInv
<1>3. CASE ReadWarm(Main)
  <2>1. k \in Keys /\ Has(protected, k) /\ ~PC(Outside) BY <1>0, <1>3 DEF ReadWarm, KeyPlace, Outside
  <2>2. AfterGet(Main, TRUE) /\ UNCHANGED <<probationary, protected, session, pending>>
    BY <2>1, <1>3 DEF ReadWarm
  <2>3. Types' BY <2>1, <2>2, <1>0, AfterGetFacts DEF Types
  <2>4. KeyPlace' /\ Room'
    BY <1>0, <2>1, <2>2, AfterGetFacts DEF KeyPlace, Room, Outside, ThreadType
  <2> QED BY <2>2, <2>3, <2>4, <1>0 DEF ResidencyBounded, OnePartition, SlotsInv
<1>4. CASE LookProbationary(Main)
  <2>1. k \in Keys /\ ~Has(protected, k) /\ ~PC(Outside)
    BY <1>0, <1>4 DEF LookProbationary, KeyPlace, Outside
  <2>2. UNCHANGED <<probationary, protected, session, pending>> BY <1>4 DEF LookProbationary
  <2>3. CASE Has(probationary, k)
    <3>1. th' = [th EXCEPT ![Main].pc = "pop"] /\ UNCHANGED <<tasks, agenda>>
      BY <2>3, <1>4 DEF LookProbationary, NoRaise
    <3>2. th' \in [Threads -> ThreadType] BY <1>0, <3>1 DEF ThreadType, PCs
    <3>3. Types' BY <2>2, <3>1, <3>2, <1>0 DEF Types
    <3>4. KeyPlace' /\ Room'
      BY <1>0, <2>1, <2>2, <2>3, <3>1 DEF KeyPlace, Room, Outside, ThreadType
    <3> QED BY <2>2, <3>3, <3>4, <1>0 DEF ResidencyBounded, OnePartition, SlotsInv
  <2>4. CASE ~Has(probationary, k)
    <3>1. AfterGet(Main, FALSE) /\ ~m.nested
      BY <2>4, <1>0, <1>4 DEF LookProbationary, KeyPlace
    <3>2. Types' BY <2>1, <2>2, <3>1, <1>0, AfterGetFacts DEF Types
    <3>3. KeyPlace' /\ Room'
      BY <1>0, <2>1, <2>2, <3>1, AfterGetFacts DEF KeyPlace, Room, Outside, ThreadType
    <3> QED BY <2>2, <3>2, <3>3, <1>0 DEF ResidencyBounded, OnePartition, SlotsInv
  <2> QED BY <2>3, <2>4
<1>5. CASE PopHit(Main)
  <2>1. k \in Keys /\ Has(probationary, k) BY <1>0, <1>5 DEF PopHit, KeyPlace, Outside
  <2>2. /\ probationary' = Without(probationary, k) /\ th' = [th EXCEPT ![Main].pc = "room"]
        /\ protected' = protected /\ UNCHANGED <<session, pending, tasks, agenda>>
    BY <2>1, <1>5 DEF PopHit, NoRaise
  <2>3. /\ probationary' \in Dict /\ ToSet(probationary') = ToSet(probationary) \ {k}
        /\ Len(probationary') = Len(probationary) - 1
    BY <2>1, <2>2, <1>0, WithoutFacts
  <2>4. th' \in [Threads -> ThreadType] BY <1>0, <2>2 DEF ThreadType, PCs
  <2>5. Types' BY <2>2, <2>3, <2>4, <1>0 DEF Types
  <2>6. Len(probationary) \in Nat /\ ~Has(protected, k)
    BY <1>0, <2>1 DEF Dict, Distinct, OnePartition, Has
  <2>7. KeyPlace' BY <1>0, <1>5, <2>1, <2>2, <2>3, <2>6 DEF PopHit, KeyPlace, Outside, Has, ThreadType
  <2>8. Room' BY <1>0, <2>2, <2>3, <2>6 DEF Room, ResidencyBounded, ThreadType
  <2>9. ResidencyBounded' /\ OnePartition'
    BY <1>0, <2>2, <2>3, <2>6 DEF ResidencyBounded, OnePartition
  <2> QED BY <2>5, <2>7, <2>8, <2>9 DEF SlotsInv
<1>6. CASE CheckRoom(Main)
  <2>1. PICK p \in {"demote", "promote"} :
          Goto(Main, p) /\ (p = "promote" => Len(protected) < ProtectedCapacity)
    <3>1. Len(protected) \in Nat /\ ProtectedCapacity \in Nat
      BY <1>0 DEF Dict, Distinct, ProtectedCapacity
    <3>2. CASE Len(protected) >= ProtectedCapacity BY <3>2, <1>6 DEF CheckRoom
    <3>3. CASE ~(Len(protected) >= ProtectedCapacity)
      <4>1. Goto(Main, "promote") BY <3>3, <1>6 DEF CheckRoom
      <4>2. Len(protected) < ProtectedCapacity BY <3>1, <3>3
      <4> QED BY <4>1, <4>2
    <3> QED BY <3>2, <3>3
  <2>2. KeyPlace' /\ Room' BY <1>0, <1>6, <2>1 DEF CheckRoom, KeyPlace, Room, Outside, ThreadType
  <2> QED BY <2>1, <2>2, <1>6, SlotsInvGoto DEF CheckRoom, PCs
<1>7. CASE Demote(Main)
  <2>1. k \in Keys /\ ~PC(Outside) /\ ~InCold /\ ~InWarm BY <1>0, <1>7 DEF Demote, KeyPlace, Outside
  <2>2. CASE protected = <<>>
    BY <2>1, <2>2, <1>7, SlotsInvRaise DEF Demote
  <2>3. CASE protected # <<>>
    <3> DEFINE h == Head(protected)
    <3>1. /\ protected' = Tail(protected) /\ probationary' = probationary
          /\ th' = [th EXCEPT ![Main].pc = "demoted", ![Main].demoted = h]
          /\ UNCHANGED <<session, pending, tasks, agenda>>
      BY <2>3, <1>7 DEF Demote, NoRaise
    <3>2. /\ protected' \in Dict /\ h \in Keys /\ h \in ToSet(protected)
          /\ ToSet(protected') = ToSet(protected) \ {h}
          /\ Len(protected') = Len(protected) - 1
      BY <2>3, <3>1, <1>0, EvictedKey
    <3> HIDE DEF h
    <3>3. th' \in [Threads -> ThreadType] BY <1>0, <3>1, <3>2 DEF ThreadType, PCs
    <3>4. Types' BY <3>1, <3>2, <3>3, <1>0 DEF Types
    <3>5. Len(protected) \in Nat /\ h \notin ToSet(probationary) /\ h # k
      BY <1>0, <2>1, <3>2 DEF Dict, Distinct, OnePartition, Has
    <3>6. th'[Main] = [m EXCEPT !.pc = "demoted", !.demoted = h] BY <1>0, <3>1
    <3>7. KeyPlace' BY <1>0, <2>1, <3>1, <3>2, <3>5, <3>6 DEF KeyPlace, Outside, Has, ThreadType
    <3>a. /\ Len(probationary) < ProbationaryCapacity /\ Len(protected) <= ProtectedCapacity
          /\ ProtectedCapacity \in Nat
      BY <1>0, <1>7 DEF Demote, Room, ResidencyBounded, ProtectedCapacity
    <3>b. Len(protected') < ProtectedCapacity BY <3>a, <3>2, <3>5
    <3>8. Room' /\ ResidencyBounded'
      <4>1. Room' BY <3>a, <3>b, <3>1 DEF Room
      <4>2. ProtectedCapacity' = ProtectedCapacity BY DEF ProtectedCapacity
      <4>3. ResidencyBounded' BY <1>0, <3>a, <3>b, <3>1, <3>2, <3>5, <4>2 DEF ResidencyBounded
      <4> QED BY <4>1, <4>3
    <3>9. OnePartition' BY <1>0, <3>1, <3>2 DEF OnePartition
    <3> QED BY <3>4, <3>7, <3>8, <3>9 DEF SlotsInv
  <2> QED BY <2>2, <2>3
<1>8. CASE PutDemoted(Main)
  <2> DEFINE h == m.demoted
  <2>1. /\ k \in Keys /\ ~InCold /\ ~InWarm /\ h \in Keys /\ h # k
        /\ ~Has(probationary, h) /\ ~Has(protected, h)
        /\ Len(probationary) < ProbationaryCapacity /\ Len(protected) < ProtectedCapacity
    BY <1>0, <1>8 DEF PutDemoted, KeyPlace, Room, Outside
  <2>2. /\ probationary' = Insert(probationary, h) /\ protected' = protected
        /\ th' = [th EXCEPT ![Main].pc = "promote", ![Main].demoted = Main]
        /\ UNCHANGED <<session, pending, tasks, agenda>>
    BY <1>8 DEF PutDemoted, pins
  <2> HIDE DEF h
  <2>3. /\ probationary' \in Dict /\ ToSet(probationary') = ToSet(probationary) \union {h}
        /\ Len(probationary') = Len(probationary) + 1
    BY <2>1, <2>2, <1>0, InsertFacts
  <2>4. th' \in [Threads -> ThreadType] BY <1>0, <2>2 DEF ThreadType, PCs
  <2>5. Types' BY <2>2, <2>3, <2>4, <1>0 DEF Types
  <2>6. Len(probationary) \in Nat BY <1>0 DEF Dict, Distinct
  <2>7. th'[Main] = [m EXCEPT !.pc = "promote", !.demoted = Main] BY <1>0, <2>2
  <2>8. KeyPlace' BY <1>0, <1>8, <2>1, <2>2, <2>3, <2>7 DEF PutDemoted, KeyPlace, Outside, Has, ThreadType
  <2>9. Room' /\ ResidencyBounded' /\ OnePartition'
    BY <1>0, <2>1, <2>2, <2>3, <2>6, <2>7
    DEF Room, ResidencyBounded, OnePartition, Has, ThreadType
  <2> QED BY <2>5, <2>8, <2>9 DEF SlotsInv
<1>9. CASE PromoteHit(Main)
  <2>1. /\ k \in Keys /\ ~InCold /\ ~InWarm /\ ~PC(Outside)
        /\ Len(protected) < ProtectedCapacity
    BY <1>0, <1>9 DEF PromoteHit, KeyPlace, Room, Outside
  <2>2. /\ protected' = Insert(protected, k) /\ probationary' = probationary
        /\ AfterGet(Main, TRUE) /\ UNCHANGED <<session, pending>>
    BY <1>9 DEF PromoteHit
  <2>3. /\ protected' \in Dict /\ ToSet(protected') = ToSet(protected) \union {k}
        /\ Len(protected') = Len(protected) + 1
    BY <2>1, <2>2, <1>0, InsertFacts
  <2>4. Types' BY <2>1, <2>2, <2>3, <1>0, AfterGetFacts DEF Types
  <2>5. Len(protected) \in Nat BY <1>0 DEF Dict, Distinct
  <2>a. /\ th'[Main].key = k /\ th'[Main].nested = m.nested /\ th'[Main].caller = m.caller
        /\ m.nested => th'[Main].pc = "store"
        /\ ~m.nested => th'[Main].pc \in {"pinRam", "promoted", "read"}
        /\ m.nested \in BOOLEAN /\ m.caller \in Callers /\ k \in ToSet(protected')
    BY <1>0, <2>1, <2>2, <2>3, AfterGetFacts DEF KeyPlace, ThreadType
  <2>6. KeyPlace' /\ Room' BY <2>1, <2>a DEF KeyPlace, Room, Outside, Has
  <2>7. ResidencyBounded' /\ OnePartition'
    BY <1>0, <2>1, <2>2, <2>3, <2>5 DEF ResidencyBounded, OnePartition, Has, ProtectedCapacity
  <2> QED BY <2>4, <2>6, <2>7 DEF SlotsInv
<1> QED
  BY <1>1, <1>2, <1>3, <1>4, <1>5, <1>6, <1>7, <1>8, <1>9 DEF Get

\* put has returned to Main.
LEMMA ReturnFacts ==
  ASSUME Types, Return(Main)
  PROVE  /\ th' \in [Threads -> ThreadType] /\ tasks' = tasks
         /\ th'[Main] = [th[Main] EXCEPT !.pc = "promoted", !.nested = FALSE, !.seen = 0]
<1>1. Main \in Threads /\ th[Main] \in ThreadType /\ th \in [Threads -> ThreadType]
  BY DEF Types, Threads
<1>2. /\ th' = [th EXCEPT ![Main].pc = "promoted", ![Main].nested = FALSE, ![Main].seen = 0]
      /\ tasks' = tasks
  BY DEF Return
<1> QED BY <1>1, <1>2 DEF ThreadType, PCs

\* Where a call has returned from, nothing more is asked of its key.
LEMMA ReturnPlaces ==
  ASSUME Types, KeyPlace, ~PC(Outside), Return(Main)
  PROVE  KeyPlace' /\ Room'
<1>1. th[Main] \in ThreadType BY DEF Types, Threads
<1>2. /\ th'[Main].pc = "promoted" /\ th'[Main].key = th[Main].key
      /\ th'[Main].caller = th[Main].caller
  BY <1>1, ReturnFacts DEF ThreadType
<1>3. Key(Main) \in Keys /\ th[Main].caller \in Callers BY DEF KeyPlace
<1>4. Key(Main)' \in Keys /\ th'[Main].caller \in Callers BY <1>2, <1>3 DEF Key
<1>5. KeyPlace' BY <1>2, <1>4 DEF KeyPlace, PC
<1>6. Room' BY <1>2 DEF Room, PC
<1> QED BY <1>5, <1>6

LEMMA SlotsInvPut ==
  ASSUME SlotsInv, Put(Main)
  PROVE  SlotsInv'
<1> USE ExpertRuntimeAssumption
    DEF At, Key, Goto, PC, InCold, InWarm, cache, gpu, pins, pool
<1> DEFINE k == th[Main].key
           m == th[Main]
<1>0. /\ Main \in Threads /\ th \in [Threads -> ThreadType] /\ m \in ThreadType
      /\ probationary \in Dict /\ protected \in Dict
      /\ Len(probationary) \in Nat /\ Len(protected) \in Nat
      /\ Types /\ KeyPlace /\ Room /\ ResidencyBounded /\ OnePartition
  BY DEF SlotsInv, Types, Threads, Dict, Distinct
<1>1. CASE LookForWarm(Main) \/ LookForCold(Main)
  <2>1. /\ k \in Keys /\ m.caller \in Callers
        /\ UNCHANGED <<probationary, protected, session, agenda, pending, tasks>>
    BY <1>0, <1>1 DEF LookForWarm, LookForCold, KeyPlace, Outside
  <2>2. CASE InWarm \/ (InCold /\ m.pc = "putCold")
    <3>1. th' = [th EXCEPT ![Main].pc = "get", ![Main].nested = TRUE]
      <4>1. CASE LookForWarm(Main)
        <5>1. Has(protected, k) = TRUE BY <4>1, <2>2, <1>0 DEF Has, LookForWarm, LookForCold
        <5> QED BY <4>1, <5>1 DEF LookForWarm
      <4>2. CASE LookForCold(Main)
        <5>1. ~InWarm BY <4>2, <1>0 DEF LookForCold, KeyPlace
        <5>2. Has(probationary, k) = TRUE BY <5>1, <2>2 DEF Has
        <5> QED BY <4>2, <5>2 DEF LookForCold
      <4> QED BY <1>1, <4>1, <4>2
    <3>2. th' \in [Threads -> ThreadType] BY <1>0, <3>1 DEF ThreadType, PCs
    <3>3. th'[Main] = [m EXCEPT !.pc = "get", !.nested = TRUE] BY <1>0, <3>1
    <3>4. Types' BY <2>1, <3>2, <1>0 DEF Types
    <3>5. KeyPlace' /\ Room' BY <1>0, <2>1, <2>2, <3>3 DEF KeyPlace, Room, Outside, ThreadType
    <3> QED BY <2>1, <3>4, <3>5, <1>0 DEF ResidencyBounded, OnePartition, SlotsInv
  <2>3. CASE ~InWarm /\ ~(InCold /\ m.pc = "putCold")
    <3> DEFINE Moved(p) == th' = [th EXCEPT ![Main].pc = p, ![Main].nested = FALSE]
    <3>a. Moved("putCold") \/ (Moved("full") /\ ~InCold)
      <4>1. CASE LookForWarm(Main)
        <5>1. Has(protected, k) = FALSE BY <2>3 DEF Has
        <5>2. (IF Has(protected, k) THEN "get" ELSE "putCold") = "putCold" BY <5>1
        <5>3. Moved("putCold") BY <4>1, <5>1, <5>2 DEF LookForWarm
        <5> QED BY <5>3
      <4>2. CASE LookForCold(Main)
        <5>1. Has(probationary, k) = FALSE BY <4>2, <2>3 DEF Has, LookForCold
        <5>2. Moved("full") BY <4>2, <5>1 DEF LookForCold
        <5>3. ~InCold BY <5>1
        <5> QED BY <5>2, <5>3
      <4> QED BY <1>1, <4>1, <4>2
    <3> HIDE DEF Moved
    <3>1. PICK p \in {"putCold", "full"} : Moved(p) /\ (p = "full" => ~InCold) BY <3>a
    <3> USE DEF Moved
    <3>2. th' \in [Threads -> ThreadType] BY <1>0, <3>1 DEF ThreadType, PCs
    <3>3. th'[Main] = [m EXCEPT !.pc = p, !.nested = FALSE] BY <1>0, <3>1
    <3>4. Types' BY <2>1, <3>2, <1>0 DEF Types
    <3>5. KeyPlace' /\ Room' BY <1>0, <2>1, <2>3, <3>1, <3>3 DEF KeyPlace, Room, Outside, ThreadType
    <3> QED BY <2>1, <3>4, <3>5, <1>0 DEF ResidencyBounded, OnePartition, SlotsInv
  <2> QED BY <2>2, <2>3 DEF Has
<1>2. CASE LookToStore(Main)
  <2>1. k \in Keys /\ m.caller \in Callers /\ Has(protected, k)
    BY <1>0, <1>2 DEF LookToStore, KeyPlace, Outside
  <2>2. Goto(Main, "storeWarm") BY <2>1, <1>2 DEF LookToStore
  <2>3. KeyPlace' /\ Room'
    BY <1>0, <1>2, <2>1, <2>2 DEF LookToStore, KeyPlace, Room, Outside, ThreadType
  <2> QED BY <2>2, <2>3, <1>2, SlotsInvGoto DEF LookToStore, PCs
<1>7. CASE StoreWarm(Main)
  <2>1. k \in Keys /\ m.caller \in Callers /\ Has(protected, k)
    BY <1>0, <1>7 DEF StoreWarm, KeyPlace, Outside
  <2>2. /\ UNCHANGED <<probationary, protected, session, agenda, pending>> /\ Return(Main)
    BY <2>1, <1>7 DEF StoreWarm, Insert
  <2>3. Types' BY <2>2, <1>0, ReturnFacts DEF Types
  <2>4. ~PC(Outside) BY <1>7 DEF StoreWarm, Outside
  <2>5. KeyPlace' /\ Room' BY <1>0, <2>2, <2>4, ReturnPlaces
  <2> QED BY <2>2, <2>3, <2>5, <1>0 DEF ResidencyBounded, OnePartition, SlotsInv
<1>8. CASE StoreCold(Main) BY <1>0, <1>8 DEF StoreCold, KeyPlace
<1>9. CASE CountCold(Main)
  <2>1. /\ k \in Keys /\ m.caller \in Callers
        /\ th' = [th EXCEPT ![Main].pc = "sum", ![Main].seen = Len(probationary)]
        /\ UNCHANGED <<probationary, protected, session, agenda, pending, tasks>>
    BY <1>0, <1>9 DEF CountCold, KeyPlace, Outside
  <2>2. th' \in [Threads -> ThreadType] BY <1>0, <2>1 DEF ThreadType, PCs
  <2>3. th'[Main] = [m EXCEPT !.pc = "sum", !.seen = Len(probationary)] BY <1>0, <2>1
  <2>4. Types' BY <2>1, <2>2, <1>0 DEF Types
  <2>5. KeyPlace' /\ Room' BY <1>0, <2>1, <2>3 DEF KeyPlace, Room, Outside, ThreadType
  <2> QED BY <2>1, <2>4, <2>5, <1>0 DEF ResidencyBounded, OnePartition, SlotsInv
<1>3. CASE CheckFull(Main)
  <2>1. PICK p \in {"evict", "insert"} :
          Goto(Main, p) /\ (p = "insert" => Len(probationary) < ProbationaryCapacity)
    <3>1. CASE Len(probationary) >= ProbationaryCapacity BY <3>1, <1>3 DEF CheckFull
    <3>2. CASE ~(Len(probationary) >= ProbationaryCapacity)
      <4>1. Goto(Main, "insert") BY <3>2, <1>3 DEF CheckFull
      <4>2. Len(probationary) < ProbationaryCapacity BY <1>0, <3>2
      <4> QED BY <4>1, <4>2
    <3> QED BY <3>1, <3>2
  <2>2. KeyPlace' /\ Room' BY <1>0, <1>3, <2>1 DEF CheckFull, KeyPlace, Room, Outside, ThreadType
  <2> QED BY <2>1, <2>2, <1>3, SlotsInvGoto DEF CheckFull, PCs
<1>4. CASE Evict(Main)
  <2>1. k \in Keys /\ m.caller \in Callers /\ ~PC(Outside) /\ ~InCold /\ ~InWarm
    BY <1>0, <1>4 DEF Evict, KeyPlace, Outside
  <2>2. CASE probationary = <<>> BY <2>1, <2>2, <1>4, SlotsInvRaise DEF Evict
  <2>3. CASE probationary # <<>>
    <3>1. /\ probationary' = Tail(probationary) /\ protected' = protected
          /\ Goto(Main, "insert") /\ UNCHANGED <<session, pending, tasks, agenda>>
      BY <2>3, <1>4 DEF Evict, NoRaise
    <3>2. /\ probationary' \in Dict /\ ToSet(probationary') \subseteq ToSet(probationary)
          /\ Len(probationary') = Len(probationary) - 1
      BY <2>3, <3>1, <1>0, EvictedKey
    <3>3. th' \in [Threads -> ThreadType] BY <1>0, <3>1 DEF ThreadType, PCs
    <3>4. Types' BY <3>1, <3>2, <3>3, <1>0 DEF Types
    <3>5. KeyPlace' BY <1>0, <2>1, <3>1, <3>2 DEF KeyPlace, Outside, Has, ThreadType
    <3>6. Len(probationary') < ProbationaryCapacity BY <1>0, <3>2 DEF ResidencyBounded
    <3>7. Room' BY <1>0, <3>1, <3>6 DEF Room, ThreadType
    <3>8. ResidencyBounded' /\ OnePartition'
      BY <1>0, <3>1, <3>2 DEF ResidencyBounded, OnePartition, ProtectedCapacity
    <3> QED BY <3>4, <3>5, <3>7, <3>8 DEF SlotsInv
  <2> QED BY <2>2, <2>3
<1>5. CASE InsertCold(Main)
  <2>1. /\ k \in Keys /\ m.caller \in Callers /\ ~InCold /\ ~InWarm
        /\ Len(probationary) < ProbationaryCapacity
    BY <1>0, <1>5 DEF InsertCold, KeyPlace, Room, Outside
  <2>2. /\ probationary' = Insert(probationary, k) /\ protected' = protected
        /\ Goto(Main, "assert") /\ UNCHANGED <<session, pending, tasks, agenda>>
    BY <1>5 DEF InsertCold
  <2>3. /\ probationary' \in Dict /\ ToSet(probationary') = ToSet(probationary) \union {k}
        /\ Len(probationary') = Len(probationary) + 1
    BY <2>1, <2>2, <1>0, InsertFacts
  <2>4. th' \in [Threads -> ThreadType] BY <1>0, <2>2 DEF ThreadType, PCs
  <2>5. Types' BY <2>2, <2>3, <2>4, <1>0 DEF Types
  <2>6. KeyPlace' /\ Room' BY <1>0, <2>1, <2>2 DEF KeyPlace, Room, Outside, ThreadType
  <2>7. ResidencyBounded' /\ OnePartition'
    BY <1>0, <2>1, <2>2, <2>3 DEF ResidencyBounded, OnePartition, Has, ProtectedCapacity
  <2> QED BY <2>5, <2>6, <2>7 DEF SlotsInv
<1>6. CASE AssertBound(Main)
  <2>1. k \in Keys /\ m.caller \in Callers /\ ~PC(Outside)
    BY <1>0, <1>6 DEF AssertBound, KeyPlace, Outside
  <2>2. UNCHANGED <<probationary, protected, session, pending>> BY <1>6 DEF AssertBound
  <2>3. CASE Raise(Main) BY <2>1, <2>2, <2>3, SlotsInvRaise
  <2>4. CASE Return(Main) /\ UNCHANGED agenda
    <3>1. Types' BY <2>2, <2>4, <1>0, ReturnFacts DEF Types
    <3>2. KeyPlace' /\ Room' BY <1>0, <2>1, <2>4, ReturnPlaces
    <3> QED BY <2>2, <3>1, <3>2, <1>0 DEF ResidencyBounded, OnePartition, SlotsInv
  <2> QED BY <2>3, <2>4, <1>6 DEF AssertBound
<1> QED BY <1>1, <1>2, <1>3, <1>4, <1>5, <1>6, <1>7, <1>8, <1>9 DEF Put

AgendaType == [order : Seq(Keys), next : Nat \ {0}, last : Nat]
SessionType == [token : Nat, freq : [Keys -> Nat], pinned : SUBSET Keys, frozen : BOOLEAN]
TaskType == [key : Keys, st : {"queued", "running", "done", "failed"}]

\* A step outside the cache, which leaves Main outside of it or at the start
\* or the end of an operation.
LEMMA SlotsInvMain ==
  ASSUME SlotsInv, UNCHANGED <<probationary, protected>>,
         NEW r \in ThreadType, th' = [th EXCEPT ![Main] = r],
         ~r.nested, r.pc \in Outside \union {"get", "promoted", "put"},
         r.pc \notin Outside => r.key \in Keys /\ r.caller \in Callers,
         r.pc = "pinRam" => r.caller \in Callers,
         r.pc = "issue" => r.key \in Keys,
         agenda' \in AgendaType, agenda'.last <= Len(agenda'.order),
         session' \in SessionType, pending' \in [Keys -> Nat], tasks' \in Seq(TaskType)
  PROVE  SlotsInv'
<1>1. Main \in Threads /\ th \in [Threads -> ThreadType] BY DEF SlotsInv, Types, Threads
<1>2. th'[Main] = r /\ th' \in [Threads -> ThreadType] BY <1>1
<1>3. Types' BY <1>2 DEF SlotsInv, Types, AgendaType, SessionType, TaskType
<1>4. KeyPlace' /\ Room' BY <1>2 DEF KeyPlace, Room, PC, Key, Outside
<1> QED BY <1>3, <1>4 DEF SlotsInv, ResidencyBounded, OnePartition

\* The adapter's order of experts is a sequence of them.
LEMMA MostCommonIsSeq ==
  ASSUME NEW order \in MostCommon
  PROVE  order \in Seq(Keys)
<1> DEFINE S == {k \in Keys : session.freq[k] > 0}
<1>1. Cardinality(S) \in Nat
  <2>0. S \subseteq Keys OBVIOUS
  <2> HIDE DEF S
  <2>1. IsFiniteSet(S) BY <2>0, FS_Subset, ExpertRuntimeAssumption
  <2> QED BY <2>1, FS_CardinalityType
<1>2. order \in [1..Cardinality(S) -> S] BY DEF MostCommon, SetToSeqs
<1>3. order \in [1..Cardinality(S) -> Keys] BY <1>2
<1> HIDE DEF S
<1> QED BY <1>1, <1>3

LEMMA LesserOfTwo ==
  ASSUME NEW a \in Nat, NEW b \in Nat
  PROVE  Min({a, b}) \in Nat /\ Min({a, b}) <= a
BY MinOfTwo

LEMMA SlotsInvNext ==
  ASSUME SlotsInv, [Next]_vars, Workers = {}
  PROVE  SlotsInv'
<1> USE ExpertRuntimeAssumption DEF cache, gpu, pins, pool, At, Key
<1> DEFINE m == th[Main]
<1>0. /\ Types /\ KeyPlace /\ Room /\ m \in ThreadType /\ th \in [Threads -> ThreadType]
      /\ Main \in Threads
      /\ agenda \in AgendaType /\ session \in SessionType /\ pending \in [Keys -> Nat]
      /\ tasks \in Seq(TaskType) /\ agenda.last <= Len(agenda.order)
  BY DEF SlotsInv, Types, Threads, AgendaType, SessionType, TaskType
<1>r. Rest \in ThreadType /\ Rest.pc \in Outside \ {"pinRam", "issue"} /\ ~Rest.nested
  BY DEF Rest, ThreadType, PCs, Outside
<1>1. CASE Get(Main) BY <1>1, SlotsInvGet
<1>2. CASE Put(Main) BY <1>2, SlotsInvPut
<1>3. CASE Read(Main)
  <2>1. m.key \in Keys /\ m.caller \in Callers /\ Goto(Main, "put")
    BY <1>0, <1>3 DEF Read, KeyPlace, PC, Outside
  <2>2. KeyPlace' /\ Room'
    BY <1>0, <1>3, <2>1 DEF Read, Goto, KeyPlace, Room, PC, Outside, ThreadType
  <2> QED BY <1>3, <2>1, <2>2, SlotsInvGoto DEF Read, PCs
<1>4. CASE Promote
  <2>1. m.key \in Keys BY <1>0, <1>4 DEF Promote, KeyPlace, PC, Outside
  <2>2. CASE m.caller = "pinVram"
    <3> DEFINE r == [Rest EXCEPT !.pc = "pinVram", !.caller = "pinVram"]
    <3>1. r \in ThreadType /\ r.pc = "pinVram" /\ ~r.nested /\ r.caller \in Callers
      BY DEF Rest, ThreadType, PCs, Outside, Callers
    <3>2. th' = [th EXCEPT ![Main] = r] /\ agenda' = [agenda EXCEPT !.next = @ + 1]
          /\ session' = [session EXCEPT !.pinned = @ \union {m.key}]
          /\ UNCHANGED <<probationary, protected, pending, tasks>>
      BY <2>2, <1>4 DEF Promote
    <3> HIDE DEF r
    <3>3. agenda' \in AgendaType /\ agenda'.last <= Len(agenda'.order)
      <4>1. agenda.next + 1 \in Nat \ {0} BY <1>0 DEF AgendaType
      <4>2. agenda' = [order |-> agenda.order, next |-> agenda.next + 1, last |-> agenda.last]
        BY <3>2, <1>0 DEF AgendaType
      <4> QED BY <4>1, <4>2, <1>0 DEF AgendaType
    <3>4. session' \in SessionType BY <3>2, <2>1, <1>0 DEF SessionType
    <3> QED BY <3>1, <3>2, <3>3, <3>4, <1>0, SlotsInvMain DEF Outside
  <2>3. CASE m.caller # "pinVram"
    <3>1. th' = [th EXCEPT ![Main] = Rest]
          /\ UNCHANGED <<probationary, protected, session, agenda, pending, tasks>>
      BY <2>3, <1>4 DEF Promote
    <3> QED BY <3>1, <1>0, <1>r, SlotsInvMain
  <2> QED BY <2>2, <2>3
<1>5. CASE Awaited
  <2>1. th' = [th EXCEPT ![Main] = Rest]
        /\ UNCHANGED <<probationary, protected, session, agenda, pending, tasks>>
    BY <1>5 DEF Awaited
  <2> QED BY <2>1, <1>0, <1>r, SlotsInvMain
<1>e. ASSUME NEW k \in Keys, NEW caller \in {"fetch", "pinVram"}, Enter(k, caller),
             UNCHANGED <<probationary, protected, session, agenda, pending, tasks>>
      PROVE  SlotsInv'
  <2> DEFINE p == IF k \notin hot THEN "get" ELSE IF caller = "fetch" THEN "idle" ELSE "promoted"
             r == [Rest EXCEPT !.key = k, !.caller = caller, !.pc = p]
  <2>1. r \in ThreadType /\ ~r.nested /\ r.key \in Keys /\ r.caller \in Callers
        /\ r.pc \in Outside \union {"get", "promoted", "put"}
    BY DEF Rest, ThreadType, PCs, Outside, Callers
  <2>2. th' = [th EXCEPT ![Main] = r] BY <1>e DEF Enter
  <2> HIDE DEF r
  <2> QED BY <2>1, <2>2, <1>e, <1>0, SlotsInvMain
<1>6. CASE PinVram
  <2>1. agenda.order[agenda.next] \in Keys BY <1>0, <1>6 DEF PinVram, AgendaType
  <2> QED BY <2>1, <1>6, <1>e DEF PinVram
<1>7. CASE PinVramDone
  <2> DEFINE n == Cardinality(session.pinned)
             r == [Rest EXCEPT !.pc = "pinRam", !.caller = "pinRam"]
             l == Min({Len(agenda.order), n + ProtectedCapacity})
  <2>1. r \in ThreadType /\ r.pc = "pinRam" /\ ~r.nested /\ r.caller \in Callers
    BY DEF Rest, ThreadType, PCs, Outside, Callers
  <2>2. n \in Nat
    <3>1. IsFiniteSet(session.pinned) BY <1>0, FS_Subset DEF SessionType
    <3> QED BY <3>1, FS_CardinalityType
  <2>3. /\ th' = [th EXCEPT ![Main] = r] /\ agenda' = [agenda EXCEPT !.next = n + 1, !.last = l]
        /\ UNCHANGED <<probationary, protected, session, pending, tasks>>
    BY <1>7 DEF PinVramDone
  <2>4. l \in Nat /\ l <= Len(agenda.order)
    <3>1. Len(agenda.order) \in Nat /\ n + ProtectedCapacity \in Nat
      BY <1>0, <2>2 DEF AgendaType, ProtectedCapacity
    <3> QED BY <3>1, LesserOfTwo
  <2> HIDE DEF n, r, l
  <2>5. agenda' \in AgendaType /\ agenda'.last <= Len(agenda'.order)
    <3>1. n + 1 \in Nat \ {0} BY <2>2
    <3>2. agenda' = [order |-> agenda.order, next |-> n + 1, last |-> l]
      BY <2>3, <1>0 DEF AgendaType
    <3> QED BY <3>1, <3>2, <2>4, <1>0 DEF AgendaType
  <2> QED BY <2>1, <2>3, <2>5, <1>0, SlotsInvMain DEF Outside
<1>8. CASE PinRam
  <2> DEFINE r == [m EXCEPT !.pc = "get", !.key = agenda.order[agenda.next]]
  <2>1. agenda.order[agenda.next] \in Keys BY <1>0, <1>8 DEF PinRam, AgendaType
  <2>2. m.pc = "pinRam" /\ ~m.nested BY <1>0, <1>8 DEF PinRam, KeyPlace, PC
  <2>3. m.caller \in Callers BY <1>0, <2>2 DEF KeyPlace, PC
  <2>4. r \in ThreadType /\ r.pc = "get" /\ r.key \in Keys /\ r.caller \in Callers /\ ~r.nested
    BY <1>0, <2>1, <2>2, <2>3 DEF ThreadType, PCs
  <2>5. th' = [th EXCEPT ![Main] = r]
        /\ UNCHANGED <<probationary, protected, session, agenda, pending, tasks>>
    BY <1>8, <1>0 DEF PinRam
  <2> HIDE DEF r
  <2> QED BY <2>4, <2>5, <1>0, SlotsInvMain
<1>9. CASE PinRamDone
  <2>1. /\ th' = [th EXCEPT ![Main] = Rest] /\ session' = [session EXCEPT !.frozen = TRUE]
        /\ agenda' = NoAgenda /\ UNCHANGED <<probationary, protected, pending, tasks>>
    BY <1>9 DEF PinRamDone
  <2>2. session' \in SessionType BY <2>1, <1>0 DEF SessionType
  <2>3. agenda' \in AgendaType /\ agenda'.last <= Len(agenda'.order)
    BY <2>1 DEF NoAgenda, AgendaType
  <2> QED BY <2>1, <2>2, <2>3, <1>0, <1>r, SlotsInvMain
\* Calls that touch neither the cache nor Main's place in it.
<1>s. ASSUME UNCHANGED <<probationary, protected, th, agenda>>,
             session' \in SessionType, pending' \in [Keys -> Nat], tasks' \in Seq(TaskType)
      PROVE  SlotsInv'
  <2>1. Types' BY <1>s, <1>0 DEF Types, SessionType, TaskType
  <2>2. KeyPlace' /\ Room' BY <1>s, <1>0 DEF KeyPlace, Room, PC, InCold, InWarm
  <2> QED BY <2>1, <2>2, <1>s DEF SlotsInv, ResidencyBounded, OnePartition
<1>a. ASSUME NEW k \in Keys, Fetch(k) PROVE SlotsInv'
  BY <1>a, <1>e DEF Fetch
<1>b. ASSUME NEW k \in Keys, Predict(k) PROVE SlotsInv'
  <2>1. UNCHANGED <<probationary, protected, session, agenda, pending, tasks>>
    BY <1>b DEF Predict
  <2>2. CASE UNCHANGED th BY <2>1, <2>2, <1>0, <1>s
  <2>3. CASE ~UNCHANGED th
    <3> DEFINE r == [Rest EXCEPT !.pc = "issue", !.key = k, !.caller = "issue"]
    <3>1. r \in ThreadType /\ r.pc = "issue" /\ ~r.nested /\ r.key \in Keys
      BY DEF Rest, ThreadType, PCs
    <3>2. th' = [th EXCEPT ![Main] = r] BY <2>3, <1>b DEF Predict
    <3> HIDE DEF r
    <3> QED BY <3>1, <3>2, <2>1, <1>0, SlotsInvMain DEF Outside
  <2> QED BY <2>2, <2>3
<1>j. CASE Issue
  <2> DEFINE k == m.key
  <2>1. k \in Keys BY <1>0, <1>j DEF Issue, KeyPlace, PC
  <2>2. Len(tasks) + 1 \in Nat /\ [key |-> k, st |-> "queued"] \in TaskType
    BY <1>0, <2>1 DEF TaskType
  <2>3. \/ UNCHANGED <<tasks, pending>>
        \/ /\ tasks' = Append(tasks, [key |-> k, st |-> "queued"])
           /\ pending' = [pending EXCEPT ![k] = Len(tasks) + 1]
    BY <1>j DEF Issue
  <2>4. /\ th' = [th EXCEPT ![Main] = Rest]
        /\ UNCHANGED <<probationary, protected, session, agenda>>
    BY <1>j DEF Issue
  <2> HIDE DEF k
  <2>5. tasks' \in Seq(TaskType) /\ pending' \in [Keys -> Nat]
    <3>1. CASE UNCHANGED <<tasks, pending>> BY <3>1, <1>0
    <3>2. CASE ~UNCHANGED <<tasks, pending>>
      <4>1. tasks' = Append(tasks, [key |-> k, st |-> "queued"]) BY <3>2, <2>3
      <4>2. tasks' \in Seq(TaskType)
        <5> DEFINE e == [key |-> k, st |-> "queued"]
        <5>1. e \in TaskType /\ tasks' = Append(tasks, e) BY <4>1, <2>2
        <5> HIDE DEF e
        <5> QED BY <5>1, <1>0
      <4>3. pending' \in [Keys -> Nat] BY <3>2, <2>3, <2>2, <1>0
      <4> QED BY <4>2, <4>3
    <3> QED BY <3>1, <3>2
  <2> QED BY <2>4, <2>5, <1>0, <1>r, SlotsInvMain
<1>c. ASSUME NEW k \in Keys, Await(k) PROVE SlotsInv'
  <2>1. pending' \in [Keys -> Nat] BY <1>c, <1>0 DEF Await
  <2>2. CASE UNCHANGED th BY <2>1, <2>2, <1>c, <1>0, <1>s DEF Await
  <2>3. CASE ~UNCHANGED th
    <3> DEFINE r == [Rest EXCEPT !.pc = "await", !.key = k, !.caller = "await",
                                 !.task = pending[k]]
    <3>1. r \in ThreadType /\ r.pc = "await" /\ ~r.nested
      BY <1>0 DEF Rest, ThreadType, PCs
    <3>2. /\ th' = [th EXCEPT ![Main] = r]
          /\ UNCHANGED <<probationary, protected, session, agenda, tasks>>
      BY <2>3, <1>c DEF Await
    <3> HIDE DEF r
    <3> QED BY <3>1, <3>2, <2>1, <1>0, SlotsInvMain DEF Outside
  <2> QED BY <2>2, <2>3
<1>d. ASSUME NEW k \in Keys, RecordRouting(k) PROVE SlotsInv'
  <2>1. session.freq \in [Keys -> Nat] BY <1>0 DEF SessionType
  <2>2. session' = [session EXCEPT !.freq = [session.freq EXCEPT ![k] = session.freq[k] + 1]]
    BY <1>d DEF RecordRouting
  <2>3. [session.freq EXCEPT ![k] = session.freq[k] + 1] \in [Keys -> Nat] BY <2>1
  <2>4. session' \in SessionType BY <2>2, <2>3, <1>0 DEF SessionType
  <2> QED BY <2>4, <1>d, <1>0, <1>s DEF RecordRouting
<1>f. CASE StepToken
  <2>1. session' \in SessionType
    <3>1. session.token + 1 \in Nat /\ Warmup \in Nat BY <1>0 DEF SessionType
    <3>2. Min({Warmup, session.token + 1}) \in Nat BY <3>1, LesserOfTwo
    <3>3. session' = [session EXCEPT !.token = Min({Warmup, session.token + 1})]
      BY <1>f DEF StepToken
    <3> QED BY <3>2, <3>3, <1>0 DEF SessionType
  <2>2. UNCHANGED <<probationary, protected, pending, tasks>> BY <1>f DEF StepToken
  <2>3. CASE UNCHANGED <<agenda, th>> BY <2>1, <2>2, <2>3, <1>0, <1>s
  <2>4. CASE ~UNCHANGED <<agenda, th>>
    <3> DEFINE r == [Rest EXCEPT !.pc = "pinVram", !.caller = "pinVram"]
    <3>1. r \in ThreadType /\ r.pc = "pinVram" /\ ~r.nested
      BY DEF Rest, ThreadType, PCs, Callers
    <3>2. PICK order \in MostCommon :
            /\ agenda' = [order |-> order, next |-> 1,
                          last |-> IF Cuda THEN Min({PinCount, Len(order)}) ELSE 0]
            /\ th' = [th EXCEPT ![Main] = r]
      BY <2>4, <1>f DEF StepToken
    <3>3. order \in Seq(Keys) /\ Len(order) \in Nat BY MostCommonIsSeq
    <3>4. {PinCount, Len(order)} = {Len(order), PinCount} OBVIOUS
    <3>5. Min({PinCount, Len(order)}) \in Nat /\ Min({PinCount, Len(order)}) <= Len(order)
      BY <3>3, <3>4, LesserOfTwo
    <3>6. agenda' \in AgendaType /\ agenda'.last <= Len(agenda'.order)
      BY <3>2, <3>3, <3>5 DEF AgendaType
    <3> HIDE DEF r
    <3> QED BY <3>1, <3>2, <3>6, <2>1, <2>2, <1>0, SlotsInvMain DEF Outside
  <2> QED BY <2>3, <2>4
<1>g. CASE ResetSession
  <2>1. session' \in SessionType BY <1>g DEF ResetSession, FreshSession, SessionType
  <2> QED BY <2>1, <1>g, <1>0, <1>s DEF ResetSession
<1>h. CASE UNCHANGED vars BY <1>h, <1>0, <1>s DEF vars
<1>i. CASE MainWork
  BY <1>i, <1>j, <1>1, <1>2, <1>3, <1>4, <1>5, <1>6, <1>7, <1>8, <1>9 DEF MainWork
<1> QED
  BY <1>a, <1>b, <1>c, <1>d, <1>f, <1>g, <1>h, <1>i DEF Next, Finished

\* With no prefetch pool sharing it, the SLRU cache keeps both partitions
\* within their slots at every step of get and put (cache.py:22, "No
\* allocation may grow capacity"), whatever the capacities, calls and session.
THEOREM ResidencyIsBounded ==
  ASSUME Workers = {}
  PROVE  Spec => []ResidencyBounded
<1>1. SlotsInv /\ [Next]_vars => SlotsInv' BY SlotsInvNext
<1>2. SlotsInv => ResidencyBounded BY DEF SlotsInv
<1> QED BY <1>1, <1>2, SlotsInvInit, PTL DEF Spec

\* With no prefetch pool sharing it, no step of get and put, of their callers
\* or of the session adapter leaves an expert in both partitions.
THEOREM ExpertsAreInOnePartition ==
  ASSUME Workers = {}
  PROVE  Spec => []OnePartition
<1>1. SlotsInv /\ [Next]_vars => SlotsInv' BY SlotsInvNext
<1>2. SlotsInv => OnePartition BY DEF SlotsInv
<1> QED BY <1>1, <1>2, SlotsInvInit, PTL DEF Spec

\* The partitions of such a cache are sound in both ways at once.
THEOREM PartitionsAreSound ==
  ASSUME Workers = {}
  PROVE  Spec => []PartitionsSound
<1>1. Spec => []ResidencyBounded BY ResidencyIsBounded
<1>2. Spec => []OnePartition BY ExpertsAreInOnePartition
<1>3. ResidencyBounded /\ OnePartition => PartitionsSound BY DEF PartitionsSound
<1> QED BY <1>1, <1>2, <1>3, PTL

-----------------------------------------------------------------------------
(***************************************************************************)
(* Nothing raises.  On top of SlotsInv: a partition about to give up its   *)
(* oldest expert is full, hence not empty; and the sum the assertion of    *)
(* put tests is made of the present lengths.                               *)
(***************************************************************************)

Full ==
  /\ PC({"demote"}) => Len(protected) >= ProtectedCapacity
  /\ PC({"evict"}) => Len(probationary) >= ProbationaryCapacity
  /\ PC({"sum"}) => th[Main].seen = Len(probationary)

NoFailure == SlotsInv /\ Full /\ ~raised

\* No step of get or put raises.
LEMMA OperationsSucceed ==
  ASSUME SlotsInv, Full, ProbationaryCapacity < Capacity,
         Get(Main) \/ Put(Main)
  PROVE  raised' = raised
<1> USE ExpertRuntimeAssumption
    DEF At, Key, PC, InCold, InWarm, cache, gpu, pins, pool
<1> DEFINE k == th[Main].key
<1>0. /\ KeyPlace /\ Room /\ ResidencyBounded /\ Main \in Threads
      /\ probationary \in Dict /\ protected \in Dict
      /\ Len(probationary) \in Nat /\ Len(protected) \in Nat /\ ProtectedCapacity \in Nat \ {0}
  BY DEF SlotsInv, Types, Threads, Dict, Distinct, ProtectedCapacity
<1>a. ASSUME NEW found \in BOOLEAN, AfterGet(Main, found) PROVE raised' = raised
  BY <1>a DEF AfterGet, NoRaise
<1>r. ASSUME Return(Main), UNCHANGED raised PROVE raised' = raised BY <1>r
<1>1. CASE LookProtected(Main) BY <1>1 DEF LookProtected
<1>2. CASE Refresh(Main)
  <2>1. Has(protected, k) BY <1>0, <1>2 DEF Refresh, KeyPlace
  <2> QED BY <2>1, <1>2 DEF Refresh, NoRaise
<1>3. CASE ReadWarm(Main)
  <2>1. Has(protected, k) BY <1>0, <1>3 DEF ReadWarm, KeyPlace
  <2> QED BY <2>1, <1>3, <1>a DEF ReadWarm
<1>4. CASE LookProbationary(Main) BY <1>4, <1>a DEF LookProbationary, NoRaise
<1>5. CASE PopHit(Main)
  <2>1. Has(probationary, k) BY <1>0, <1>5 DEF PopHit, KeyPlace
  <2> QED BY <2>1, <1>5 DEF PopHit, NoRaise
<1>6. CASE CheckRoom(Main) BY <1>6 DEF CheckRoom
<1>7. CASE Demote(Main)
  <2>1. Len(protected) >= ProtectedCapacity BY <1>7 DEF Demote, Full
  <2>2. protected # <<>> BY <1>0, <2>1, EmptyDict
  <2> QED BY <2>2, <1>7 DEF Demote, NoRaise
<1>8. CASE PutDemoted(Main) BY <1>8 DEF PutDemoted
<1>9. CASE PromoteHit(Main) BY <1>9, <1>a DEF PromoteHit
<1>b. CASE LookForWarm(Main) \/ LookForCold(Main) \/ LookToStore(Main) \/ CheckFull(Main)
  BY <1>b DEF LookForWarm, LookForCold, LookToStore, CheckFull
<1>c. CASE StoreWarm(Main) \/ StoreCold(Main) \/ InsertCold(Main) \/ CountCold(Main)
  BY <1>c DEF StoreWarm, StoreCold, InsertCold, CountCold
<1>d. CASE Evict(Main)
  <2>1. Len(probationary) >= ProbationaryCapacity BY <1>d DEF Evict, Full
  <2>2. probationary # <<>> BY <1>0, <2>1, EmptyDict
  <2> QED BY <2>2, <1>d DEF Evict, NoRaise
<1>e. CASE AssertBound(Main)
  <2>1. th[Main].seen = Len(probationary) BY <1>e DEF AssertBound, Full
  <2>2. th[Main].seen + Len(protected) <= Capacity
    BY <1>0, <2>1 DEF ResidencyBounded, ProtectedCapacity
  <2> QED BY <2>2, <1>e DEF AssertBound
<1>g. CASE Get(Main)
  BY <1>g, <1>1, <1>2, <1>3, <1>4, <1>5, <1>6, <1>7, <1>8, <1>9 DEF Get
<1>p. CASE Put(Main) BY <1>p, <1>b, <1>c, <1>d, <1>e DEF Put
<1> QED BY <1>g, <1>p

\* Each step leaves a full partition behind where it says it did.
LEMMA FullStep ==
  ASSUME SlotsInv, SlotsInv', Full, [Next]_vars, Workers = {}
  PROVE  Full'
<1> USE ExpertRuntimeAssumption
    DEF At, Key, PC, InCold, InWarm, cache, gpu, pins, pool
<1> DEFINE m == th[Main]
           S == {"demote", "evict", "sum"}
<1>0. /\ Main \in Threads /\ th \in [Threads -> ThreadType] /\ Types /\ KeyPlace
      /\ Len(probationary) \in Nat /\ Len(protected) \in Nat /\ ProtectedCapacity \in Nat
  <2>1. Types /\ KeyPlace BY DEF SlotsInv
  <2>2. /\ Main \in Threads /\ th \in [Threads -> ThreadType]
        /\ probationary \in Seq(Keys) /\ protected \in Seq(Keys)
    BY <2>1 DEF Types, Threads, Dict, Distinct
  <2>3. ProtectedCapacity \in Nat BY DEF ProtectedCapacity
  <2> QED BY <2>1, <2>2, <2>3
<1>u. ASSUME UNCHANGED <<th, probationary, protected>> PROVE Full'
  BY <1>u DEF Full, ProtectedCapacity
<1>o. ASSUME th'[Main].pc \notin S PROVE Full' BY <1>o DEF Full
<1>g. ASSUME NEW p \in PCs \ S, Goto(Main, p) PROVE Full'
  BY <1>0, <1>g, <1>o DEF Goto, ThreadType
<1>a. ASSUME NEW found \in BOOLEAN, AfterGet(Main, found) PROVE Full'
  BY <1>a, <1>0, <1>g DEF AfterGet, PCs
<1>x. ASSUME ~PC(Outside), Raise(Main) PROVE Full'
  BY <1>x, <1>0, <1>o, RaiseFacts
<1>t. ASSUME Return(Main) PROVE Full' BY <1>t, <1>0, <1>o, ReturnFacts DEF ThreadType
<1>1. CASE Get(Main)
  <2>1. CASE LookProtected(Main) BY <2>1, <1>g DEF LookProtected, PCs
  <2>2. CASE Refresh(Main) BY <2>2, <1>g, <1>x DEF Refresh, PCs, Outside
  <2>3. CASE ReadWarm(Main) BY <2>3, <1>a, <1>x DEF ReadWarm, Outside
  <2>4. CASE LookProbationary(Main) BY <2>4, <1>a, <1>g DEF LookProbationary, PCs
  <2>5. CASE PopHit(Main) BY <2>5, <1>g, <1>x DEF PopHit, PCs, Outside
  <2>6. CASE CheckRoom(Main)
    <3>1. CASE Len(protected) >= ProtectedCapacity
      BY <1>0, <2>6, <3>1 DEF CheckRoom, Goto, Full, ThreadType, ProtectedCapacity
    <3>2. CASE ~(Len(protected) >= ProtectedCapacity)
      BY <2>6, <3>2, <1>g DEF CheckRoom, PCs
    <3> QED BY <3>1, <3>2
  <2>7. CASE Demote(Main)
    <3>1. CASE Raise(Main) BY <2>7, <3>1, <1>x DEF Demote, Outside
    <3>2. CASE ~Raise(Main)
      <4>1. th' = [th EXCEPT ![Main].pc = "demoted", ![Main].demoted = Head(protected)]
        BY <2>7, <3>2 DEF Demote
      <4>2. th'[Main].pc = "demoted" BY <4>1, <1>0 DEF ThreadType
      <4> QED BY <4>2, <1>o
    <3> QED BY <3>1, <3>2
  <2>8. CASE PutDemoted(Main)
    <3>1. th' = [th EXCEPT ![Main].pc = "promote", ![Main].demoted = Main]
      BY <2>8 DEF PutDemoted
    <3>2. th'[Main].pc = "promote" BY <3>1, <1>0 DEF ThreadType
    <3> QED BY <3>2, <1>o
  <2>9. CASE PromoteHit(Main) BY <2>9, <1>a DEF PromoteHit
  <2> QED BY <1>1, <2>1, <2>2, <2>3, <2>4, <2>5, <2>6, <2>7, <2>8, <2>9 DEF Get
<1>2. CASE Put(Main)
  <2>1. CASE LookForWarm(Main)
    <3>1. th'[Main].pc \in {"get", "putCold"} BY <2>1, <1>0 DEF LookForWarm, ThreadType
    <3> QED BY <3>1, <1>o
  <2>2. CASE LookForCold(Main)
    <3>1. th'[Main].pc \in {"get", "full"} BY <2>2, <1>0 DEF LookForCold, ThreadType
    <3> QED BY <3>1, <1>o
  <2>3. CASE LookToStore(Main) BY <2>3, <1>g DEF LookToStore, PCs
  <2>4. CASE StoreWarm(Main) \/ StoreCold(Main) BY <2>4, <1>t DEF StoreWarm, StoreCold
  <2>5. CASE CheckFull(Main)
    <3>1. CASE Len(probationary) >= ProbationaryCapacity
      BY <1>0, <2>5, <3>1 DEF CheckFull, Goto, Full, ThreadType
    <3>2. CASE ~(Len(probationary) >= ProbationaryCapacity)
      BY <2>5, <3>2, <1>g DEF CheckFull, PCs
    <3> QED BY <3>1, <3>2
  <2>6. CASE Evict(Main) BY <2>6, <1>g, <1>x DEF Evict, PCs, Outside
  <2>7. CASE InsertCold(Main) BY <2>7, <1>g DEF InsertCold, PCs
  <2>8. CASE CountCold(Main)
    <3>1. /\ th' = [th EXCEPT ![Main].pc = "sum", ![Main].seen = Len(probationary)]
          /\ probationary' = probationary
      BY <2>8 DEF CountCold
    <3>2. th'[Main].pc = "sum" /\ th'[Main].seen = Len(probationary)
      BY <3>1, <1>0 DEF ThreadType
    <3> QED BY <3>1, <3>2 DEF Full
  <2>9. CASE AssertBound(Main) BY <2>9, <1>t, <1>x DEF AssertBound, Outside
  <2> QED BY <1>2, <2>1, <2>2, <2>3, <2>4, <2>5, <2>6, <2>7, <2>8, <2>9 DEF Put
<1>n. ASSUME NEW r \in ThreadType, th' = [th EXCEPT ![Main] = r], r.pc \notin S PROVE Full'
  BY <1>0, <1>n, <1>o
<1>R. /\ Rest.pc = "idle"
      /\ [Rest EXCEPT !.pc = "pinVram", !.caller = "pinVram"].pc = "pinVram"
      /\ [Rest EXCEPT !.pc = "pinRam", !.caller = "pinRam"].pc = "pinRam"
  BY DEF Rest
<1>e. ASSUME NEW k \in Keys, NEW caller \in {"fetch", "pinVram"}, Enter(k, caller) PROVE Full'
  <2> DEFINE r == [Rest EXCEPT !.key = k, !.caller = caller,
                    !.pc = IF k \notin hot THEN "get"
                           ELSE IF caller = "fetch" THEN "idle" ELSE "promoted"]
  <2>1. th' = [th EXCEPT ![Main] = r] BY <1>e DEF Enter
  <2>2. th'[Main] = r BY <2>1, <1>0
  <2>3. r.pc \in {"get", "idle", "promoted"} BY DEF Rest
  <2> QED BY <2>2, <2>3, <1>o
<1>3. CASE Read(Main) BY <1>3, <1>g DEF Read, PCs
<1>4. CASE Promote \/ Issue \/ Awaited \/ PinVramDone \/ PinRamDone
  <2>1. \/ th' = [th EXCEPT ![Main] = Rest]
        \/ th' = [th EXCEPT ![Main] = [Rest EXCEPT !.pc = "pinVram", !.caller = "pinVram"]]
        \/ th' = [th EXCEPT ![Main] = [Rest EXCEPT !.pc = "pinRam", !.caller = "pinRam"]]
    <3>1. CASE Promote BY <3>1 DEF Promote
    <3>2. CASE Issue BY <3>2 DEF Issue
    <3>3. CASE Awaited BY <3>3 DEF Awaited
    <3>4. CASE PinVramDone BY <3>4 DEF PinVramDone
    <3>5. CASE PinRamDone BY <3>5 DEF PinRamDone
    <3> QED BY <1>4, <3>1, <3>2, <3>3, <3>4, <3>5
  <2>2. \/ th'[Main] = Rest \/ th'[Main] = [Rest EXCEPT !.pc = "pinVram", !.caller = "pinVram"]
        \/ th'[Main] = [Rest EXCEPT !.pc = "pinRam", !.caller = "pinRam"]
    BY <2>1, <1>0
  <2>3. \/ th'[Main].pc = Rest.pc \/ th'[Main].pc = "pinVram" \/ th'[Main].pc = "pinRam"
    BY <2>2, <1>R
  <2>4. th'[Main].pc \notin S BY <2>3, <1>R
  <2> QED BY <2>4, <1>o
<1>5. CASE PinVram
  <2>1. agenda.order[agenda.next] \in Keys BY <1>0, <1>5 DEF PinVram, Types
  <2> QED BY <2>1, <1>5, <1>e DEF PinVram
<1>6. CASE PinRam
  <2>1. th'[Main].pc = "get" BY <1>6, <1>0 DEF PinRam, ThreadType
  <2> QED BY <2>1, <1>o
<1>7. ASSUME NEW k \in Keys, Fetch(k) PROVE Full' BY <1>7, <1>e DEF Fetch
<1>8. ASSUME NEW k \in Keys, Predict(k) \/ Await(k) \/ RecordRouting(k) PROVE Full'
  <2>1. CASE UNCHANGED th
    <3>1. UNCHANGED <<probationary, protected>> BY <1>8 DEF Predict, Await, RecordRouting
    <3> QED BY <2>1, <3>1, <1>u
  <2>2. CASE ~UNCHANGED th
    <3>1. th'[Main].pc \in {"issue", "await"}
      <4>1. \/ th' = [th EXCEPT ![Main] = [Rest EXCEPT !.pc = "issue", !.key = k, !.caller = "issue"]]
            \/ th' = [th EXCEPT ![Main] = [Rest EXCEPT !.pc = "await", !.key = k,
                                                       !.caller = "await", !.task = pending[k]]]
        <5>1. CASE Predict(k) BY <5>1, <2>2 DEF Predict
        <5>2. CASE Await(k) BY <5>2, <2>2 DEF Await
        <5>3. CASE RecordRouting(k) BY <5>3, <2>2 DEF RecordRouting
        <5> QED BY <5>1, <5>2, <5>3, <1>8
      <4>2. \/ th'[Main] = [Rest EXCEPT !.pc = "issue", !.key = k, !.caller = "issue"]
            \/ th'[Main] = [Rest EXCEPT !.pc = "await", !.key = k,
                                       !.caller = "await", !.task = pending[k]]
        BY <4>1, <1>0
      <4> QED BY <4>2 DEF Rest
    <3> QED BY <3>1, <1>o
  <2> QED BY <2>1, <2>2
<1>9. CASE StepToken \/ ResetSession \/ UNCHANGED vars
  <2>1. CASE UNCHANGED th
    <3>1. UNCHANGED <<probationary, protected>> BY <1>9 DEF StepToken, ResetSession, vars
    <3> QED BY <2>1, <3>1, <1>u
  <2>2. CASE ~UNCHANGED th
    <3>1. StepToken BY <1>9, <2>2 DEF ResetSession, vars
    <3>2. th' = [th EXCEPT ![Main] = [Rest EXCEPT !.pc = "pinVram", !.caller = "pinVram"]]
      BY <3>1, <2>2 DEF StepToken
    <3>3. th'[Main] = [Rest EXCEPT !.pc = "pinVram", !.caller = "pinVram"] BY <3>2, <1>0
    <3>4. th'[Main].pc = "pinVram" BY <3>3, <1>R
    <3> QED BY <3>4, <1>o
  <2> QED BY <2>1, <2>2
<1> QED
  BY <1>1, <1>2, <1>3, <1>4, <1>5, <1>6, <1>7, <1>8, <1>9 DEF Next, MainWork, Finished

LEMMA NoFailureNext ==
  ASSUME NoFailure, [Next]_vars, Workers = {}, ProbationaryCapacity < Capacity
  PROVE  NoFailure'
<1>1. SlotsInv' BY SlotsInvNext DEF NoFailure
<1>2. Full' BY <1>1, FullStep DEF NoFailure
<1>3. raised' = raised
  <2>1. CASE Get(Main) \/ Put(Main) BY <2>1, OperationsSucceed DEF NoFailure
  <2>2. CASE ~(Get(Main) \/ Put(Main))
    BY <2>2 DEF Next, MainWork, Finished, vars, Read, Promote, Issue, Awaited, PinVram,
       PinVramDone, PinRam, PinRamDone, Fetch, Predict, Await, RecordRouting, StepToken,
       ResetSession
  <2> QED BY <2>1, <2>2
<1> QED BY <1>1, <1>2, <1>3 DEF NoFailure

\* With no prefetch pool sharing the cache and at least one protected slot, no
\* fetch_expert ends in an exception: neither the pops and moves of cache.py
\* nor its assertion on the residency fail.
THEOREM FetchesSucceed ==
  ASSUME Workers = {}, ProbationaryCapacity < Capacity
  PROVE  Spec => []FetchSucceeds
<1>1. Init => NoFailure
  <2>1. ASSUME Init PROVE Full
    <3>1. th[Main].pc = "idle" BY <2>1 DEF Init, Threads, Rest
    <3> QED BY <3>1 DEF Full, PC
  <2> QED BY <2>1, SlotsInvInit DEF NoFailure, Init
<1>2. NoFailure /\ [Next]_vars => NoFailure' BY NoFailureNext
<1>3. NoFailure => FetchSucceeds BY DEF NoFailure, FetchSucceeds
<1> QED BY <1>1, <1>2, <1>3, PTL DEF Spec

-----------------------------------------------------------------------------
(***************************************************************************)
(* What stays warm.  The protected partition, oldest first, is the end of  *)
(* the list of distinct keys in order of their last hit; and it is the     *)
(* whole list or full, but for the slot a demotion has just made.          *)
(***************************************************************************)

IsEndOf(d, h) ==
  /\ Len(d) <= Len(h)
  /\ \A i \in 1..Len(d) : d[i] = h[Len(h) - Len(d) + i]

WarmInv ==
  /\ hits \in Dict /\ IsEndOf(protected, hits)
  /\ \/ Len(protected) = Len(hits)
     \/ Len(protected) >= ProtectedCapacity
     \/ PC({"demoted", "promote"}) /\ Len(protected) = ProtectedCapacity - 1

\* Where each element goes when one is taken out, or moved to the end.
LEMMA MovedPlaces ==
  ASSUME NEW d \in Dict, NEW n \in 1..Len(d)
  PROVE  /\ MoveToEnd(d, d[n]) \in Dict /\ Len(MoveToEnd(d, d[n])) = Len(d)
         /\ \A i \in 1..Len(d) : MoveToEnd(d, d[n])[i] =
              IF i < n THEN d[i] ELSE IF i < Len(d) THEN d[i + 1] ELSE d[n]
<1> DEFINE k == d[n]
           w == RemoveAt(d, n)
<1>0. d \in Seq(Keys) /\ DOMAIN d = 1..Len(d) /\ Len(d) \in Nat BY DEF Dict, Distinct
<1>1. k \in Keys /\ Has(d, k) BY <1>0 DEF Has, ToSet
<1>2. \A i \in DOMAIN d : d[i] = k => i = n BY <1>0 DEF Dict, Distinct, IsInjective
<1>3. (CHOOSE i \in DOMAIN d : d[i] = k) = n BY <1>0, <1>2
<1>4. Without(d, k) = w BY <1>3 DEF Without
<1>5. /\ MoveToEnd(d, k) = Append(w, k)
      /\ MoveToEnd(d, k) \in Dict /\ Len(MoveToEnd(d, k)) = Len(d)
  BY <1>1, <1>4, MoveToEndFacts DEF MoveToEnd
<1>6. /\ w \in Seq(Keys) /\ Len(w) = Len(d) - 1
      /\ \A i \in 1..(Len(d) - 1) : w[i] = IF i < n THEN d[i] ELSE d[i + 1]
  BY <1>0, TakenOut
<1> HIDE DEF w, k
<1>7. ASSUME NEW i \in 1..Len(d)
      PROVE  Append(w, k)[i] = IF i < n THEN d[i] ELSE IF i < Len(d) THEN d[i + 1] ELSE k
  BY <1>0, <1>6
<1> QED BY <1>5, <1>7 DEF k

\* The end of a dict keeps its own element at the place it has in the whole.
LEMMA PlaceInEnd ==
  ASSUME NEW d \in Dict, NEW h \in Dict, IsEndOf(d, h), NEW k \in Keys, Has(d, k)
  PROVE  /\ Has(h, k)
         /\ MoveToEnd(d, k) \in Dict /\ MoveToEnd(h, k) \in Dict
         /\ Len(MoveToEnd(d, k)) = Len(d) /\ Len(MoveToEnd(h, k)) = Len(h)
         /\ IsEndOf(MoveToEnd(d, k), MoveToEnd(h, k))
<1>0. /\ d \in Seq(Keys) /\ DOMAIN d = 1..Len(d) /\ Len(d) \in Nat
      /\ h \in Seq(Keys) /\ DOMAIN h = 1..Len(h) /\ Len(h) \in Nat
      /\ Len(d) <= Len(h) /\ \A i \in 1..Len(d) : d[i] = h[Len(h) - Len(d) + i]
  BY DEF Dict, Distinct, IsEndOf
<1>1. PICK n \in 1..Len(d) : d[n] = k BY <1>0 DEF Has, ToSet
<1> DEFINE z == Len(h) - Len(d)
           D == MoveToEnd(d, k)
           H == MoveToEnd(h, k)
<1>2. z + n \in 1..Len(h) /\ h[z + n] = k BY <1>0, <1>1
<1>3. Has(h, k) BY <1>0, <1>2 DEF Has, ToSet
<1>4. /\ D \in Dict /\ Len(D) = Len(d)
      /\ \A i \in 1..Len(d) : D[i] = IF i < n THEN d[i] ELSE IF i < Len(d) THEN d[i + 1] ELSE k
  BY <1>1, MovedPlaces
<1>5. /\ H \in Dict /\ Len(H) = Len(h)
      /\ \A i \in 1..Len(h) : H[i] = IF i < z + n THEN h[i] ELSE IF i < Len(h) THEN h[i + 1] ELSE k
  BY <1>2, MovedPlaces
<1> HIDE DEF D, H
<1>6. ASSUME NEW i \in 1..Len(d) PROVE D[i] = H[z + i]
  <2>1. z + i \in 1..Len(h) /\ d[i] = h[z + i] /\ (i < n <=> z + i < z + n)
        /\ (i < Len(d) <=> z + i < Len(h)) BY <1>0
  <2>2. i < Len(d) => d[i + 1] = h[z + i + 1] BY <1>0
  <2>3. H[z + i] = IF z + i < z + n THEN h[z + i] ELSE IF z + i < Len(h) THEN h[z + i + 1] ELSE k
    BY <1>5, <2>1
  <2> QED BY <2>1, <2>2, <2>3, <1>4
<1>7. IsEndOf(D, H) BY <1>4, <1>5, <1>6, <1>0 DEF IsEndOf
<1> QED BY <1>3, <1>4, <1>5, <1>7 DEF D, H

\* What a hit makes of the list of keys by their last hit.
Hit(h, k) == IF Has(h, k) THEN MoveToEnd(h, k) ELSE Append(h, k)

\* A key promoted to the end follows the end into the list.
LEMMA PromotedToEnd ==
  ASSUME NEW d \in Dict, NEW h \in Dict, IsEndOf(d, h), NEW k \in Keys, ~Has(d, k)
  PROVE  /\ Hit(h, k) \in Dict
         /\ IsEndOf(Append(d, k), Hit(h, k))
         /\ Len(Append(d, k)) = Len(d) + 1
         /\ Len(Hit(h, k)) = IF Has(h, k) THEN Len(h) ELSE Len(h) + 1
         /\ Len(d) = Len(h) => ~Has(h, k)
<1>0. /\ d \in Seq(Keys) /\ DOMAIN d = 1..Len(d) /\ Len(d) \in Nat
      /\ h \in Seq(Keys) /\ DOMAIN h = 1..Len(h) /\ Len(h) \in Nat
      /\ Len(d) <= Len(h) /\ \A i \in 1..Len(d) : d[i] = h[Len(h) - Len(d) + i]
  BY DEF Dict, Distinct, IsEndOf
<1> DEFINE z == Len(h) - Len(d)
           D == Append(d, k)
<1>1. Len(D) = Len(d) + 1 /\ D[Len(d) + 1] = k /\ \A i \in 1..Len(d) : D[i] = d[i] BY <1>0
<1> HIDE DEF D
<1>2. CASE Has(h, k)
  <2> DEFINE H == MoveToEnd(h, k)
  <2>1. PICK n \in 1..Len(h) : h[n] = k BY <1>0, <1>2 DEF Has, ToSet
  <2>2. n <= z
    <3> SUFFICES ASSUME ~(n <= z) PROVE FALSE OBVIOUS
    <3>1. n - z \in 1..Len(d) /\ z + (n - z) = n BY <1>0
    <3>2. d[n - z] = k BY <1>0, <3>1, <2>1
    <3> QED BY <1>0, <3>1, <3>2 DEF Has, ToSet
  <2>3. /\ H \in Dict /\ Len(H) = Len(h)
        /\ \A i \in 1..Len(h) : H[i] = IF i < n THEN h[i] ELSE IF i < Len(h) THEN h[i + 1] ELSE k
    BY <2>1, MovedPlaces
  <2> HIDE DEF H
  <2>4. ASSUME NEW i \in 1..(Len(d) + 1) PROVE D[i] = H[Len(h) - (Len(d) + 1) + i]
    <3> DEFINE j == Len(h) - (Len(d) + 1) + i
    <3>1. j \in 1..Len(h) /\ ~(j < n) BY <1>0, <2>1, <2>2
    <3>2. H[j] = IF j < Len(h) THEN h[j + 1] ELSE k BY <2>3, <3>1
    <3>3. CASE i = Len(d) + 1 BY <3>1, <3>2, <3>3, <1>0, <1>1
    <3>4. CASE i < Len(d) + 1
      <4>1. j < Len(h) /\ j + 1 = Len(h) - Len(d) + i /\ i \in 1..Len(d) BY <3>4, <1>0
      <4>2. h[j + 1] = d[i] BY <4>1, <1>0
      <4> QED BY <4>1, <4>2, <3>2, <1>1
    <3> QED BY <3>3, <3>4, <1>0
  <2>5. Len(d) + 1 <= Len(h) BY <1>0, <2>1, <2>2
  <2>6. IsEndOf(D, H) BY <2>3, <2>4, <2>5, <1>1 DEF IsEndOf
  <2> QED BY <2>3, <2>5, <2>6, <1>1, <1>2 DEF Hit, D, H
<1>3. CASE ~Has(h, k)
  <2> DEFINE H == Append(h, k)
  <2>1. H \in Dict BY <1>3, AppendedKey
  <2>2. Len(H) = Len(h) + 1 /\ H[Len(h) + 1] = k /\ \A i \in 1..Len(h) : H[i] = h[i] BY <1>0
  <2> HIDE DEF H
  <2>3. ASSUME NEW i \in 1..(Len(d) + 1) PROVE D[i] = H[(Len(h) + 1) - (Len(d) + 1) + i]
    <3>1. (Len(h) + 1) - (Len(d) + 1) + i = z + i BY <1>0
    <3>2. CASE i = Len(d) + 1
      <4>1. z + i = Len(h) + 1 BY <3>2, <1>0
      <4> QED BY <4>1, <3>1, <3>2, <1>1, <2>2
    <3>3. CASE i \in 1..Len(d)
      <4>1. z + i \in 1..Len(h) /\ d[i] = h[z + i] BY <3>3, <1>0
      <4> QED BY <4>1, <3>1, <3>3, <1>1, <2>2
    <3> QED BY <3>2, <3>3, <1>0
  <2>4. IsEndOf(D, H) BY <2>2, <2>3, <1>0, <1>1 DEF IsEndOf
  <2> QED BY <2>1, <2>2, <2>4, <1>1, <1>3 DEF Hit, D, H
<1> QED BY <1>2, <1>3

\* The end of a list without its first element is still its end.
LEMMA TailOfEnd ==
  ASSUME NEW d \in Dict, NEW h \in Dict, IsEndOf(d, h), d # <<>>
  PROVE  IsEndOf(Tail(d), h) /\ Len(Tail(d)) = Len(d) - 1
<1>0. /\ d \in Seq(Keys) /\ Len(d) \in Nat \ {0} /\ h \in Seq(Keys) /\ Len(h) \in Nat
      /\ Len(d) <= Len(h) /\ \A i \in 1..Len(d) : d[i] = h[Len(h) - Len(d) + i]
  BY DEF Dict, Distinct, IsEndOf
<1> DEFINE D == Tail(d)
<1>1. Len(D) = Len(d) - 1 /\ \A i \in 1..(Len(d) - 1) : D[i] = d[i + 1] BY <1>0
<1> HIDE DEF D
<1>2. ASSUME NEW i \in 1..(Len(d) - 1) PROVE D[i] = h[Len(h) - (Len(d) - 1) + i]
  <2>1. i + 1 \in 1..Len(d) /\ Len(h) - (Len(d) - 1) + i = Len(h) - Len(d) + (i + 1) BY <1>0
  <2> QED BY <2>1, <1>0, <1>1
<1> QED BY <1>0, <1>1, <1>2 DEF IsEndOf, D

LEMMA WarmGet ==
  ASSUME SlotsInv, Full, WarmInv, Get(Main)
  PROVE  WarmInv'
<1> USE ExpertRuntimeAssumption DEF At, Key, InCold, InWarm
<1> DEFINE k == th[Main].key
           E == Len(protected) = Len(hits) \/ Len(protected) >= ProtectedCapacity
<1>0. /\ Main \in Threads /\ th \in [Threads -> ThreadType] /\ KeyPlace /\ Room
      /\ Len(protected) <= ProtectedCapacity
      /\ protected \in Dict /\ hits \in Dict /\ IsEndOf(protected, hits)
      /\ Len(protected) \in Nat /\ Len(hits) \in Nat /\ ProtectedCapacity \in Nat
  <2>1. Types /\ KeyPlace /\ Room /\ ResidencyBounded BY DEF SlotsInv
  <2>2. Main \in Threads /\ th \in [Threads -> ThreadType] /\ protected \in Dict
    BY <2>1 DEF Types, Threads
  <2>3. hits \in Dict /\ IsEndOf(protected, hits) BY DEF WarmInv
  <2>4. Len(protected) <= ProtectedCapacity BY <2>1 DEF ResidencyBounded
  <2> QED BY <2>1, <2>2, <2>3, <2>4, DictLen, ProtectedSlots
<1>p. ProtectedCapacity' = ProtectedCapacity BY DEF ProtectedCapacity
<1>e. ~PC({"demoted", "promote"}) => E BY DEF WarmInv
<1>q. ASSUME UNCHANGED <<protected, hits>>, E PROVE WarmInv'
  <2>1. hits' \in Dict BY <1>0, <1>q
  <2>2. IsEndOf(protected, hits)' BY <1>0, <1>q DEF IsEndOf
  <2>3. E' BY <1>q, <1>p
  <2> QED BY <2>1, <2>2, <2>3 DEF WarmInv
<1> HIDE DEF E
<1>1. CASE LookProtected(Main) \/ ReadWarm(Main) \/ LookProbationary(Main) \/ PopHit(Main) \/ CheckRoom(Main)
  <2>1. UNCHANGED <<protected, hits>>
    BY <1>1 DEF LookProtected, ReadWarm, LookProbationary, PopHit, CheckRoom, cache
  <2>2. ~PC({"demoted", "promote"})
    BY <1>1 DEF LookProtected, ReadWarm, LookProbationary, PopHit, CheckRoom, PC
  <2> QED BY <2>1, <2>2, <1>q, <1>e
<1>2. CASE Refresh(Main)
  <2>1. k \in Keys /\ Has(protected, k) BY <1>0, <1>2 DEF Refresh, KeyPlace, Outside, PC
  <2>2. protected' = MoveToEnd(protected, k) /\ Counted(k) BY <2>1, <1>2 DEF Refresh
  <2>3. /\ Has(hits, k) /\ MoveToEnd(hits, k) \in Dict
        /\ Len(MoveToEnd(protected, k)) = Len(protected) /\ Len(MoveToEnd(hits, k)) = Len(hits)
        /\ IsEndOf(MoveToEnd(protected, k), MoveToEnd(hits, k))
    BY <2>1, <1>0, PlaceInEnd
  <2>4. hits' = MoveToEnd(hits, k) BY <2>2, <2>3 DEF Counted
  <2>5. E BY <1>2, <1>e DEF Refresh, PC
  <2>6. hits' \in Dict /\ IsEndOf(protected', hits') BY <2>2, <2>3, <2>4
  <2>7. Len(protected') = Len(protected) /\ Len(hits') = Len(hits) BY <2>2, <2>3, <2>4
  <2>8. Len(protected') = Len(hits') \/ Len(protected') >= ProtectedCapacity BY <2>5, <2>7 DEF E
  <2> QED BY <2>6, <2>8, <1>p DEF WarmInv, IsEndOf
<1>3. CASE Demote(Main)
  <2>0. UNCHANGED hits BY <1>3 DEF Demote
  <2>1. E /\ Len(protected) >= ProtectedCapacity BY <1>3, <1>e DEF Demote, PC, Full
  <2>2. CASE protected = <<>>
    <3>1. UNCHANGED protected BY <2>2, <1>3 DEF Demote
    <3> QED BY <2>0, <2>1, <3>1, <1>q
  <2>3. CASE protected # <<>>
    <3>1. /\ protected' = Tail(protected)
          /\ th' = [th EXCEPT ![Main].pc = "demoted", ![Main].demoted = Head(protected)]
      BY <2>3, <1>3 DEF Demote
    <3>2. th'[Main].pc = "demoted" BY <3>1, <1>0 DEF ThreadType
    <3>3. IsEndOf(Tail(protected), hits) /\ Len(Tail(protected)) = Len(protected) - 1
      BY <1>0, <2>3, TailOfEnd
    <3>5. Len(protected) = ProtectedCapacity BY <1>0, <2>1
    <3>4. Len(protected') = ProtectedCapacity - 1 BY <3>1, <3>3, <3>5
    <3> QED BY <1>0, <1>p, <2>0, <3>1, <3>2, <3>3, <3>4 DEF WarmInv, PC, IsEndOf
  <2> QED BY <2>2, <2>3
<1>4. CASE PutDemoted(Main)
  <2>1. /\ UNCHANGED <<protected, hits>>
        /\ th' = [th EXCEPT ![Main].pc = "promote", ![Main].demoted = Main]
    BY <1>4 DEF PutDemoted
  <2>2. th'[Main].pc = "promote" BY <2>1, <1>0 DEF ThreadType
  <2> QED BY <2>1, <2>2, <1>p DEF WarmInv, PC, IsEndOf
<1>5. CASE PromoteHit(Main)
  <2>1. k \in Keys /\ ~Has(protected, k) /\ Len(protected) < ProtectedCapacity
    BY <1>0, <1>5 DEF PromoteHit, KeyPlace, Outside, PC, Room
  <2>2. protected' = Append(protected, k) /\ hits' = Hit(hits, k)
    BY <2>1, <1>5 DEF PromoteHit, Insert, Counted, Hit
  <2>3. /\ hits' \in Dict /\ IsEndOf(protected', hits') /\ Len(protected') = Len(protected) + 1
        /\ Len(hits') = IF Has(hits, k) THEN Len(hits) ELSE Len(hits) + 1
        /\ Len(protected) = Len(hits) => ~Has(hits, k)
    BY <2>1, <2>2, <1>0, PromotedToEnd
  <2>4. Len(protected) = Len(hits) \/ Len(protected) = ProtectedCapacity - 1
    BY <2>1, <1>0 DEF WarmInv
  <2>5. Len(protected') = Len(hits') \/ Len(protected') >= ProtectedCapacity
    BY <2>3, <2>4, <1>0
  <2> QED BY <2>3, <2>5, <1>p DEF WarmInv, IsEndOf
<1> QED BY <1>1, <1>2, <1>3, <1>4, <1>5 DEF Get

LEMMA WarmNext ==
  ASSUME SlotsInv, Full, WarmInv, [Next]_vars, Workers = {}
  PROVE  WarmInv'
<1>p. ProtectedCapacity' = ProtectedCapacity BY DEF ProtectedCapacity
<1>q. ASSUME UNCHANGED <<protected, hits>>, ~PC({"demoted", "promote"}) \/ UNCHANGED th PROVE WarmInv'
  BY <1>q, <1>p DEF WarmInv, IsEndOf, PC
<1>1. CASE Get(Main) BY <1>1, WarmGet
<1>2. CASE StoreWarm(Main)
  <2>1. Has(protected, Key(Main)) BY <1>2 DEF StoreWarm, SlotsInv, KeyPlace, PC, At, InWarm
  <2>2. UNCHANGED <<protected, hits>> BY <2>1, <1>2 DEF StoreWarm, Insert
  <2> QED BY <2>2, <1>2, <1>q DEF StoreWarm, At, PC
<1>3. CASE Put(Main) /\ ~StoreWarm(Main)
  <2>1. \/ LookForWarm(Main) \/ LookForCold(Main) \/ LookToStore(Main) \/ StoreCold(Main)
        \/ CheckFull(Main) \/ Evict(Main) \/ InsertCold(Main) \/ CountCold(Main) \/ AssertBound(Main)
    BY <1>3 DEF Put
  <2>2. UNCHANGED <<protected, hits>>
    BY <2>1 DEF LookForWarm, LookForCold, LookToStore, StoreCold, CheckFull, Evict, InsertCold,
       CountCold, AssertBound, cache
  <2>3. ~PC({"demoted", "promote"})
    BY <2>1 DEF LookForWarm, LookForCold, LookToStore, StoreCold, CheckFull, Evict, InsertCold,
       CountCold, AssertBound, At, PC
  <2> QED BY <2>2, <2>3, <1>q
<1>4. CASE Read(Main) \/ Promote \/ Issue \/ Awaited \/ PinVram \/ PinVramDone \/ PinRam \/ PinRamDone
  <2>1. UNCHANGED <<protected, hits>>
    BY <1>4 DEF Read, Promote, Issue, Awaited, PinVram, PinVramDone, PinRam, PinRamDone, cache
  <2>2. ~PC({"demoted", "promote"})
    BY <1>4 DEF Read, Promote, Issue, Awaited, PinVram, PinVramDone, PinRam, PinRamDone, At, PC
  <2> QED BY <2>1, <2>2, <1>q
<1>5. ASSUME NEW k \in Keys, Fetch(k) \/ Predict(k) \/ Await(k) \/ RecordRouting(k) PROVE WarmInv'
  <2>1. UNCHANGED <<protected, hits>> /\ At(Main, "idle")
    BY <1>5 DEF Fetch, Predict, Await, RecordRouting, cache, MainCalls
  <2> QED BY <2>1, <1>q DEF At, PC
<1>6. CASE StepToken \/ ResetSession
  <2>1. UNCHANGED <<protected, hits>> /\ At(Main, "idle")
    BY <1>6 DEF StepToken, ResetSession, cache, MainCalls
  <2> QED BY <2>1, <1>q DEF At, PC
<1>7. CASE UNCHANGED vars BY <1>7, <1>q DEF vars, cache
<1>8. CASE MainWork BY <1>8, <1>1, <1>2, <1>3, <1>4 DEF MainWork
<1> QED BY <1>5, <1>6, <1>7, <1>8 DEF Next, Finished

\* With no prefetch pool sharing the cache, however many cold experts are
\* fetched once, as many of the experts hit last as there are protected slots
\* are still resident when fetch_expert has returned (cache.py:21, "A cold
\* expert fetched once cannot evict a frequently used warm expert").
THEOREM HitExpertsStayWarm ==
  ASSUME Workers = {}
  PROVE  Spec => []WarmStays
<1>1. Init => Full /\ WarmInv
  <2> SUFFICES ASSUME Init PROVE Full /\ WarmInv OBVIOUS
  <2>1. th[Main].pc = "idle" BY DEF Init, Threads, Rest
  <2>2. Full BY <2>1 DEF Full, PC
  <2>3. protected = <<>> /\ hits = <<>> BY DEF Init
  <2> QED BY <2>2, <2>3, EmptyDict DEF WarmInv, IsEndOf
<1>2. SlotsInv /\ Full /\ WarmInv /\ [Next]_vars => SlotsInv' /\ Full' /\ WarmInv'
  BY SlotsInvNext, FullStep, WarmNext
<1>3. SlotsInv /\ WarmInv => WarmStays
  <2> SUFFICES ASSUME SlotsInv, WarmInv, At(Main, "idle"),
                      NEW i \in DOMAIN hits, i > Len(hits) - ProtectedCapacity
               PROVE  Has(protected, hits[i])
    BY DEF WarmStays
  <2>1. /\ protected \in Seq(Keys) /\ Len(protected) \in Nat /\ DOMAIN protected = 1..Len(protected)
        /\ hits \in Seq(Keys) /\ Len(hits) \in Nat /\ i \in 1..Len(hits)
        /\ ProtectedCapacity \in Nat
    <3>1. protected \in Dict /\ hits \in Dict BY DEF SlotsInv, Types, WarmInv
    <3> QED BY <3>1, DictLen, ProtectedSlots
  <2>2. Len(protected) = Len(hits) \/ Len(protected) >= ProtectedCapacity
    BY DEF WarmInv, PC, At
  <2>3. /\ Len(protected) <= Len(hits)
        /\ \A j \in 1..Len(protected) : protected[j] = hits[Len(hits) - Len(protected) + j]
    BY DEF WarmInv, IsEndOf
  <2> DEFINE j == i - (Len(hits) - Len(protected))
  <2>4. j \in 1..Len(protected) /\ Len(hits) - Len(protected) + j = i BY <2>1, <2>2, <2>3
  <2>5. protected[j] = hits[i] BY <2>3, <2>4
  <2> HIDE DEF j
  <2> QED BY <2>1, <2>4, <2>5 DEF Has, ToSet
<1> QED BY <1>1, <1>2, <1>3, SlotsInvInit, PTL DEF Spec

-----------------------------------------------------------------------------
(***************************************************************************)
(* What the session adapter pins.  It goes through its agenda twice: what  *)
(* the first loop fetches is in VRAM; what the second looks up in RAM is   *)
(* warm as long as the loop lasts, because it looks up no more experts     *)
(* than there are protected slots and each goes to the end.                *)
(***************************************************************************)

\* The loops of the session adapter; the steps of get.
Pins == {"pinVram", "pinRam"}
Getting == {"get", "refresh", "readWarm", "lookCold", "pop", "room", "demote", "demoted", "promote"}

\* How many experts are pinned, and up to which place of the agenda its experts
\* have been looked up in RAM.
PinnedCount == Cardinality(session.pinned)
TouchedTo == IF th[Main].pc = "readWarm" THEN agenda.next ELSE agenda.next - 1

\* Who called the operation Main is in, and with which expert.
Callbacks ==
  LET m == th[Main] IN
  /\ m.pc \in {"idle", "issue", "await"} => m.caller \notin Pins
  /\ m.pc \in Pins => m.caller = m.pc
  /\ m.caller = "pinRam" => m.pc \in Getting \union {"pinRam"} /\ ~m.nested
  /\ m.caller \in Pins /\ m.pc \notin Pins =>
       agenda.next <= agenda.last /\ m.key = agenda.order[agenda.next]

\* A session pins once.
Unpinned == th[Main].caller \notin Pins => session.frozen \/ session.pinned = {}

\* The experts pinned are those the first loop is done with.
InVram ==
  /\ session.pinned \subseteq hot
  /\ th[Main].caller = "pinVram" =>
       /\ agenda.order \in Distinct(Keys) /\ agenda.next <= agenda.last + 1
       /\ session.pinned = {agenda.order[i] : i \in 1..(agenda.next - 1)}

\* An expert looked up in RAM is not on probation: as many places from the end
\* of protected as there were look-ups, it is not what a look-up demotes.
StaysWarm(i) ==
  LET k == agenda.order[i] IN
  /\ ~Has(probationary, k)
  /\ \A p \in 1..Len(protected) : protected[p] = k => Len(protected) - p < TouchedTo - PinnedCount
  /\ th[Main].pc = "demoted" => th[Main].demoted # k

InRam ==
  th[Main].caller = "pinRam" =>
    /\ PinnedCount < agenda.next /\ agenda.last <= PinnedCount + ProtectedCapacity
    /\ \A i \in 1..Len(agenda.order) : i <= PinnedCount => agenda.order[i] \in hot
    /\ \A i \in (PinnedCount + 1)..TouchedTo : StaysWarm(i)

PinInv == Callbacks /\ Unpinned /\ InVram /\ InRam

\* No step of get or put raises, so each keeps to its call: the pins and the
\* agenda stay, unless get returns to the loop over the agenda.
LEMMA OperationsGoOn ==
  ASSUME SlotsInv, Full, ProbationaryCapacity < Capacity, Get(Main) \/ Put(Main)
  PROVE  /\ UNCHANGED <<hot, session>> /\ ~PC(Outside)
         /\ th'[Main].key = th[Main].key /\ th'[Main].caller = th[Main].caller
         /\ th[Main].caller # "pinRam" => UNCHANGED agenda /\ th'[Main].pc \notin Outside
<1> USE ExpertRuntimeAssumption DEF At, Key, PC, InCold, InWarm, cache, gpu, pins, pool
<1> DEFINE k == th[Main].key
           m == th[Main]
           GoesOn == /\ m'.key = m.key /\ m'.caller = m.caller
                     /\ m.caller # "pinRam" => UNCHANGED agenda /\ m'.pc \notin Outside
<1>0. /\ KeyPlace /\ Room /\ ResidencyBounded /\ Main \in Threads /\ Types
      /\ probationary \in Dict /\ protected \in Dict
      /\ Len(probationary) \in Nat /\ Len(protected) \in Nat /\ ProtectedCapacity \in Nat \ {0}
      /\ m \in ThreadType /\ th \in [Threads -> ThreadType]
  <2>1. Types /\ KeyPlace /\ Room /\ ResidencyBounded BY DEF SlotsInv
  <2>2. /\ Main \in Threads /\ th \in [Threads -> ThreadType] /\ m \in ThreadType
        /\ probationary \in Dict /\ protected \in Dict
    BY <2>1 DEF Types, Threads
  <2>3. ProtectedCapacity \in Nat \ {0} BY DEF ProtectedCapacity
  <2> QED BY <2>1, <2>2, <2>3, DictLen
<1>o. ~PC(Outside)
  BY DEF Get, Put, LookProtected, Refresh, ReadWarm, LookProbationary, PopHit, CheckRoom, Demote,
         PutDemoted, PromoteHit, LookForWarm, LookForCold, LookToStore, StoreWarm, StoreCold,
         CheckFull, Evict, InsertCold, CountCold, AssertBound, Outside
<1>h. UNCHANGED <<hot, session>>
  BY DEF Get, Put, LookProtected, Refresh, ReadWarm, LookProbationary, PopHit, CheckRoom, Demote,
         PutDemoted, PromoteHit, LookForWarm, LookForCold, LookToStore, StoreWarm, StoreCold,
         CheckFull, Evict, InsertCold, CountCold, AssertBound
<1>g. ASSUME NEW p \in PCs \ Outside, Goto(Main, p), UNCHANGED agenda PROVE GoesOn
  BY <1>0, <1>g DEF Goto, ThreadType
<1>a. ASSUME NEW found \in BOOLEAN, AfterGet(Main, found) PROVE GoesOn
  <2>1. m' = [m EXCEPT !.pc = m'.pc]
    BY <1>0, <1>o, <1>a, AfterGetFacts DEF PC
  <2>2. m'.key = m.key /\ m'.caller = m.caller BY <2>1, <1>0 DEF ThreadType
  <2>3. ASSUME m.caller # "pinRam" PROVE UNCHANGED agenda /\ m'.pc \notin Outside
    <3>1. /\ UNCHANGED agenda
          /\ Goto(Main, "store") \/ Goto(Main, "promoted") \/ Goto(Main, "read")
      BY <1>a, <2>3 DEF AfterGet, NoRaise
    <3> QED BY <3>1, <1>0 DEF Goto, ThreadType, Outside
  <2> QED BY <2>2, <2>3
<1>t. ASSUME Return(Main), UNCHANGED agenda PROVE GoesOn
  BY <1>0, <1>t, ReturnFacts DEF ThreadType, Outside
<1> SUFFICES GoesOn BY <1>o, <1>h
<1> HIDE DEF GoesOn
<1>1. CASE LookProtected(Main) BY <1>1, <1>g DEF LookProtected, PCs, Outside
<1>2. CASE Refresh(Main)
  <2>1. Has(protected, k) BY <1>0, <1>2 DEF Refresh, KeyPlace
  <2> QED BY <2>1, <1>2, <1>g DEF Refresh, NoRaise, PCs, Outside
<1>3. CASE ReadWarm(Main)
  <2>1. Has(protected, k) BY <1>0, <1>3 DEF ReadWarm, KeyPlace
  <2> QED BY <2>1, <1>3, <1>a DEF ReadWarm
<1>4. CASE LookProbationary(Main) BY <1>4, <1>a, <1>g DEF LookProbationary, NoRaise, PCs, Outside
<1>5. CASE PopHit(Main)
  <2>1. Has(probationary, k) BY <1>0, <1>5 DEF PopHit, KeyPlace
  <2> QED BY <2>1, <1>5, <1>g DEF PopHit, NoRaise, PCs, Outside
<1>6. CASE CheckRoom(Main) BY <1>6, <1>g DEF CheckRoom, PCs, Outside
<1>7. CASE Demote(Main)
  <2>1. Len(protected) >= ProtectedCapacity BY <1>7 DEF Demote, Full
  <2>2. protected # <<>> BY <1>0, <2>1, EmptyDict
  <2>3. /\ th' = [th EXCEPT ![Main].pc = "demoted", ![Main].demoted = Head(protected)]
        /\ UNCHANGED agenda
    BY <2>2, <1>7 DEF Demote, NoRaise
  <2> QED BY <2>3, <1>0 DEF ThreadType, Outside, GoesOn
<1>8. CASE PutDemoted(Main) BY <1>8, <1>0 DEF PutDemoted, ThreadType, Outside, GoesOn
<1>9. CASE PromoteHit(Main) BY <1>9, <1>a DEF PromoteHit
<1>b. CASE LookForWarm(Main) \/ LookForCold(Main)
  BY <1>b, <1>0 DEF LookForWarm, LookForCold, ThreadType, Outside, GoesOn
<1>c. CASE LookToStore(Main) \/ CheckFull(Main) \/ InsertCold(Main)
  BY <1>c, <1>g DEF LookToStore, CheckFull, InsertCold, PCs, Outside
<1>d. CASE Evict(Main)
  <2>1. Len(probationary) >= ProbationaryCapacity BY <1>d DEF Evict, Full
  <2>2. probationary # <<>> BY <1>0, <2>1, EmptyDict
  <2> QED BY <2>2, <1>d, <1>g DEF Evict, NoRaise, PCs, Outside
<1>e. CASE StoreWarm(Main) \/ StoreCold(Main) BY <1>e, <1>t DEF StoreWarm, StoreCold
<1>f. CASE CountCold(Main) BY <1>f, <1>0 DEF CountCold, ThreadType, Outside, GoesOn
<1>i. CASE AssertBound(Main)
  <2>1. th[Main].seen = Len(probationary) BY <1>i DEF AssertBound, Full
  <2>2. th[Main].seen + Len(protected) <= Capacity
    BY <1>0, <2>1 DEF ResidencyBounded, ProtectedCapacity
  <2> QED BY <2>2, <1>i, <1>t DEF AssertBound
<1>j. CASE Get(Main)
  BY <1>j, <1>1, <1>2, <1>3, <1>4, <1>5, <1>6, <1>7, <1>8, <1>9 DEF Get
<1>p. CASE Put(Main) BY <1>p, <1>b, <1>c, <1>d, <1>e, <1>f, <1>i DEF Put
<1> QED BY <1>j, <1>p

\* The adapter's loop looks up the next expert of its agenda, with get.
LEMMA PinRamGet ==
  ASSUME SlotsInv, SlotsInv', Full, ProbationaryCapacity < Capacity, PinInv,
         th[Main].caller = "pinRam", Get(Main)
  PROVE  PinInv'
<1> USE DEF At, Key
<1> DEFINE m == th[Main]
           k == th[Main].key
           n == PinnedCount
           O == agenda.order
           Next1 == agenda.next
<1>0. /\ Main \in Threads /\ th \in [Threads -> ThreadType] /\ m \in ThreadType
      /\ agenda \in AgendaType /\ agenda.last <= Len(O) /\ O \in Seq(Keys) /\ Next1 \in Nat \ {0}
      /\ agenda.last \in Nat /\ Len(O) \in Nat
      /\ KeyPlace /\ Room /\ ResidencyBounded
      /\ probationary \in Dict /\ protected \in Dict /\ protected \in Seq(Keys)
      /\ Len(protected) \in Nat /\ ProtectedCapacity \in Nat \ {0}
      /\ session \in SessionType
  <2>1. Types /\ KeyPlace /\ Room /\ ResidencyBounded BY DEF SlotsInv
  <2>2. /\ Main \in Threads /\ th \in [Threads -> ThreadType] /\ m \in ThreadType
        /\ agenda \in AgendaType /\ agenda.last <= Len(O)
        /\ probationary \in Dict /\ protected \in Dict /\ session \in SessionType
    BY <2>1 DEF Types, Threads, AgendaType, SessionType
  <2>3. O \in Seq(Keys) /\ Next1 \in Nat \ {0} /\ agenda.last \in Nat BY <2>2 DEF AgendaType
  <2>4. ProtectedCapacity \in Nat \ {0} BY ExpertRuntimeAssumption DEF ProtectedCapacity
  <2>5. Len(O) \in Nat BY <2>3
  <2> QED BY <2>1, <2>2, <2>3, <2>4, <2>5, DictLen
<1>n. n \in Nat /\ n' = n
  <2>1. session' = session BY OperationsGoOn
  <2>2. IsFiniteSet(session.pinned) BY <1>0, FS_Subset, ExpertRuntimeAssumption DEF SessionType
  <2> QED BY <2>1, <2>2, FS_CardinalityType DEF PinnedCount
<1>1. /\ m.pc \in Getting /\ ~m.nested /\ Next1 <= agenda.last /\ k = O[Next1]
      /\ session.pinned \subseteq hot
      /\ n < Next1 /\ agenda.last <= n + ProtectedCapacity
      /\ \A i \in 1..Len(O) : i <= n => O[i] \in hot
      /\ \A i \in (n + 1)..TouchedTo : StaysWarm(i)
  <2>1. m.pc \notin Outside BY OperationsGoOn DEF PC
  <2> QED BY <2>1 DEF PinInv, Callbacks, InVram, InRam, Pins, Outside
<1>2. /\ UNCHANGED <<hot, session>> /\ m'.key = k /\ m'.caller = "pinRam"
  BY OperationsGoOn
<1>p. ProtectedCapacity' = ProtectedCapacity BY DEF ProtectedCapacity
<1>T. TouchedTo = IF m.pc = "readWarm" THEN Next1 ELSE Next1 - 1 BY DEF TouchedTo
\* It goes on in get, or returns to the loop, which goes on to the next expert.
<1>g. ASSUME m'.pc \in Getting, m'.nested = m.nested, UNCHANGED agenda,
             \A i \in (n + 1)..TouchedTo' : StaysWarm(i)'
      PROVE  PinInv'
  <2>1. Callbacks' BY <1>g, <1>1, <1>2 DEF Callbacks, Pins, Getting
  <2>2. Unpinned' /\ InVram' BY <1>1, <1>2 DEF Unpinned, InVram, Pins
  <2>3. InRam' BY <1>g, <1>1, <1>2, <1>n, <1>p DEF InRam
  <2> QED BY <2>1, <2>2, <2>3 DEF PinInv
<1>a. ASSUME NEW found \in BOOLEAN, AfterGet(Main, found),
             \A i \in (n + 1)..Next1 : StaysWarm(i)'
      PROVE  PinInv'
  <2>1. agenda' = [agenda EXCEPT !.next = @ + 1] /\ Goto(Main, "pinRam")
    BY <1>a, <1>1 DEF AfterGet
  <2>2. /\ agenda'.next = Next1 + 1 /\ agenda'.last = agenda.last /\ agenda'.order = O
        /\ m'.pc = "pinRam" /\ m'.nested = m.nested
    BY <2>1, <1>0 DEF Goto, AgendaType, ThreadType
  <2>3. TouchedTo' = Next1 BY <2>2, <1>0 DEF TouchedTo
  <2>4. Callbacks' BY <2>2, <1>1, <1>2 DEF Callbacks, Pins, Getting
  <2>5. Unpinned' /\ InVram' BY <1>1, <1>2 DEF Unpinned, InVram, Pins
  <2>6. InRam' BY <1>a, <2>2, <2>3, <1>0, <1>1, <1>2, <1>n, <1>p DEF InRam
  <2> QED BY <2>4, <2>5, <2>6 DEF PinInv
\* Nothing comes on probation, and protected stays.
<1>q. ASSUME ToSet(probationary') \subseteq ToSet(probationary), protected' = protected,
             agenda'.order = O, m'.pc # "demoted", NEW i \in (n + 1)..TouchedTo,
             TouchedTo' = TouchedTo
      PROVE  StaysWarm(i)'
  BY <1>q, <1>1, <1>n DEF StaysWarm, Has
<1>3. CASE LookProtected(Main)
  <2>1. /\ UNCHANGED <<probationary, protected, agenda>> /\ m.pc = "get"
        /\ Goto(Main, "refresh") \/ Goto(Main, "lookCold")
    BY <1>3 DEF LookProtected, cache, pins
  <2>2. m'.pc \in {"refresh", "lookCold"} /\ m'.nested = m.nested
    BY <2>1, <1>0 DEF Goto, ThreadType
  <2>3. TouchedTo' = TouchedTo BY <2>1, <2>2 DEF TouchedTo
  <2> QED BY <2>1, <2>2, <2>3, <1>q, <1>g DEF Getting
<1>4. CASE Refresh(Main)
  <2>1. Has(protected, k) BY <1>0, <1>4 DEF Refresh, KeyPlace, PC, InWarm
  <2>2. /\ protected' = MoveToEnd(protected, k) /\ Goto(Main, "readWarm")
        /\ UNCHANGED <<probationary, agenda>> /\ m.pc = "refresh"
    BY <2>1, <1>4 DEF Refresh, NoRaise
  <2>3. m'.pc = "readWarm" /\ m'.nested = m.nested BY <2>2, <1>0 DEF Goto, ThreadType
  <2>4. TouchedTo' = Next1 /\ TouchedTo = Next1 - 1 BY <2>2, <2>3 DEF TouchedTo
  <2>5. PICK z \in 1..Len(protected) : protected[z] = k
    <3>1. k \in {protected[z] : z \in DOMAIN protected} BY <2>1 DEF Has, ToSet
    <3>2. DOMAIN protected = 1..Len(protected) BY <1>0
    <3> QED BY <3>1, <3>2
  <2>6. /\ Len(protected') = Len(protected)
        /\ \A p \in 1..Len(protected) : protected'[p] =
             IF p < z THEN protected[p] ELSE IF p < Len(protected) THEN protected[p + 1] ELSE k
    BY <2>2, <2>5, <1>0, MovedPlaces
  <2>7. ~Has(probationary, k)
    BY <2>1, <1>0 DEF SlotsInv, OnePartition, Has
  <2>8. ASSUME NEW i \in (n + 1)..Next1 PROVE StaysWarm(i)'
    <3> DEFINE x == O[i]
    <3>1. ~Has(probationary, x)
      <4>1. CASE i = Next1 BY <4>1, <2>7, <1>1
      <4>2. CASE i # Next1
        <5>1. i \in (n + 1)..TouchedTo BY <4>2, <2>4, <1>0, <1>n
        <5> QED BY <5>1, <1>1 DEF StaysWarm
      <4> QED BY <4>1, <4>2
    <3>2. ASSUME NEW p \in 1..Len(protected'), protected'[p] = x PROVE Len(protected') - p < Next1 - n
      <4>1. CASE p = Len(protected) BY <4>1, <2>6, <1>0, <1>1, <1>n
      <4>2. CASE p < Len(protected)
        <5>1. PICK q \in {p, p + 1} : protected[q] = x /\ q \in 1..Len(protected) /\ (p < z => q = p)
                                      /\ (p >= z => q = p + 1)
          BY <2>6, <3>2, <4>2, <1>0
        <5>2. CASE i = Next1
          <6>1. q = z BY <5>1, <5>2, <2>5, <1>0, <1>1 DEF Dict, Distinct, IsInjective
          <6> QED BY <6>1, <5>1, <4>2
        <5>3. CASE i # Next1
          <6>1. i \in (n + 1)..TouchedTo BY <5>3, <2>4, <1>0, <1>n
          <6>2. Len(protected) - q < (Next1 - 1) - n BY <6>1, <5>1, <2>4, <1>1 DEF StaysWarm
          <6>3. q \in Int /\ q <= p + 1 /\ p \in Int /\ Len(protected') = Len(protected)
            BY <5>1, <2>6, <3>2
          <6>4. Next1 \in Int /\ n \in Int /\ Len(protected) \in Int BY <1>0, <1>n
          <6> HIDE DEF n, Next1
          <6> QED BY <6>2, <6>3, <6>4
        <5> QED BY <5>2, <5>3
      <4> QED BY <4>1, <4>2, <2>6
    <3> QED BY <3>1, <3>2, <2>2, <2>3, <2>4, <1>n DEF StaysWarm
  <2> QED BY <2>2, <2>3, <2>4, <2>8, <1>g DEF Getting
<1>5. CASE ReadWarm(Main)
  <2>1. Has(protected, k) BY <1>0, <1>5 DEF ReadWarm, KeyPlace, PC, InWarm
  <2>2. AfterGet(Main, TRUE) /\ UNCHANGED <<probationary, protected>> /\ m.pc = "readWarm"
    BY <2>1, <1>5 DEF ReadWarm, cache
  <2>3. /\ agenda' = [agenda EXCEPT !.next = @ + 1] /\ Goto(Main, "pinRam")
    BY <2>2, <1>1 DEF AfterGet
  <2>4. agenda'.next = Next1 + 1 /\ agenda'.order = O /\ m'.pc = "pinRam"
    BY <2>3, <1>0 DEF Goto, AgendaType, ThreadType
  <2>5. TouchedTo = Next1 /\ TouchedTo' = Next1 BY <2>2, <2>4, <1>0 DEF TouchedTo
  <2> QED BY <2>2, <2>4, <2>5, <1>q, <1>a
<1>6. CASE LookProbationary(Main)
  <2>0. UNCHANGED <<probationary, protected>> /\ m.pc = "lookCold" BY <1>6 DEF LookProbationary, cache
  <2>1. CASE Has(probationary, k)
    <3>1. Goto(Main, "pop") /\ UNCHANGED agenda BY <2>1, <1>6 DEF LookProbationary, NoRaise
    <3>2. m'.pc = "pop" /\ m'.nested = m.nested BY <3>1, <1>0 DEF Goto, ThreadType
    <3>3. TouchedTo' = TouchedTo BY <2>0, <3>1, <3>2 DEF TouchedTo
    <3> QED BY <2>0, <3>1, <3>2, <3>3, <1>q, <1>g DEF Getting
  <2>2. CASE ~Has(probationary, k)
    <3>1. AfterGet(Main, FALSE) BY <2>2, <1>6 DEF LookProbationary
    <3>2. agenda' = [agenda EXCEPT !.next = @ + 1] /\ Goto(Main, "pinRam") BY <3>1, <1>1 DEF AfterGet
    <3>3. agenda'.next = Next1 + 1 /\ agenda'.order = O /\ m'.pc = "pinRam"
      BY <3>2, <1>0 DEF Goto, AgendaType, ThreadType
    <3>4. TouchedTo = Next1 - 1 /\ TouchedTo' = Next1 BY <2>0, <3>3, <1>0 DEF TouchedTo
    <3>5. ~Has(protected, k) BY <2>0, <1>0 DEF KeyPlace, PC, InWarm
    <3>6. ASSUME NEW i \in (n + 1)..Next1 PROVE StaysWarm(i)'
      <4>1. CASE i = Next1
        <5>1. \A p \in 1..Len(protected) : protected[p] # O[i]
          BY <4>1, <3>5, <1>0, <1>1 DEF Has, ToSet
        <5> QED BY <4>1, <5>1, <2>0, <2>2, <3>3, <1>1 DEF StaysWarm
      <4>2. CASE i # Next1
        <5>1. i \in (n + 1)..TouchedTo BY <4>2, <3>4, <1>0, <1>n
        <5>2. StaysWarm(i) BY <5>1, <1>1
        <5>3. \A p \in 1..Len(protected) : protected[p] = O[i] => Len(protected) - p < Next1 - n
          BY <5>2, <3>4, <1>0, <1>n DEF StaysWarm
        <5>4. ~Has(probationary, O[i]) BY <5>2 DEF StaysWarm
        <5> QED BY <5>3, <5>4, <2>0, <3>3, <3>4, <1>n DEF StaysWarm
      <4> QED BY <4>1, <4>2
    <3> QED BY <3>1, <3>6, <1>a
  <2> QED BY <2>1, <2>2
<1>7. CASE PopHit(Main)
  <2>1. Has(probationary, k) BY <1>0, <1>7 DEF PopHit, KeyPlace, PC, InCold
  <2>2. /\ probationary' = Without(probationary, k) /\ Goto(Main, "room")
        /\ UNCHANGED <<protected, agenda>> /\ m.pc = "pop"
    BY <2>1, <1>7 DEF PopHit, NoRaise
  <2>3. k \in Keys
    <3>1. probationary \in Seq(Keys) BY <1>0, DictLen
    <3> QED BY <3>1, <2>1 DEF Has, ToSet
  <2>4. ToSet(probationary') \subseteq ToSet(probationary) BY <2>1, <2>2, <2>3, <1>0, WithoutFacts
  <2>5. m'.pc = "room" /\ m'.nested = m.nested BY <2>2, <1>0 DEF Goto, ThreadType
  <2>6. TouchedTo' = TouchedTo BY <2>2, <2>5 DEF TouchedTo
  <2> QED BY <2>2, <2>4, <2>5, <2>6, <1>q, <1>g DEF Getting
<1>8. CASE CheckRoom(Main)
  <2>1. /\ UNCHANGED <<probationary, protected, agenda>> /\ m.pc = "room"
        /\ Goto(Main, "demote") \/ Goto(Main, "promote")
    BY <1>8 DEF CheckRoom, cache, pins
  <2>2. m'.pc \in {"demote", "promote"} /\ m'.nested = m.nested
    BY <2>1, <1>0 DEF Goto, ThreadType
  <2>3. TouchedTo' = TouchedTo BY <2>1, <2>2 DEF TouchedTo
  <2> QED BY <2>1, <2>2, <2>3, <1>q, <1>g DEF Getting
<1>9. CASE Demote(Main)
  <2>1. Len(protected) >= ProtectedCapacity BY <1>9 DEF Demote, Full, PC
  <2>2. protected # <<>> BY <1>0, <2>1, EmptyDict
  <2>3. /\ th' = [th EXCEPT ![Main].pc = "demoted", ![Main].demoted = Head(protected)]
        /\ protected' = Tail(protected) /\ UNCHANGED <<probationary, agenda>> /\ m.pc = "demote"
    BY <2>2, <1>9 DEF Demote, NoRaise
  <2>4. m'.pc = "demoted" /\ m'.demoted = protected[1] /\ m'.nested = m.nested
    BY <2>2, <2>3, <1>0 DEF ThreadType
  <2>5. TouchedTo' = Next1 - 1 /\ TouchedTo = Next1 - 1 BY <2>3, <2>4 DEF TouchedTo
  <2>6. /\ Len(protected') = Len(protected) - 1
        /\ \A p \in 1..(Len(protected) - 1) : protected'[p] = protected[p + 1]
    BY <2>2, <2>3, <1>0
  <2>7. ASSUME NEW i \in (n + 1)..(Next1 - 1) PROVE StaysWarm(i)'
    <3> DEFINE x == O[i]
    <3>1. /\ ~Has(probationary, x)
          /\ \A p \in 1..Len(protected) : protected[p] = x => Len(protected) - p < (Next1 - 1) - n
      BY <2>5, <1>1 DEF StaysWarm
    <3>2. protected[1] # x
      <4> SUFFICES ASSUME protected[1] = x PROVE FALSE OBVIOUS
      <4>1. Len(protected) - 1 < (Next1 - 1) - n BY <3>1, <2>1, <1>0
      <4> QED BY <4>1, <2>1, <1>0, <1>1, <1>n
    <3>3. ASSUME NEW p \in 1..Len(protected'), protected'[p] = x
          PROVE  Len(protected') - p < (Next1 - 1) - n
      <4>1. p + 1 \in 1..Len(protected) /\ protected[p + 1] = x BY <3>3, <2>6, <1>0
      <4> QED BY <4>1, <3>1, <2>6, <1>0, <1>n
    <3> QED BY <3>1, <3>2, <3>3, <2>3, <2>4, <2>5, <1>n DEF StaysWarm
  <2> QED BY <2>3, <2>4, <2>5, <2>7, <1>g DEF Getting
<1>10. CASE PutDemoted(Main)
  <2>1. /\ probationary' = Insert(probationary, m.demoted) /\ UNCHANGED <<protected, agenda>>
        /\ th' = [th EXCEPT ![Main].pc = "promote", ![Main].demoted = Main] /\ m.pc = "demoted"
    BY <1>10 DEF PutDemoted, pins
  <2>2. m'.pc = "promote" /\ m'.nested = m.nested BY <2>1, <1>0 DEF ThreadType
  <2>3. TouchedTo' = TouchedTo BY <2>1, <2>2 DEF TouchedTo
  <2>4. m.demoted \in Keys BY <2>1, <1>0 DEF KeyPlace, PC
  <2>5. ToSet(probationary') = ToSet(probationary) \union {m.demoted} BY <2>1, <2>4, <1>0, InsertFacts
  <2>6. ASSUME NEW i \in (n + 1)..TouchedTo PROVE StaysWarm(i)'
    <3>1. StaysWarm(i) BY <1>1
    <3> HIDE DEF m
    <3> QED BY <3>1, <2>1, <2>2, <2>3, <2>5, <1>n DEF StaysWarm, Has, m
  <2> QED BY <2>1, <2>2, <2>3, <2>6, <1>g DEF Getting
<1>11. CASE PromoteHit(Main)
  <2>1. k \in Keys /\ ~Has(protected, k) /\ ~Has(probationary, k)
    BY <1>0, <1>11 DEF PromoteHit, KeyPlace, Outside, PC, InCold, InWarm
  <2>2. /\ protected' = Append(protected, k) /\ UNCHANGED probationary
        /\ AfterGet(Main, TRUE) /\ m.pc = "promote"
    BY <2>1, <1>11 DEF PromoteHit, Insert
  <2>3. agenda' = [agenda EXCEPT !.next = @ + 1] /\ Goto(Main, "pinRam") BY <2>2, <1>1 DEF AfterGet
  <2>4. agenda'.next = Next1 + 1 /\ agenda'.order = O /\ m'.pc = "pinRam"
    BY <2>3, <1>0 DEF Goto, AgendaType, ThreadType
  <2>5. TouchedTo = Next1 - 1 /\ TouchedTo' = Next1 BY <2>2, <2>4, <1>0 DEF TouchedTo
  <2>6. /\ Len(protected') = Len(protected) + 1 /\ protected'[Len(protected) + 1] = k
        /\ \A p \in 1..Len(protected) : protected'[p] = protected[p]
    BY <2>1, <2>2, <1>0
  <2>7. ASSUME NEW i \in (n + 1)..Next1 PROVE StaysWarm(i)'
    <3> DEFINE x == O[i]
    <3>1. CASE i = Next1
      <4>1. x = k BY <3>1, <1>1
      <4>2. ASSUME NEW p \in 1..Len(protected'), protected'[p] = x PROVE Len(protected') - p < Next1 - n
        <5>1. ~(p \in 1..Len(protected)) BY <4>1, <4>2, <2>1, <2>6, <1>0 DEF Has, ToSet
        <5>2. p = Len(protected) + 1 BY <5>1, <2>6, <1>0
        <5> QED BY <5>2, <2>6, <1>0, <1>1, <1>n
      <4> QED BY <4>1, <4>2, <2>1, <2>2, <2>4, <2>5, <1>n DEF StaysWarm
    <3>2. CASE i # Next1
      <4>1. i \in (n + 1)..TouchedTo BY <3>2, <2>5, <1>0, <1>n
      <4>2. /\ ~Has(probationary, x)
            /\ \A p \in 1..Len(protected) : protected[p] = x => Len(protected) - p < (Next1 - 1) - n
        BY <4>1, <2>5, <1>1 DEF StaysWarm
      <4>3. ASSUME NEW p \in 1..Len(protected'), protected'[p] = x PROVE Len(protected') - p < Next1 - n
        <5>1. CASE p \in 1..Len(protected) BY <5>1, <4>2, <4>3, <2>6, <1>0, <1>n
        <5>2. CASE p = Len(protected) + 1 BY <5>2, <2>6, <1>0, <1>1, <1>n
        <5> QED BY <5>1, <5>2, <2>6, <1>0
      <4> QED BY <4>2, <4>3, <2>2, <2>4, <2>5, <1>n DEF StaysWarm
    <3> QED BY <3>1, <3>2
  <2> QED BY <2>2, <2>7, <1>a
<1> QED BY <1>3, <1>4, <1>5, <1>6, <1>7, <1>8, <1>9, <1>10, <1>11 DEF Get

\* A step that does not get an expert from the RAM tier for the adapter.
LEMMA PinStep ==
  ASSUME SlotsInv, Full, ProbationaryCapacity < Capacity, PinInv, [Next]_vars, Workers = {},
         ~(Get(Main) /\ th[Main].caller = "pinRam")
  PROVE  PinInv'
<1> USE DEF At, Key
<1> DEFINE m == th[Main]
           n == PinnedCount
           O == agenda.order
<1>0. /\ Main \in Threads /\ th \in [Threads -> ThreadType] /\ m \in ThreadType /\ KeyPlace
      /\ agenda \in AgendaType /\ agenda.last <= Len(O) /\ O \in Seq(Keys) /\ Len(O) \in Nat
      /\ agenda.next \in Nat \ {0} /\ agenda.last \in Nat /\ session \in SessionType
      /\ ProtectedCapacity \in Nat
  <2>1. Types /\ KeyPlace BY DEF SlotsInv
  <2>2. /\ Main \in Threads /\ th \in [Threads -> ThreadType] /\ m \in ThreadType
        /\ agenda \in AgendaType /\ agenda.last <= Len(O) /\ session \in SessionType
    BY <2>1 DEF Types, Threads, AgendaType, SessionType
  <2>3. O \in Seq(Keys) /\ agenda.next \in Nat \ {0} /\ agenda.last \in Nat BY <2>2 DEF AgendaType
  <2>4. Len(O) \in Nat BY <2>3
  <2> QED BY <2>1, <2>2, <2>3, <2>4, ProtectedSlots
<1>i. Callbacks /\ Unpinned /\ InVram /\ InRam BY DEF PinInv
<1>R. /\ Rest.pc = "idle" /\ Rest.caller = "none" /\ ~Rest.nested
      /\ \A c \in Pins : /\ [Rest EXCEPT !.pc = c, !.caller = c].pc = c
                         /\ [Rest EXCEPT !.pc = c, !.caller = c].caller = c
                         /\ ~[Rest EXCEPT !.pc = c, !.caller = c].nested
  BY DEF Rest
\* Main is in no loop of the adapter and pins nothing.
<1>f. ASSUME m'.caller \notin Pins, m'.pc \notin Pins, session'.frozen \/ session'.pinned = {},
             session'.pinned \subseteq hot'
      PROVE  PinInv'
  BY <1>f DEF PinInv, Callbacks, Unpinned, InVram, InRam, Pins
<1>h. ASSUME m.caller \notin Pins, UNCHANGED session, hot \subseteq hot'
      PROVE  (session'.frozen \/ session'.pinned = {}) /\ session'.pinned \subseteq hot'
  BY <1>h, <1>i DEF Unpinned, InVram
<1>1. CASE Get(Main) \/ Put(Main)
  <2>1. m.caller # "pinRam"
    <3>1. ASSUME Put(Main) PROVE m.pc \notin Getting \union {"pinRam"}
      BY <3>1 DEF Put, LookForWarm, LookForCold, LookToStore, StoreWarm, StoreCold, CheckFull,
                  Evict, InsertCold, CountCold, AssertBound, Getting
    <3> QED BY <3>1, <1>1, <1>i DEF Callbacks
  <2>2. /\ UNCHANGED <<hot, session, agenda>> /\ m.pc \notin Outside /\ m'.pc \notin Outside
        /\ m'.key = m.key /\ m'.caller = m.caller
    BY <2>1, <1>1, OperationsGoOn DEF PC
  <2> QED BY <2>1, <2>2, <1>i DEF PinInv, Callbacks, Unpinned, InVram, InRam, Pins, Outside
<1>2. CASE Read(Main)
  <2>1. /\ m.pc = "read" /\ Goto(Main, "put") /\ UNCHANGED <<hot, session, agenda>>
    BY <1>2 DEF Read, gpu, pins
  <2>2. m'.pc = "put" /\ m'.key = m.key /\ m'.caller = m.caller /\ m'.nested = m.nested
    BY <2>1, <1>0 DEF Goto, ThreadType
  <2>3. m.caller # "pinRam" BY <2>1, <1>i DEF Callbacks, Getting
  <2> QED BY <2>1, <2>2, <2>3, <1>i DEF PinInv, Callbacks, Unpinned, InVram, InRam, Pins
<1>3. CASE Promote
  <2>0. m.pc = "promoted" /\ hot \subseteq hot' BY <1>3 DEF Promote
  <2>1. m.caller # "pinRam" BY <2>0, <1>i DEF Callbacks, Getting
  <2>2. CASE m.caller = "pinVram"
    <3>1. /\ hot' = hot \union {m.key} /\ session' = [session EXCEPT !.pinned = @ \union {m.key}]
          /\ agenda' = [agenda EXCEPT !.next = @ + 1]
          /\ th' = [th EXCEPT ![Main] = [Rest EXCEPT !.pc = "pinVram", !.caller = "pinVram"]]
      BY <2>2, <1>3 DEF Promote
    <3>2. m'.pc = "pinVram" /\ m'.caller = "pinVram" BY <3>1, <1>0, <1>R DEF Pins
    <3>3. /\ agenda'.next = agenda.next + 1 /\ agenda'.last = agenda.last /\ agenda'.order = O
          /\ session'.pinned = session.pinned \union {m.key}
      BY <3>1, <1>0 DEF AgendaType, SessionType
    <3>4. /\ agenda.next <= agenda.last /\ m.key = O[agenda.next] /\ O \in Distinct(Keys)
          /\ session.pinned = {O[i] : i \in 1..(agenda.next - 1)} /\ session.pinned \subseteq hot
      BY <2>0, <2>2, <1>i DEF Callbacks, InVram, Pins
    <3>5. session'.pinned = {O[i] : i \in 1..agenda.next}
      <4>1. 1..agenda.next = 1..(agenda.next - 1) \union {agenda.next} BY <1>0
      <4> QED BY <4>1, <3>3, <3>4
    <3>6. InVram'
      <4>1. agenda'.next - 1 = agenda.next /\ agenda'.next <= agenda'.last + 1 BY <3>3, <3>4, <1>0
      <4>2. session'.pinned \subseteq hot' BY <3>1, <3>3, <3>4
      <4> QED BY <4>1, <4>2, <3>3, <3>4, <3>5 DEF InVram
    <3> QED BY <3>2, <3>6 DEF PinInv, Callbacks, Unpinned, InRam, Pins
  <2>3. CASE m.caller # "pinVram"
    <3>1. th' = [th EXCEPT ![Main] = Rest] /\ UNCHANGED session BY <2>3, <1>3 DEF Promote, pins
    <3>2. m'.pc = "idle" /\ m'.caller = "none" BY <3>1, <1>0, <1>R
    <3> QED BY <3>1, <3>2, <2>0, <2>1, <2>3, <1>h, <1>f DEF Pins
  <2> QED BY <2>2, <2>3
<1>4. CASE Issue \/ Awaited
  <2>1. /\ m.pc \in {"issue", "await"} /\ th' = [th EXCEPT ![Main] = Rest] /\ UNCHANGED <<hot, session>>
    BY <1>4 DEF Issue, Awaited, gpu, pins
  <2>2. m'.pc = "idle" /\ m'.caller = "none" BY <2>1, <1>0, <1>R
  <2>3. m.caller \notin Pins BY <2>1, <1>i DEF Callbacks
  <2> QED BY <2>1, <2>2, <2>3, <1>h, <1>f DEF Pins
<1>e. ASSUME NEW k \in Keys, NEW c \in {"fetch", "pinVram"}, Enter(k, c)
      PROVE  m'.caller = c /\ m'.key = k /\ m'.pc \in {"get", "promoted"} \union (IF c = "fetch" THEN {"idle"} ELSE {})
  <2> DEFINE r == [Rest EXCEPT !.key = k, !.caller = c,
                    !.pc = IF k \notin hot THEN "get" ELSE IF c = "fetch" THEN "idle" ELSE "promoted"]
  <2>1. th' = [th EXCEPT ![Main] = r] BY <1>e DEF Enter
  <2>2. m' = r BY <2>1, <1>0
  <2>3. /\ r.caller = c /\ r.key = k
        /\ r.pc \in {"get", "promoted"} \union (IF c = "fetch" THEN {"idle"} ELSE {})
    BY DEF Rest
  <2> QED BY <2>2, <2>3
<1>5. CASE PinVram
  <2>1. /\ m.pc = "pinVram" /\ agenda.next <= agenda.last /\ Enter(O[agenda.next], "pinVram")
        /\ UNCHANGED <<hot, session, agenda>>
    BY <1>5 DEF PinVram, pins
  <2>2. O[agenda.next] \in Keys BY <2>1, <1>0
  <2>3. m'.caller = "pinVram" /\ m'.key = O[agenda.next] /\ m'.pc \in {"get", "promoted"}
    BY <2>1, <2>2, <1>e
  <2>4. m.caller = "pinVram" BY <2>1, <1>i DEF Callbacks, Pins
  <2> QED BY <2>1, <2>3, <2>4, <1>i DEF PinInv, Callbacks, Unpinned, InVram, InRam, Pins
<1>6. CASE PinVramDone
  <2> DEFINE r == [Rest EXCEPT !.pc = "pinRam", !.caller = "pinRam"]
             l == Min({Len(O), n + ProtectedCapacity})
  <2>1. /\ m.pc = "pinVram" /\ agenda.next > agenda.last /\ UNCHANGED <<hot, session>>
        /\ agenda' = [agenda EXCEPT !.next = n + 1, !.last = l]
        /\ th' = [th EXCEPT ![Main] = r]
    BY <1>6 DEF PinVramDone, PinnedCount, gpu
  <2>2. m'.pc = "pinRam" /\ m'.caller = "pinRam" /\ ~m'.nested BY <2>1, <1>0, <1>R DEF Pins
  <2>3. /\ m.caller = "pinVram" /\ O \in Distinct(Keys) /\ agenda.next = agenda.last + 1
        /\ session.pinned = {O[i] : i \in 1..agenda.last} /\ session.pinned \subseteq hot
    <3>1. m.caller = "pinVram" BY <2>1, <1>i DEF Callbacks, Pins
    <3>2. /\ O \in Distinct(Keys) /\ agenda.next <= agenda.last + 1 /\ session.pinned \subseteq hot
          /\ session.pinned = {O[i] : i \in 1..(agenda.next - 1)}
      BY <3>1, <1>i DEF InVram
    <3>3. agenda.next - 1 = agenda.last BY <3>2, <2>1, <1>0
    <3> QED BY <3>1, <3>2, <3>3, <1>0
  <2>4. n = agenda.last
    <3> DEFINE I == 1..agenda.last
               f == [i \in I |-> O[i]]
               S == session.pinned
    <3>1. f \in [I -> S] /\ \A x \in S : \E i \in I : f[i] = x BY <2>3
    <3>2. I \subseteq DOMAIN O BY <1>0
    <3>3. \A i, j \in I : f[i] = f[j] => i = j BY <3>2, <2>3 DEF Distinct, IsInjective
    <3> HIDE DEF f, S
    <3>4. f \in Bijection(I, S)
      BY <3>1, <3>3 DEF Bijection, Injection, Surjection, IsInjective
    <3>5. ExistsBijection(I, S) BY <3>4 DEF ExistsBijection
    <3>6. IsFiniteSet(I) /\ Cardinality(I) = agenda.last
      BY <1>0, FS_Interval
    <3> HIDE DEF I
    <3> QED BY <3>5, <3>6, FS_Bijection DEF PinnedCount, S
  <2>5. l \in Nat /\ l <= n + ProtectedCapacity
    <3>1. n + ProtectedCapacity \in Nat BY <2>4, <1>0
    <3> QED BY <3>1, <1>0, MinOfTwo
  <2> HIDE DEF r, l
  <2>6. /\ agenda'.next = n + 1 /\ agenda'.last = l /\ agenda'.order = O BY <2>1, <1>0 DEF AgendaType
  <2>7. n' = n BY <2>1 DEF PinnedCount
  <2>8. TouchedTo' = n BY <2>2, <2>4, <2>6, <1>0 DEF TouchedTo
  <2>9. InRam'
    <3>1. \A i \in 1..Len(O) : i <= n => O[i] \in hot BY <2>3, <2>4, <1>0
    <3>2. (n + 1)..n = {} BY <2>4, <1>0
    <3>3. n < n + 1 BY <2>4, <1>0
    <3>4. ProtectedCapacity' = ProtectedCapacity BY DEF ProtectedCapacity
    <3> QED BY <2>1, <2>5, <2>6, <2>7, <2>8, <3>1, <3>2, <3>3, <3>4 DEF InRam
  <2>10. Callbacks' BY <2>2 DEF Callbacks, Pins
  <2>11. Unpinned' /\ InVram' BY <2>1, <2>2, <2>3 DEF Unpinned, InVram, Pins
  <2> QED BY <2>9, <2>10, <2>11 DEF PinInv
<1>7. CASE PinRam
  <2>1. /\ m.pc = "pinRam" /\ agenda.next <= agenda.last
        /\ th' = [th EXCEPT ![Main].pc = "get", ![Main].key = O[agenda.next]]
        /\ UNCHANGED <<hot, session, agenda, probationary, protected>>
    BY <1>7 DEF PinRam, cache, gpu, pins
  <2>2. /\ m'.pc = "get" /\ m'.key = O[agenda.next] /\ m'.caller = m.caller /\ m'.nested = m.nested
    BY <2>1, <1>0 DEF ThreadType
  <2>3. m.caller = "pinRam" BY <2>1, <1>i DEF Callbacks, Pins
  <2>4. Callbacks' BY <2>1, <2>2, <2>3, <1>i DEF Callbacks, Pins, Getting
  <2>5. Unpinned' /\ InVram' BY <2>1, <2>2, <2>3, <1>i DEF Unpinned, InVram, Pins
  <2>6. TouchedTo' = TouchedTo /\ PinnedCount' = PinnedCount BY <2>1, <2>2 DEF TouchedTo, PinnedCount
  <2>7. InRam'
    <3>1. ProtectedCapacity' = ProtectedCapacity BY DEF ProtectedCapacity
    <3>2. \A i \in (PinnedCount + 1)..TouchedTo : StaysWarm(i) BY <2>3, <1>i DEF InRam
    <3>3. \A i \in (PinnedCount + 1)..TouchedTo : StaysWarm(i)'
      BY <3>2, <2>1, <2>2, <2>6 DEF StaysWarm
    <3> QED BY <3>1, <3>3, <2>1, <2>3, <2>6, <1>i DEF InRam
  <2> QED BY <2>4, <2>5, <2>7 DEF PinInv
<1>8. CASE PinRamDone
  <2>1. /\ session' = [session EXCEPT !.frozen = TRUE] /\ th' = [th EXCEPT ![Main] = Rest]
        /\ UNCHANGED hot
    BY <1>8 DEF PinRamDone, gpu
  <2>2. m'.pc = "idle" /\ m'.caller = "none" BY <2>1, <1>0, <1>R
  <2>3. session'.frozen /\ session'.pinned = session.pinned BY <2>1, <1>0 DEF SessionType
  <2> QED BY <2>1, <2>2, <2>3, <1>i, <1>f DEF Pins, InVram
<1>9. ASSUME NEW k \in Keys, Fetch(k) PROVE PinInv'
  <2>1. m.pc = "idle" /\ Enter(k, "fetch") /\ UNCHANGED <<hot, session>>
    BY <1>9 DEF Fetch, MainCalls, pins
  <2>2. m'.caller = "fetch" /\ m'.pc \in {"get", "promoted", "idle"} BY <2>1, <1>e
  <2>3. m.caller \notin Pins BY <2>1, <1>i DEF Callbacks
  <2> QED BY <2>1, <2>2, <2>3, <1>h, <1>f DEF Pins
<1>10. ASSUME NEW k \in Keys, Predict(k) \/ Await(k) PROVE PinInv'
  <2>1. /\ m.pc = "idle" /\ UNCHANGED <<hot, session>>
        /\ \/ UNCHANGED th
           \/ m'.caller \in {"issue", "await"} /\ m'.pc \in {"issue", "await"}
    <3>1. /\ m.pc = "idle" /\ UNCHANGED <<hot, session>>
          /\ \/ UNCHANGED th
             \/ th' = [th EXCEPT ![Main] = [Rest EXCEPT !.pc = "issue", !.key = k, !.caller = "issue"]]
             \/ th' = [th EXCEPT ![Main] = [Rest EXCEPT !.pc = "await", !.key = k, !.caller = "await",
                                                       !.task = pending[k]]]
      BY <1>10 DEF Predict, Await, MainCalls, gpu, pins
    <3>2. \/ UNCHANGED th
          \/ m' = [Rest EXCEPT !.pc = "issue", !.key = k, !.caller = "issue"]
          \/ m' = [Rest EXCEPT !.pc = "await", !.key = k, !.caller = "await", !.task = pending[k]]
      BY <3>1, <1>0
    <3> DEFINE r == [Rest EXCEPT !.pc = "issue", !.key = k, !.caller = "issue"]
               w == [Rest EXCEPT !.pc = "await", !.key = k, !.caller = "await", !.task = pending[k]]
    <3>3. r.pc = "issue" /\ r.caller = "issue" /\ w.pc = "await" /\ w.caller = "await" BY DEF Rest
    <3> HIDE DEF r, w
    <3>4. UNCHANGED th \/ m' = r \/ m' = w BY <3>2 DEF r, w
    <3>5. m' \in {r, w} => m'.caller \in {"issue", "await"} /\ m'.pc \in {"issue", "await"} BY <3>3
    <3> HIDE DEF m
    <3> QED BY <3>1, <3>4, <3>5 DEF m
  <2>2. m.caller \notin Pins BY <2>1, <1>i DEF Callbacks
  <2>3. m'.caller \notin Pins /\ m'.pc \notin Pins BY <2>1, <2>2 DEF Pins
  <2> QED BY <2>1, <2>2, <2>3, <1>h, <1>f
<1>11. ASSUME NEW k \in Keys, RecordRouting(k) PROVE PinInv'
  <2>1. /\ m.pc = "idle" /\ UNCHANGED <<hot, th>> /\ session' = [session EXCEPT !.freq[k] = @ + 1]
    BY <1>11 DEF RecordRouting, MainCalls, gpu
  <2>2. session'.pinned = session.pinned /\ session'.frozen = session.frozen
    BY <2>1, <1>0 DEF SessionType
  <2>3. m.caller \notin Pins BY <2>1, <1>i DEF Callbacks
  <2> QED BY <2>1, <2>2, <2>3, <1>i, <1>f DEF Unpinned, InVram, Pins
<1>12. CASE ResetSession
  <2>1. m.pc = "idle" /\ UNCHANGED <<hot, th>> /\ session' = FreshSession
    BY <1>12 DEF ResetSession, MainCalls, gpu
  <2>2. m.caller \notin Pins BY <2>1, <1>i DEF Callbacks
  <2> QED BY <2>1, <2>2, <1>f DEF FreshSession, Pins
<1>13. CASE StepToken
  <2>0. /\ m.pc = "idle" /\ UNCHANGED hot
        /\ session' = [session EXCEPT !.token = Min({Warmup, @ + 1})]
    BY <1>13 DEF StepToken, MainCalls, gpu
  <2>1. session'.pinned = session.pinned /\ session'.frozen = session.frozen
    BY <2>0, <1>0 DEF SessionType
  <2>2. m.caller \notin Pins BY <2>0, <1>i DEF Callbacks
  <2>3. CASE UNCHANGED th
    BY <2>0, <2>1, <2>2, <2>3, <1>i, <1>f DEF Unpinned, InVram, Pins
  <2>4. CASE ~UNCHANGED th
    <3>1. PICK order \in MostCommon :
            /\ ~session.frozen
            /\ agenda' = [order |-> order, next |-> 1,
                          last |-> IF Cuda THEN Min({PinCount, Len(order)}) ELSE 0]
            /\ th' = [th EXCEPT ![Main] = [Rest EXCEPT !.pc = "pinVram", !.caller = "pinVram"]]
      BY <2>4, <1>13 DEF StepToken
    <3>2. m'.pc = "pinVram" /\ m'.caller = "pinVram" BY <3>1, <1>0, <1>R DEF Pins
    <3>3. session.pinned = {} BY <3>1, <2>2, <1>i DEF Unpinned
    <3>4. order \in Distinct(Keys)
      <4>1. order \in Seq(Keys) BY MostCommonIsSeq
      <4> DEFINE S == {k \in Keys : session.freq[k] > 0}
      <4>2. order \in SetToSeqs(S) BY DEF MostCommon
      <4> HIDE DEF S
      <4>3. \A i, j \in DOMAIN order : i # j => order[i] # order[j] BY <4>2 DEF SetToSeqs, IsInjective
      <4>4. IsInjective(order) BY <4>3 DEF IsInjective
      <4> QED BY <4>1, <4>4 DEF Distinct
    <3>5. agenda'.last \in Nat
      <4>1. Len(order) \in Nat /\ PinCount \in Nat BY <3>4, ExpertRuntimeAssumption DEF Distinct
      <4>2. Min({PinCount, Len(order)}) \in Nat BY <4>1, LesserOfTwo
      <4> QED BY <3>1, <4>2
    <3>6. InVram'
      <4>1. agenda'.order = order /\ agenda'.next = 1 /\ 1 <= agenda'.last + 1 BY <3>1, <3>5
      <4>2. {order[i] : i \in 1..(1 - 1)} = {} OBVIOUS
      <4> QED BY <4>1, <4>2, <3>3, <3>4, <2>1 DEF InVram
    <3> QED BY <3>2, <3>6 DEF PinInv, Callbacks, Unpinned, InRam, Pins
  <2> QED BY <2>3, <2>4
<1>14. CASE UNCHANGED vars
  <2>1. UNCHANGED <<probationary, protected, hot, session, agenda, th>> BY <1>14 DEF vars, cache, gpu, pins
  <2>2. UNCHANGED <<TouchedTo, PinnedCount, ProtectedCapacity>>
    BY <2>1 DEF TouchedTo, PinnedCount, ProtectedCapacity
  <2> QED BY <2>1, <2>2 DEF PinInv, Callbacks, Unpinned, InVram, InRam, StaysWarm
<1>15. CASE MainWork BY <1>15, <1>1, <1>2, <1>3, <1>4, <1>5, <1>6, <1>7, <1>8 DEF MainWork
<1> QED BY <1>9, <1>10, <1>11, <1>12, <1>13, <1>14, <1>15 DEF Next, Finished

\* With no prefetch pool sharing the cache and at least one protected slot, the
\* warm-up ends with each of the session's hottest experts in VRAM or, if in
\* RAM at all, where the next cold expert does not evict it
\* (_pin_session_hot_tier, session.py).
THEOREM PinnedExpertsAreSafe ==
  ASSUME Workers = {}, ProbationaryCapacity < Capacity
  PROVE  Spec => PinnedAreProtected
<1>1. Init => SlotsInv /\ Full /\ PinInv
  <2> SUFFICES ASSUME Init PROVE Full /\ PinInv BY SlotsInvInit
  <2>1. th[Main].pc = "idle" /\ th[Main].caller = "none" /\ session.pinned = {}
    BY DEF Init, Threads, Rest, FreshSession
  <2>2. Full BY <2>1 DEF Full, PC
  <2>3. PinInv BY <2>1 DEF PinInv, Callbacks, Unpinned, InVram, InRam, Pins
  <2> QED BY <2>2, <2>3
<1>2. SlotsInv /\ Full /\ PinInv /\ [Next]_vars => SlotsInv' /\ Full' /\ PinInv'
  BY SlotsInvNext, FullStep, PinStep, PinRamGet
<1>3. SlotsInv /\ Full /\ PinInv /\ [Next]_vars =>
        [~session.frozen /\ session'.frozen =>
           \A i \in 1..agenda.last :
             agenda.order[i] \in hot \/ ~Has(probationary, agenda.order[i])]_vars
  <2> SUFFICES ASSUME SlotsInv, Full, PinInv, [Next]_vars, ~session.frozen, session'.frozen,
                      NEW i \in 1..agenda.last
               PROVE  agenda.order[i] \in hot \/ ~Has(probationary, agenda.order[i])
    OBVIOUS
  <2>0. /\ session \in SessionType /\ agenda \in AgendaType /\ agenda.last <= Len(agenda.order)
    BY DEF SlotsInv, Types, SessionType, AgendaType
  <2>1. PinRamDone
    <3>1. ~UNCHANGED session OBVIOUS
    <3>2. ASSUME Get(Main) \/ Put(Main) PROVE FALSE
      <4>1. session' = session BY <3>2, OperationsGoOn
      <4> QED BY <3>1, <4>1
    <3>3. ~Promote BY <2>0 DEF Promote, SessionType, pins
    <3>4. \A k \in Keys : ~RecordRouting(k) BY <2>0 DEF RecordRouting, SessionType
    <3>5. ~StepToken /\ ~ResetSession BY <2>0 DEF StepToken, ResetSession, FreshSession, SessionType
    <3> QED BY <3>1, <3>2, <3>3, <3>4, <3>5
        DEF Next, MainWork, Finished, vars, pins, Read, Issue, Awaited, PinVram, PinVramDone, PinRam,
            Fetch, Predict, Await
  <2>2. th[Main].pc = "pinRam" /\ agenda.next > agenda.last BY <2>1 DEF PinRamDone, At
  <2>3. th[Main].caller = "pinRam" BY <2>2 DEF PinInv, Callbacks, Pins
  <2>4. /\ \A j \in 1..Len(agenda.order) : j <= PinnedCount => agenda.order[j] \in hot
        /\ \A j \in (PinnedCount + 1)..TouchedTo : StaysWarm(j)
    BY <2>3 DEF PinInv, InRam
  <2>5. /\ agenda.next \in Nat /\ agenda.last \in Nat /\ Len(agenda.order) \in Nat /\ PinnedCount \in Nat
    <3>1. IsFiniteSet(session.pinned) BY <2>0, FS_Subset, ExpertRuntimeAssumption DEF SessionType
    <3>2. agenda.order \in Seq(Keys) BY <2>0 DEF AgendaType
    <3> QED BY <2>0, <3>1, <3>2, FS_CardinalityType DEF AgendaType, PinnedCount
  <2>6. CASE i <= PinnedCount BY <2>0, <2>4, <2>5, <2>6
  <2>7. CASE i > PinnedCount
    <3>1. TouchedTo = agenda.next - 1 BY <2>2 DEF TouchedTo
    <3>2. i \in (PinnedCount + 1)..TouchedTo BY <3>1, <2>2, <2>5, <2>7
    <3> QED BY <3>2, <2>4 DEF StaysWarm
  <2> QED BY <2>5, <2>6, <2>7
<1> QED BY <1>1, <1>2, <1>3, PTL DEF Spec, PinnedAreProtected

-----------------------------------------------------------------------------
(***************************************************************************)
(* The cache that the pool's workers race on.  Nothing keeps two threads   *)
(* from using the same free slot, so the partitions outgrow their shares;  *)
(* by how much is found by giving each task a budget, which its steps      *)
(* spend when they add a key without a slot of their own, or when they     *)
(* take away the key that Main has seen and will store again.              *)
(***************************************************************************)

Agenda == {a \in [order : Seq(Keys), next : Nat \ {0}, last : Nat] : a.last <= Len(a.order)}

PoolTypes ==
  /\ probationary \in Dict /\ protected \in Dict /\ hits \in Dict
  /\ hot \subseteq Keys /\ freq \in [Keys -> 0..PromotionThreshold]
  /\ session \in [token : 0..Warmup, freq : [Keys -> 0..MaxCount],
                  pinned : SUBSET Keys, frozen : BOOLEAN]
  /\ agenda \in Agenda
  /\ tasks \in Seq(TaskType) /\ pending \in [Keys -> 0..Len(tasks)]
  /\ th \in [Threads -> ThreadType]
  /\ raised \in BOOLEAN /\ calls \in 0..MaxCalls

\* A worker only reads an expert and puts it; it gets one only inside put.
Working == (PCs \ (Outside \union {"promoted"})) \union {"idle"}

\* What the record of a thread says of the key it works on.
MainGood(r) ==
  /\ r.pc \notin Outside => r.key \in Keys /\ r.caller \in Callers
  /\ r.pc = "issue" => r.key \in Keys
  /\ r.pc = "demoted" => r.demoted \in Keys
  /\ r.pc = "pinRam" => ~r.nested /\ r.caller \in Callers

WorkerGood(r) ==
  /\ r.pc \in Working
  /\ r.pc # "idle" => r.key \in Keys
  /\ r.pc = "demoted" => r.demoted \in Keys
  /\ r.pc \in Getting => r.nested

Good(t, r) == r \in ThreadType /\ IF t = Main THEN MainGood(r) ELSE WorkerGood(r)

ThreadsGood == \A t \in Threads : Good(t, th[t])

\* The tasks a worker has taken.
Begun(s) == {i \in DOMAIN s : s[i].st # "queued"}
Taken(s) == Cardinality(Begun(s))

\* What a step does besides changing the cache and its own thread.
Kept ==
  /\ tasks' \in Seq(TaskType) /\ Len(tasks') = Len(tasks) /\ Begun(tasks) \subseteq Begun(tasks')
  /\ agenda' \in Agenda /\ raised' \in BOOLEAN

\* Main has returned from a get or a put, or an exception has ended the call.
Over(r) == r.pc \in Outside \union {"promoted", "read"} /\ ~r.nested

LEMMA TasksFinite ==
  ASSUME NEW s \in Seq(TaskType)
  PROVE  IsFiniteSet(Begun(s)) /\ Cardinality(Begun(s)) \in Nat /\ Begun(s) \subseteq 1..Len(s)
<1>1. Begun(s) \in SUBSET (1..Len(s)) BY DEF Begun
<1>2. IsFiniteSet(1..Len(s)) BY FS_Interval
<1> QED BY <1>1, <1>2, FS_Subset, FS_CardinalityType

\* The record of one task changes.
LEMMA TaskChanges ==
  ASSUME NEW s \in Seq(TaskType), NEW i, NEW x \in {"running", "done", "failed"}
  PROVE  LET u == [s EXCEPT ![i].st = x] IN
         /\ u \in Seq(TaskType) /\ Len(u) = Len(s) /\ Begun(s) \subseteq Begun(u)
         /\ i \in DOMAIN s => i \in Begun(u)
<1> DEFINE u == [s EXCEPT ![i].st = x]
<1>1. DOMAIN s = 1..Len(s) /\ Len(s) \in Nat /\ \A j \in 1..Len(s) : s[j] \in TaskType OBVIOUS
<1>2. DOMAIN u = DOMAIN s /\ \A j \in DOMAIN s : u[j] = IF j = i THEN [s[j] EXCEPT !.st = x] ELSE s[j]
  OBVIOUS
<1> HIDE DEF u
<1>3. \A j \in 1..Len(s) : /\ u[j] \in TaskType /\ (s[j].st # "queued" => u[j].st # "queued")
                           /\ j = i => u[j].st = x
  BY <1>1, <1>2 DEF TaskType
<1>4. u \in Seq(TaskType) /\ Len(u) = Len(s)
  <2>1. u = [j \in 1..Len(s) |-> u[j]]
    <3>1. u = [j \in DOMAIN s |-> IF j = i THEN [s[j] EXCEPT !.st = x] ELSE s[j]] BY DEF u
    <3> QED BY <1>1, <3>1
  <2> QED BY <1>1, <1>3, <2>1
<1>5. Begun(s) \subseteq Begun(u) /\ (i \in DOMAIN s => i \in Begun(u))
  BY <1>1, <1>2, <1>3 DEF Begun
<1> QED BY <1>4, <1>5 DEF u

LEMMA NothingElse ==
  ASSUME PoolTypes, UNCHANGED <<tasks, agenda, raised>>
  PROVE  Kept
BY DEF PoolTypes, Kept

\* The next entry of the agenda.
LEMMA AgendaGoesOn ==
  ASSUME PoolTypes
  PROVE  [agenda EXCEPT !.next = @ + 1] \in Agenda
<1>1. /\ agenda.next \in Nat \ {0} /\ agenda.last \in Nat /\ agenda.order \in Seq(Keys)
      /\ agenda.last <= Len(agenda.order)
      /\ agenda = [order |-> agenda.order, next |-> agenda.next, last |-> agenda.last]
  BY DEF PoolTypes, Agenda
<1>2. [agenda EXCEPT !.next = @ + 1]
        = [order |-> agenda.order, next |-> agenda.next + 1, last |-> agenda.last]
  BY <1>1
<1> QED BY <1>1, <1>2 DEF Agenda

LEMMA RestGood == Rest \in ThreadType /\ (\A t : Good(t, Rest)) /\ Over(Rest)
BY DEF Rest, ThreadType, PCs, Good, MainGood, WorkerGood, Outside, Working, Getting, Over

\* An exception ends the call: the thread is outside of the cache.
LEMMA PoolRaise ==
  ASSUME PoolTypes, NEW t \in Threads, Good(t, th[t]), th[t].pc \notin Outside, Raise(t)
  PROVE  /\ Kept
         /\ \E r : th' = [th EXCEPT ![t] = r] /\ Good(t, r) /\ Over(r)
                   /\ (t # Main => r = Rest) /\ r.pc # "read"
<1>1. CASE t # Main
  <2>1. /\ tasks' = [tasks EXCEPT ![th[t].task].st = "failed"]
        /\ th' = [th EXCEPT ![t] = Rest] /\ UNCHANGED <<agenda, raised>>
    BY <1>1 DEF Raise
  <2>2. tasks \in Seq(TaskType) BY DEF PoolTypes
  <2>3. Kept BY <2>1, <2>2, TaskChanges DEF PoolTypes, Kept
  <2>4. Rest.pc # "read" BY DEF Rest
  <2> QED BY <2>1, <2>3, <2>4, RestGood
<1>2. CASE t = Main /\ th[t].caller = "fetch"
  <2>1. th' = [th EXCEPT ![t] = Rest] /\ raised' = TRUE /\ UNCHANGED <<tasks, agenda>>
    BY <1>2 DEF Raise
  <2>2. Kept BY <2>1 DEF PoolTypes, Kept
  <2>4. Rest.pc # "read" BY DEF Rest
  <2> QED BY <1>2, <2>1, <2>2, <2>4, RestGood
<1>3. CASE t = Main /\ th[t].caller # "fetch"
  <2> DEFINE r == [Rest EXCEPT !.pc = th[t].caller, !.caller = th[t].caller]
  <2>1. /\ agenda' = [agenda EXCEPT !.next = @ + 1]
        /\ th' = [th EXCEPT ![t] = r] /\ UNCHANGED <<tasks, raised>>
    BY <1>3 DEF Raise
  <2>2. th[t].caller \in Callers BY <1>3 DEF Good, MainGood
  <2>3. /\ r \in ThreadType /\ MainGood(r) /\ Over(r) /\ r.pc # "read"
    BY <1>3, <2>2 DEF Rest, ThreadType, PCs, MainGood, Outside, Over, Callers
  <2> HIDE DEF r
  <2>4. Kept BY <2>1, AgendaGoesOn DEF PoolTypes, Kept
  <2> QED BY <1>3, <2>1, <2>3, <2>4 DEF Good
<1> QED BY <1>1, <1>2, <1>3

\* A step that only moves the thread's pc.
LEMMA PoolGoto ==
  ASSUME PoolTypes, NEW t \in Threads, NEW p \in PCs, Goto(t, p)
  PROVE  /\ th' = [th EXCEPT ![t] = [th[t] EXCEPT !.pc = p]]
         /\ [th[t] EXCEPT !.pc = p] \in ThreadType
<1>1. th \in [Threads -> ThreadType] /\ th[t] \in ThreadType BY DEF PoolTypes
<1>2. th' = [th EXCEPT ![t].pc = p] BY DEF Goto
<1> QED BY <1>1, <1>2 DEF ThreadType

\* get returns to put, to the session adapter or to fetch_expert.
LEMMA PoolAfterGet ==
  ASSUME PoolTypes, NEW t \in Threads, Good(t, th[t]), th[t].pc \in Getting,
         NEW found \in BOOLEAN, AfterGet(t, found)
  PROVE  /\ Kept
         /\ \E p \in PCs : LET r == [th[t] EXCEPT !.pc = p] IN
              /\ th' = [th EXCEPT ![t] = r] /\ Good(t, r)
              /\ IF th[t].nested THEN p = "store" ELSE t = Main /\ Over(r)
<1>1. th[t] \in ThreadType /\ th[t].key \in Keys /\ th[t].pc \notin Outside
  BY DEF PoolTypes, Getting, Outside, Good, MainGood, WorkerGood
<1>2. CASE th[t].nested
  <2> DEFINE r == [th[t] EXCEPT !.pc = "store"]
  <2>1. Goto(t, "store") /\ NoRaise BY <1>2 DEF AfterGet
  <2>2. "store" \in PCs BY DEF PCs
  <2>3. th' = [th EXCEPT ![t] = r] /\ r \in ThreadType BY <2>1, <2>2, PoolGoto
  <2>4. r.pc = "store" /\ r.key = th[t].key /\ r.caller = th[t].caller BY <1>1 DEF ThreadType
  <2> HIDE DEF r
  <2>5. Good(t, r)
    BY <1>1, <2>3, <2>4 DEF Good, MainGood, WorkerGood, Working, Outside, PCs, Getting
  <2>6. Kept BY <2>1, NothingElse DEF NoRaise
  <2> QED BY <1>2, <2>2, <2>3, <2>5, <2>6 DEF r
<1>3. CASE ~th[t].nested
  <2>0. t = Main BY <1>3 DEF Good, WorkerGood
  <2>1. PICK p \in {"pinRam", "promoted", "read"} : Goto(t, p) /\ Kept
    <3>1. CASE th[t].caller = "pinRam"
      <4>1. Goto(t, "pinRam") /\ agenda' = [agenda EXCEPT !.next = @ + 1] /\ UNCHANGED <<tasks, raised>>
        BY <1>3, <3>1 DEF AfterGet
      <4>2. Kept BY <4>1, AgendaGoesOn DEF PoolTypes, Kept
      <4> QED BY <4>1, <4>2
    <3>2. CASE th[t].caller # "pinRam"
      <4>1. Goto(t, IF found THEN "promoted" ELSE "read") /\ NoRaise BY <1>3, <3>2 DEF AfterGet
      <4>2. Kept BY <4>1, NothingElse DEF NoRaise
      <4> QED BY <4>1, <4>2
    <3> QED BY <3>1, <3>2
  <2> DEFINE r == [th[t] EXCEPT !.pc = p]
  <2>2. p \in PCs BY DEF PCs
  <2>3. th' = [th EXCEPT ![t] = r] /\ r \in ThreadType BY <2>1, <2>2, PoolGoto
  <2>4. /\ r.pc = p /\ r.key = th[t].key /\ r.caller = th[t].caller /\ r.nested = th[t].nested
    BY <1>1 DEF ThreadType
  <2> HIDE DEF r
  <2>5. th[t].caller \in Callers BY <1>1, <2>0 DEF Good, MainGood
  <2>6. Good(t, r) /\ Over(r)
    BY <1>1, <1>3, <2>0, <2>3, <2>4, <2>5 DEF Good, MainGood, Over, Outside
  <2> QED BY <1>3, <2>0, <2>1, <2>2, <2>3, <2>6 DEF r
<1> QED BY <1>2, <1>3

\* put returns to fetch_expert, or ends a worker's task.
LEMMA PoolReturn ==
  ASSUME PoolTypes, NEW t \in Threads, Good(t, th[t]), th[t].pc \notin Outside, Return(t),
         UNCHANGED <<agenda, raised>>
  PROVE  /\ Kept
         /\ \E r : th' = [th EXCEPT ![t] = r] /\ Good(t, r) /\ Over(r) /\ (t # Main => r = Rest)
                   /\ r.pc # "read"
<1>1. CASE t = Main
  <2> DEFINE r == [th[t] EXCEPT !.pc = "promoted", !.nested = FALSE, !.seen = 0]
  <2>1. th' = [th EXCEPT ![t] = r] /\ UNCHANGED tasks
    <3>1. th \in [Threads -> ThreadType] BY DEF PoolTypes
    <3> QED BY <1>1, <3>1 DEF Return, ThreadType
  <2>2. th[t] \in ThreadType BY DEF PoolTypes
  <2>3. /\ r \in ThreadType /\ r.pc = "promoted" /\ ~r.nested /\ r.key = th[t].key
        /\ r.caller = th[t].caller
    BY <2>2 DEF ThreadType, PCs
  <2> HIDE DEF r
  <2>4. Good(t, r) /\ Over(r) BY <1>1, <2>3 DEF Good, MainGood, Over, Outside
  <2>5. Kept BY <2>1, NothingElse
  <2> QED BY <1>1, <2>1, <2>3, <2>4, <2>5
<1>2. CASE t # Main
  <2>1. tasks' = [tasks EXCEPT ![th[t].task].st = "done"] /\ th' = [th EXCEPT ![t] = Rest]
    BY <1>2 DEF Return
  <2>2. tasks \in Seq(TaskType) BY DEF PoolTypes
  <2>3. Kept BY <2>1, <2>2, TaskChanges DEF PoolTypes, Kept
  <2>4. Rest.pc # "read" BY DEF Rest
  <2> QED BY <2>1, <2>3, <2>4, RestGood
<1> QED BY <1>1, <1>2

\* Moving on inside the cache leaves a thread's record good.
LEMMA GoodMove ==
  ASSUME NEW t \in Threads, NEW q, Good(t, q), q.pc \notin Outside,
         NEW p \in PCs \ (Outside \union {"promoted", "demoted"}),
         t # Main /\ p \in Getting => q.nested
  PROVE  LET r == [q EXCEPT !.pc = p] IN
         Good(t, r) /\ r.pc = p /\ r.key = q.key /\ r.nested = q.nested
<1> DEFINE r == [q EXCEPT !.pc = p]
<1>1. q \in ThreadType BY DEF Good
<1>2. /\ r \in ThreadType /\ r.pc = p /\ r.key = q.key /\ r.nested = q.nested
      /\ r.caller = q.caller
  BY <1>1 DEF ThreadType
<1> HIDE DEF r
<1>3. q.key \in Keys /\ (t = Main => q.caller \in Callers)
  BY DEF Good, MainGood, WorkerGood, Outside
<1>4. Good(t, r) BY <1>2, <1>3 DEF Good, MainGood, WorkerGood, Working, Outside, Getting
<1> QED BY <1>2, <1>4 DEF r

\* A step of get, put or the read keeps the types and the record of its thread.
LEMMA CacheTypes ==
  ASSUME PoolTypes, NEW t \in Threads, Good(t, th[t]), th[t].pc \notin Outside,
         Get(t) \/ Put(t) \/ Read(t)
  PROVE  /\ probationary' \in Dict /\ protected' \in Dict /\ hits' \in Dict
         /\ UNCHANGED <<hot, freq, session, pending, calls>> /\ Kept
         /\ \E r : th' = [th EXCEPT ![t] = r] /\ Good(t, r)
<1> USE DEF At, Key, cache, gpu, pins, pool
<1> DEFINE k == th[t].key
<1>0. /\ probationary \in Dict /\ protected \in Dict /\ hits \in Dict /\ k \in Keys
      /\ th[t] \in ThreadType /\ th \in [Threads -> ThreadType]
  BY DEF PoolTypes, Good, MainGood, WorkerGood, Outside
<1>n. t # Main /\ th[t].pc \in Getting => th[t].nested BY DEF Good, WorkerGood
<1>g. ASSUME NEW p \in PCs \ (Outside \union {"promoted", "demoted"}), Goto(t, p),
             t # Main /\ p \in Getting => th[t].nested
      PROVE  \E r : th' = [th EXCEPT ![t] = r] /\ Good(t, r)
  <2>1. Good(t, [th[t] EXCEPT !.pc = p]) BY <1>g, GoodMove
  <2>2. th' = [th EXCEPT ![t] = [th[t] EXCEPT !.pc = p]] BY <1>g, PoolGoto
  <2> QED BY <2>1, <2>2
<1>c. ASSUME Counted(k) PROVE hits' \in Dict
  <2>1. Has(hits, k) => MoveToEnd(hits, k) \in Dict BY <1>0, MoveToEndFacts
  <2>2. ~Has(hits, k) => Append(hits, k) \in Dict BY <1>0, AppendedKey
  <2> QED BY <1>c, <2>1, <2>2 DEF Counted
<1>r. ASSUME Raise(t) PROVE Kept /\ \E r : th' = [th EXCEPT ![t] = r] /\ Good(t, r)
  BY <1>r, PoolRaise
<1>a. ASSUME th[t].pc \in Getting, NEW found \in BOOLEAN, AfterGet(t, found)
      PROVE  Kept /\ \E r : th' = [th EXCEPT ![t] = r] /\ Good(t, r)
  BY <1>a, PoolAfterGet
<1>t. ASSUME Return(t), UNCHANGED <<agenda, raised>>
      PROVE  Kept /\ \E r : th' = [th EXCEPT ![t] = r] /\ Good(t, r)
  BY <1>t, PoolReturn
<1>1. CASE \/ LookProtected(t) \/ CheckRoom(t) \/ LookToStore(t) \/ CheckFull(t) \/ Read(t)
  <2>1. PICK p \in {"refresh", "lookCold", "demote", "promote", "storeWarm", "storeCold", "evict",
                    "insert", "put"} :
          Goto(t, p) /\ (p \in Getting => th[t].pc \in Getting)
    BY <1>1 DEF LookProtected, CheckRoom, LookToStore, CheckFull, Read, Getting
  <2>2. p \in PCs \ (Outside \union {"promoted", "demoted"}) BY DEF PCs, Outside
  <2>3. UNCHANGED <<probationary, protected, hits, hot, freq, session, pending, calls, tasks, agenda, raised>>
    BY <1>1 DEF LookProtected, CheckRoom, LookToStore, CheckFull, Read
  <2> QED BY <1>0, <1>g, <1>n, <2>1, <2>2, <2>3, NothingElse
<1>2. CASE Refresh(t)
  <2>1. UNCHANGED <<probationary, hot, freq, session, pending, calls>> BY <1>2 DEF Refresh
  <2>2. CASE Has(protected, k)
    <3>1. protected' = MoveToEnd(protected, k) /\ Counted(k) /\ Goto(t, "readWarm") /\ NoRaise
      BY <1>2, <2>2 DEF Refresh
    <3>2. protected' \in Dict /\ hits' \in Dict BY <1>0, <1>c, <2>2, <3>1, MoveToEndFacts
    <3>3. "readWarm" \in PCs \ (Outside \union {"promoted", "demoted"}) BY DEF PCs, Outside
    <3>4. th[t].pc \in Getting BY <1>2 DEF Refresh, Getting
    <3> QED BY <1>0, <1>g, <1>n, <2>1, <3>1, <3>2, <3>3, <3>4, NothingElse DEF NoRaise
  <2>3. CASE ~Has(protected, k)
    <3>1. Raise(t) /\ UNCHANGED <<protected, hits>> BY <1>2, <2>3 DEF Refresh
    <3> QED BY <1>0, <1>r, <2>1, <3>1
  <2> QED BY <2>2, <2>3
<1>3. CASE ReadWarm(t) \/ LookProbationary(t)
  <2>1. UNCHANGED <<probationary, protected, hits, hot, freq, session, pending, calls>>
        /\ th[t].pc \in Getting
    BY <1>3 DEF ReadWarm, LookProbationary, Getting
  <2>2. Raise(t) \/ AfterGet(t, TRUE) \/ AfterGet(t, FALSE) \/ (Goto(t, "pop") /\ NoRaise)
    BY <1>3 DEF ReadWarm, LookProbationary
  <2>3. "pop" \in PCs \ (Outside \union {"promoted", "demoted"}) BY DEF PCs, Outside
  <2> QED BY <1>0, <1>a, <1>g, <1>n, <1>r, <2>1, <2>2, <2>3, NothingElse DEF NoRaise
<1>4. CASE PopHit(t)
  <2>1. UNCHANGED <<protected, hits, hot, freq, session, pending, calls>> BY <1>4 DEF PopHit
  <2>2. CASE Has(probationary, k)
    <3>1. probationary' = Without(probationary, k) /\ Goto(t, "room") /\ NoRaise
      BY <1>4, <2>2 DEF PopHit
    <3>2. probationary' \in Dict BY <1>0, <2>2, <3>1, WithoutFacts
    <3>3. "room" \in PCs \ (Outside \union {"promoted", "demoted"}) BY DEF PCs, Outside
    <3>4. th[t].pc \in Getting BY <1>4 DEF PopHit, Getting
    <3> QED BY <1>0, <1>g, <1>n, <2>1, <3>1, <3>2, <3>3, <3>4, NothingElse DEF NoRaise
  <2>3. CASE ~Has(probationary, k)
    <3>1. Raise(t) /\ UNCHANGED probationary BY <1>4, <2>3 DEF PopHit
    <3> QED BY <1>0, <1>r, <2>1, <3>1
  <2> QED BY <2>2, <2>3
<1>5. CASE Demote(t)
  <2>1. UNCHANGED <<probationary, hits, hot, freq, session, pending, calls>> BY <1>5 DEF Demote
  <2>2. CASE protected # <<>>
    <3> DEFINE r == [th[t] EXCEPT !.pc = "demoted", !.demoted = Head(protected)]
    <3>1. protected' = Tail(protected) /\ th' = [th EXCEPT ![t] = r] /\ NoRaise
      <4>1. th' = [th EXCEPT ![t].pc = "demoted", ![t].demoted = Head(protected)]
        BY <1>5, <2>2 DEF Demote
      <4> QED BY <1>0, <1>5, <2>2, <4>1 DEF Demote, ThreadType
    <3>2. protected' \in Dict /\ Head(protected) \in Keys BY <1>0, <2>2, <3>1, EvictedKey
    <3>3. /\ r \in ThreadType /\ r.pc = "demoted" /\ r.demoted \in Keys /\ r.key = k
          /\ r.caller = th[t].caller /\ r.nested = th[t].nested
      BY <1>0, <3>2 DEF ThreadType, PCs
    <3>4. th[t].pc \in Getting BY <1>5 DEF Demote, Getting
    <3>5. t = Main => th[t].caller \in Callers BY DEF Good, MainGood
    <3> HIDE DEF r
    <3>6. Good(t, r)
      BY <1>0, <1>n, <3>3, <3>4, <3>5 DEF Good, MainGood, WorkerGood, Working, Outside, PCs
    <3> QED BY <1>0, <2>1, <3>1, <3>2, <3>6, NothingElse DEF NoRaise
  <2>3. CASE protected = <<>>
    <3>1. Raise(t) /\ UNCHANGED protected BY <1>5, <2>3 DEF Demote
    <3> QED BY <1>0, <1>r, <2>1, <3>1
  <2> QED BY <2>2, <2>3
<1>6. CASE PutDemoted(t)
  <2> DEFINE r == [th[t] EXCEPT !.pc = "promote", !.demoted = Main]
  <2>1. /\ probationary' = Insert(probationary, th[t].demoted) /\ th' = [th EXCEPT ![t] = r]
        /\ UNCHANGED <<protected, hits, hot, freq, session, pending, calls, tasks, agenda, raised>>
    <3>1. th' = [th EXCEPT ![t].pc = "promote", ![t].demoted = Main] BY <1>6 DEF PutDemoted
    <3> QED BY <1>0, <1>6, <3>1 DEF PutDemoted, ThreadType
  <2>2. th[t].pc = "demoted" /\ th[t].demoted \in Keys
    BY <1>6 DEF PutDemoted, Good, MainGood, WorkerGood
  <2>3. probationary' \in Dict BY <1>0, <2>1, <2>2, InsertFacts
  <2>4. /\ r \in ThreadType /\ r.pc = "promote" /\ r.key = k
        /\ r.caller = th[t].caller /\ r.nested = th[t].nested
    BY <1>0 DEF ThreadType, PCs
  <2>5. th[t].pc \in Getting BY <2>2 DEF Getting
  <2>6. t = Main => th[t].caller \in Callers BY DEF Good, MainGood
  <2> HIDE DEF r
  <2>7. Good(t, r)
    BY <1>0, <1>n, <2>4, <2>5, <2>6 DEF Good, MainGood, WorkerGood, Working, Outside, PCs
  <2> QED BY <1>0, <2>1, <2>3, <2>7, NothingElse
<1>7. CASE PromoteHit(t)
  <2>1. /\ protected' = Insert(protected, k) /\ Counted(k) /\ AfterGet(t, TRUE)
        /\ UNCHANGED <<probationary, hot, freq, session, pending, calls>> /\ th[t].pc \in Getting
    BY <1>7 DEF PromoteHit, Getting
  <2>2. protected' \in Dict BY <1>0, <2>1, InsertFacts
  <2> QED BY <1>0, <1>a, <1>c, <2>1, <2>2
<1>8. CASE LookForWarm(t) \/ LookForCold(t)
  <2>1. PICK p \in {"get", "putCold", "full"}, b \in BOOLEAN :
          /\ th' = [th EXCEPT ![t] = [th[t] EXCEPT !.pc = p, !.nested = b]] /\ (p = "get" => b)
          /\ UNCHANGED <<probationary, protected, hits, hot, freq, session, pending, calls, tasks, agenda,
                         raised>>
    <3>1. CASE LookForWarm(t)
      <4> DEFINE b == Has(protected, k)
                 p == IF b THEN "get" ELSE "putCold"
      <4>1. th' = [th EXCEPT ![t].pc = p, ![t].nested = b] BY <3>1 DEF LookForWarm
      <4>2. th' = [th EXCEPT ![t] = [th[t] EXCEPT !.pc = p, !.nested = b]] BY <1>0, <4>1 DEF ThreadType
      <4>3. b \in BOOLEAN BY DEF Has
      <4> QED BY <3>1, <4>2, <4>3 DEF LookForWarm
    <3>2. CASE LookForCold(t)
      <4> DEFINE b == Has(probationary, k)
                 p == IF b THEN "get" ELSE "full"
      <4>1. th' = [th EXCEPT ![t].pc = p, ![t].nested = b] BY <3>2 DEF LookForCold
      <4>2. th' = [th EXCEPT ![t] = [th[t] EXCEPT !.pc = p, !.nested = b]] BY <1>0, <4>1 DEF ThreadType
      <4>3. b \in BOOLEAN BY DEF Has
      <4> QED BY <3>2, <4>2, <4>3 DEF LookForCold
    <3> QED BY <1>8, <3>1, <3>2
  <2> DEFINE r == [th[t] EXCEPT !.pc = p, !.nested = b]
  <2>2. /\ r \in ThreadType /\ r.pc = p /\ r.key = k /\ r.caller = th[t].caller /\ r.nested = b
    BY <1>0 DEF ThreadType, PCs
  <2>3. t = Main => th[t].caller \in Callers BY DEF Good, MainGood
  <2> HIDE DEF r
  <2>4. Good(t, r)
    BY <1>0, <2>1, <2>2, <2>3 DEF Good, MainGood, WorkerGood, Working, Outside, PCs, Getting
  <2>5. Kept BY <2>1, NothingElse
  <2> QED BY <1>0, <2>1, <2>4, <2>5 DEF r
<1>9. CASE StoreWarm(t) \/ StoreCold(t)
  <2>1. /\ Return(t) /\ UNCHANGED <<hits, hot, freq, session, agenda, pending, raised, calls>>
        /\ \/ protected' = Insert(protected, k) /\ probationary' = probationary
           \/ probationary' = Insert(probationary, k) /\ protected' = protected
    BY <1>9 DEF StoreWarm, StoreCold
  <2>2. protected' \in Dict /\ probationary' \in Dict BY <1>0, <2>1, InsertFacts
  <2> QED BY <1>0, <1>t, <2>1, <2>2
<1>10. CASE Evict(t)
  <2>1. UNCHANGED <<protected, hits, hot, freq, session, pending, calls>> BY <1>10 DEF Evict
  <2>2. CASE probationary # <<>>
    <3>1. probationary' = Tail(probationary) /\ Goto(t, "insert") /\ NoRaise BY <1>10, <2>2 DEF Evict
    <3>2. probationary' \in Dict BY <1>0, <2>2, <3>1, EvictedKey
    <3>3. "insert" \in PCs \ (Outside \union {"promoted", "demoted"}) /\ "insert" \notin Getting
      BY DEF PCs, Outside, Getting
    <3> QED BY <1>0, <1>g, <2>1, <3>1, <3>2, <3>3, NothingElse DEF NoRaise
  <2>3. CASE probationary = <<>>
    <3>1. Raise(t) /\ UNCHANGED probationary BY <1>10, <2>3 DEF Evict
    <3> QED BY <1>0, <1>r, <2>1, <3>1
  <2> QED BY <2>2, <2>3
<1>11. CASE InsertCold(t)
  <2>1. /\ Goto(t, "assert") /\ probationary' = Insert(probationary, k)
        /\ UNCHANGED <<protected, hits, hot, freq, session, pending, calls, tasks, agenda, raised>>
    BY <1>11 DEF InsertCold
  <2>2. probationary' \in Dict BY <1>0, <2>1, InsertFacts
  <2>3. "assert" \in PCs \ (Outside \union {"promoted", "demoted"}) /\ "assert" \notin Getting
    BY DEF PCs, Outside, Getting
  <2> QED BY <1>0, <1>g, <2>1, <2>2, <2>3, NothingElse
<1>12. CASE CountCold(t)
  <2> DEFINE n == Len(probationary)
             r == [th[t] EXCEPT !.pc = "sum", !.seen = n]
  <2>1. /\ th' = [th EXCEPT ![t] = r]
        /\ UNCHANGED <<probationary, protected, hits, hot, freq, session, pending, calls, tasks, agenda, raised>>
    <3>1. th' = [th EXCEPT ![t].pc = "sum", ![t].seen = n] BY <1>12 DEF CountCold
    <3> QED BY <1>0, <1>12, <3>1 DEF CountCold, ThreadType
  <2>2. n \in Nat BY <1>0, DictLen
  <2>3. /\ r \in ThreadType /\ r.pc = "sum" /\ r.key = k /\ r.caller = th[t].caller
    BY <1>0, <2>2 DEF ThreadType, PCs
  <2>4. t = Main => th[t].caller \in Callers BY DEF Good, MainGood
  <2> HIDE DEF r
  <2>5. Good(t, r)
    BY <1>0, <2>3, <2>4 DEF Good, MainGood, WorkerGood, Working, Outside, PCs, Getting
  <2> QED BY <1>0, <2>1, <2>5, NothingElse
<1>13. CASE AssertBound(t)
  <2>1. /\ (Return(t) /\ UNCHANGED <<agenda, raised>>) \/ Raise(t)
        /\ UNCHANGED <<probationary, protected, hits, hot, freq, session, pending, calls>>
    BY <1>13 DEF AssertBound
  <2> QED BY <1>0, <1>r, <1>t, <2>1
<1> QED BY <1>1, <1>2, <1>3, <1>4, <1>5, <1>6, <1>7, <1>8, <1>9, <1>10, <1>11, <1>12, <1>13 DEF Get, Put

\* What a worker may still add to a partition in its task, at each step of it:
\* the keys it adds without a slot, and what Main adds for the keys it removes.
ColdCost(r) ==
  IF r.pc \in {"read", "put", "putCold", "get", "lookCold", "pop", "room", "demote"} THEN 3
  ELSE IF r.pc = "demoted" THEN 2
  ELSE IF r.pc \in {"refresh", "readWarm", "promote", "store", "storeCold", "full", "evict", "insert"} THEN 1
  ELSE 0

WarmCost(r) ==
  IF r.pc \in {"read", "put", "putCold", "get", "lookCold", "pop", "room", "demote", "demoted", "promote"}
    THEN 2
  ELSE IF r.pc \in {"refresh", "readWarm", "store", "storeWarm"} THEN 1
  ELSE 0

\* What Main may still add with no further check: the slot it has made or found
\* free, and the key it has seen in the cache P, Q and will store again.
ColdDebt(r, P, Q) ==
  IF \/ r.pc \in {"room", "demote", "demoted", "insert"}
     \/ r.pc \in {"get", "lookCold"} /\ r.nested /\ r.key \notin P \union Q
     \/ r.pc = "store" /\ r.key \notin P \union Q
     \/ r.pc = "storeCold" /\ r.key \notin P
  THEN 1 ELSE 0

WarmDebt(r, Q) ==
  IF \/ r.pc \in {"demoted", "promote"}
     \/ r.pc = "storeWarm" /\ r.key \notin Q
  THEN 1 ELSE 0

ColdOfMain == Len(probationary) + ColdDebt(th[Main], ToSet(probationary), ToSet(protected))
WarmOfMain == Len(protected) + WarmDebt(th[Main], ToSet(protected))

LEMMA DebtFacts ==
  ASSUME NEW r, NEW P, NEW Q
  PROVE  /\ ColdDebt(r, P, Q) \in 0..1 /\ WarmDebt(r, Q) \in 0..1
         /\ ColdCost(r) \in 0..3 /\ WarmCost(r) \in 0..2
         /\ Over(r) => ColdDebt(r, P, Q) = 0 /\ WarmDebt(r, Q) = 0
BY DEF ColdDebt, WarmDebt, ColdCost, WarmCost, Over, Outside

\* A larger cache leaves no more to add.
LEMMA DebtShrinks ==
  ASSUME NEW r, NEW P, NEW Q, NEW X, NEW Y, P \subseteq X, Q \subseteq Y
  PROVE  ColdDebt(r, X, Y) <= ColdDebt(r, P, Q) /\ WarmDebt(r, Y) <= WarmDebt(r, Q)
BY DEF ColdDebt, WarmDebt

\* Main adds to a partition only where it has found or made room, except for
\* what a worker has taken from it.
LEMMA MainAccounts ==
  ASSUME PoolTypes, Good(Main, th[Main]), th[Main].pc \notin Outside,
         Get(Main) \/ Put(Main) \/ Read(Main)
  PROVE  /\ ColdOfMain' <= ColdOfMain \/ ColdOfMain' <= ProbationaryCapacity
         /\ WarmOfMain' <= WarmOfMain \/ WarmOfMain' <= ProtectedCapacity
<1> USE DEF At, Key, cache, gpu, pins, pool
<1> DEFINE m == th[Main]  k == m.key
           P == ToSet(probationary)  Q == ToSet(protected)
           A == Len(probationary)  B == Len(protected)
<1>0. /\ probationary \in Dict /\ protected \in Dict /\ k \in Keys
      /\ m \in ThreadType /\ th \in [Threads -> ThreadType] /\ Main \in Threads
  BY DEF PoolTypes, Good, MainGood, Threads
<1>n. A \in Nat /\ B \in Nat /\ ProtectedCapacity \in Nat /\ ProbationaryCapacity \in Nat
  BY <1>0, DictLen, ProtectedSlots, ExpertRuntimeAssumption
<1>h. (Has(probationary, k) <=> k \in P) /\ (Has(protected, k) <=> k \in Q) BY DEF Has
<1>d. /\ ColdDebt(m, P, Q) \in 0..1 /\ WarmDebt(m, Q) \in 0..1
      /\ ColdOfMain = A + ColdDebt(m, P, Q) /\ WarmOfMain = B + WarmDebt(m, Q)
      /\ ColdOfMain' = A' + ColdDebt(m', P', Q') /\ WarmOfMain' = B' + WarmDebt(m', Q')
  BY DebtFacts DEF ColdOfMain, WarmOfMain
<1>o. ASSUME Over(m') PROVE ColdDebt(m', P', Q') = 0 /\ WarmDebt(m', Q') = 0
  BY <1>o, DebtFacts
<1>r. ASSUME Raise(Main) PROVE Over(m')
  <2>1. \E r : th' = [th EXCEPT ![Main] = r] /\ Over(r) BY <1>0, <1>r, PoolRaise
  <2> QED BY <1>0, <2>1
<1>t. ASSUME Return(Main), UNCHANGED <<agenda, raised>> PROVE Over(m')
  <2>1. \E r : th' = [th EXCEPT ![Main] = r] /\ Over(r) BY <1>0, <1>t, PoolReturn
  <2> QED BY <1>0, <2>1
<1>a. ASSUME NEW found \in BOOLEAN, AfterGet(Main, found), m.pc \in Getting
      PROVE  Over(m') \/ (m.nested /\ m'.pc = "store" /\ m'.key = k)
  <2>1. PICK p \in PCs : LET r == [m EXCEPT !.pc = p] IN
              /\ th' = [th EXCEPT ![Main] = r]
              /\ IF m.nested THEN p = "store" ELSE Over(r)
    BY <1>0, <1>a, PoolAfterGet
  <2>2. m' = [m EXCEPT !.pc = p] BY <1>0, <2>1
  <2> QED BY <1>0, <2>1, <2>2 DEF ThreadType
<1>g. ASSUME NEW p \in PCs, Goto(Main, p) PROVE m'.pc = p /\ m'.key = k /\ m'.nested = m.nested
  BY <1>0, <1>g DEF Goto, ThreadType
<1> HIDE DEF P, Q, A, B, m, k
<1>u. ASSUME UNCHANGED <<probationary, protected>> PROVE P' = P /\ Q' = Q /\ A' = A /\ B' = B
  BY <1>u DEF P, Q, A, B
<1>1. CASE LookProtected(Main)
  <2>1. /\ m.pc = "get" /\ UNCHANGED <<probationary, protected>>
        /\ Goto(Main, IF k \in Q THEN "refresh" ELSE "lookCold")
    BY <1>1, <1>h DEF LookProtected, m, k
  <2>2. m'.pc \in {"refresh", "lookCold"} /\ m'.key = k /\ m'.nested = m.nested
    BY <1>g, <2>1 DEF PCs
  <2> QED BY <1>d, <1>n, <1>u, <2>1, <2>2 DEF ColdDebt, WarmDebt, k
<1>2. CASE Refresh(Main)
  <2>1. CASE k \in Q
    <3>1. /\ protected' = MoveToEnd(protected, k) /\ Goto(Main, "readWarm") /\ probationary' = probationary
      BY <1>2, <1>h, <2>1 DEF Refresh, m, k
    <3>2. A' = A /\ B' = B BY <1>0, <1>h, <2>1, <3>1, MoveToEndFacts DEF A, B
    <3>3. m'.pc = "readWarm" BY <1>g, <3>1 DEF PCs
    <3> QED BY <1>d, <1>n, <3>2, <3>3 DEF ColdDebt, WarmDebt
  <2>2. CASE k \notin Q
    <3>1. Raise(Main) /\ UNCHANGED <<probationary, protected>> BY <1>2, <1>h, <2>2 DEF Refresh, m, k
    <3> QED BY <1>d, <1>n, <1>o, <1>r, <1>u, <3>1
  <2> QED BY <2>1, <2>2
<1>3. CASE ReadWarm(Main)
  <2>1. UNCHANGED <<probationary, protected>> /\ m.pc \in Getting
    BY <1>3 DEF ReadWarm, Getting, m
  <2>2. Raise(Main) \/ (k \in Q /\ AfterGet(Main, TRUE)) BY <1>3, <1>h DEF ReadWarm, m, k
  <2>3. CASE Over(m') BY <1>d, <1>n, <1>o, <1>u, <2>1, <2>3
  <2>4. CASE k \in Q /\ m'.pc = "store" /\ m'.key = k
    BY <1>d, <1>n, <1>u, <2>1, <2>4 DEF ColdDebt, WarmDebt
  <2> QED BY <1>a, <1>r, <2>1, <2>2, <2>3, <2>4
<1>4. CASE LookProbationary(Main)
  <2>1. UNCHANGED <<probationary, protected>> /\ m.pc = "lookCold" /\ m.pc \in Getting
    BY <1>4 DEF LookProbationary, Getting, m
  <2>2. Goto(Main, "pop") \/ AfterGet(Main, FALSE) BY <1>4 DEF LookProbationary
  <2>3. CASE Goto(Main, "pop")
    <3>1. m'.pc = "pop" BY <1>g, <2>3 DEF PCs
    <3> QED BY <1>d, <1>n, <1>u, <2>1, <3>1 DEF ColdDebt, WarmDebt
  <2>4. CASE Over(m') BY <1>d, <1>n, <1>o, <1>u, <2>1, <2>4
  <2>5. CASE m.nested /\ m'.pc = "store" /\ m'.key = k
    BY <1>d, <1>n, <1>u, <2>1, <2>5 DEF ColdDebt, WarmDebt, k
  <2> QED BY <1>a, <2>1, <2>2, <2>3, <2>4, <2>5
<1>5. CASE PopHit(Main)
  <2>1. CASE k \in P
    <3>1. /\ probationary' = Without(probationary, k) /\ Goto(Main, "room") /\ protected' = protected
      BY <1>5, <1>h, <2>1 DEF PopHit, m, k
    <3>2. A' = A - 1 /\ B' = B BY <1>0, <1>h, <2>1, <3>1, WithoutFacts DEF A, B
    <3>3. m'.pc = "room" BY <1>g, <3>1 DEF PCs
    <3> QED BY <1>d, <1>n, <3>2, <3>3 DEF ColdDebt, WarmDebt
  <2>2. CASE k \notin P
    <3>1. Raise(Main) /\ UNCHANGED <<probationary, protected>> BY <1>5, <1>h, <2>2 DEF PopHit, m, k
    <3> QED BY <1>d, <1>n, <1>o, <1>r, <1>u, <3>1
  <2> QED BY <2>1, <2>2
<1>6. CASE CheckRoom(Main)
  <2>1. /\ m.pc = "room" /\ UNCHANGED <<probationary, protected>>
        /\ Goto(Main, IF B >= ProtectedCapacity THEN "demote" ELSE "promote")
    BY <1>6 DEF CheckRoom, m, B
  <2>2. m'.pc = (IF B >= ProtectedCapacity THEN "demote" ELSE "promote") BY <1>g, <2>1 DEF PCs
  <2> QED BY <1>d, <1>n, <1>u, <2>1, <2>2 DEF ColdDebt, WarmDebt
<1>7. CASE Demote(Main)
  <2>1. CASE protected # <<>>
    <3>1. /\ protected' = Tail(protected) /\ probationary' = probationary /\ m.pc = "demote"
          /\ th' = [th EXCEPT ![Main].pc = "demoted", ![Main].demoted = Head(protected)]
      BY <1>7, <2>1 DEF Demote, m
    <3>2. A' = A /\ B' = B - 1 BY <1>0, <2>1, <3>1, EvictedKey DEF A, B
    <3>3. m'.pc = "demoted" BY <1>0, <3>1 DEF ThreadType, m
    <3> QED BY <1>d, <1>n, <3>1, <3>2, <3>3 DEF ColdDebt, WarmDebt
  <2>2. CASE protected = <<>>
    <3>1. Raise(Main) /\ UNCHANGED <<probationary, protected>> BY <1>7, <2>2 DEF Demote
    <3> QED BY <1>d, <1>n, <1>o, <1>r, <1>u, <3>1
  <2> QED BY <2>1, <2>2
<1>8. CASE PutDemoted(Main)
  <2>1. /\ probationary' = Insert(probationary, m.demoted) /\ m.pc = "demoted" /\ protected' = protected
        /\ th' = [th EXCEPT ![Main].pc = "promote", ![Main].demoted = Main]
    BY <1>8 DEF PutDemoted, m
  <2>2. m.demoted \in Keys BY <2>1 DEF Good, MainGood, m
  <2>3. A' <= A + 1 /\ A' \in Nat /\ B' = B
    <3>1. /\ probationary' \in Dict
          /\ Len(probationary') = IF Has(probationary, m.demoted) THEN A ELSE A + 1
      BY <1>0, <2>1, <2>2, InsertFacts DEF A
    <3> QED BY <1>n, <2>1, <3>1 DEF A, B
  <2>4. m'.pc = "promote" BY <1>0, <2>1 DEF ThreadType, m
  <2> QED BY <1>d, <1>n, <2>1, <2>3, <2>4 DEF ColdDebt, WarmDebt
<1>9. CASE PromoteHit(Main)
  <2>1. /\ protected' = Insert(protected, k) /\ m.pc = "promote" /\ probationary' = probationary
        /\ AfterGet(Main, TRUE) /\ m.pc \in Getting
    BY <1>9 DEF PromoteHit, Getting, m, k
  <2>2. A' = A /\ (B' = B \/ B' = B + 1) /\ k \in Q'
    <3>1. /\ protected' \in Dict /\ ToSet(protected') = ToSet(protected) \union {k}
          /\ Len(protected') = IF Has(protected, k) THEN B ELSE B + 1
      BY <1>0, <2>1, InsertFacts DEF B
    <3> QED BY <1>n, <2>1, <3>1 DEF A, B, Q
  <2>3. ColdDebt(m, P, Q) = 0 /\ WarmDebt(m, Q) = 1 BY <2>1 DEF ColdDebt, WarmDebt
  <2>4. ColdDebt(m', P', Q') = 0 /\ WarmDebt(m', Q') = 0
    <3>1. CASE Over(m') BY <1>o, <3>1
    <3>2. CASE m'.pc = "store" /\ m'.key = k BY <2>2, <3>2 DEF ColdDebt, WarmDebt
    <3>3. TRUE \in BOOLEAN OBVIOUS
    <3> QED BY <1>a, <2>1, <3>1, <3>2, <3>3
  <2> QED BY <1>d, <1>n, <2>2, <2>3, <2>4
<1>10. CASE LookForWarm(Main)
  <2> DEFINE b == Has(protected, k)
  <2>1. /\ UNCHANGED <<probationary, protected>> /\ m.pc = "put"
        /\ th' = [th EXCEPT ![Main].pc = IF b THEN "get" ELSE "putCold", ![Main].nested = b]
    BY <1>10 DEF LookForWarm, m, k
  <2> HIDE DEF b
  <2>2. /\ m'.pc = (IF b THEN "get" ELSE "putCold") /\ m'.key = k
    BY <1>0, <2>1 DEF ThreadType, m, k
  <2>3. b <=> k \in Q BY <1>h DEF b
  <2> QED BY <1>d, <1>n, <1>u, <2>1, <2>2, <2>3 DEF ColdDebt, WarmDebt
<1>11. CASE LookForCold(Main)
  <2> DEFINE b == Has(probationary, k)
  <2>1. /\ UNCHANGED <<probationary, protected>> /\ m.pc = "putCold"
        /\ th' = [th EXCEPT ![Main].pc = IF b THEN "get" ELSE "full", ![Main].nested = b]
    BY <1>11 DEF LookForCold, m, k
  <2> HIDE DEF b
  <2>2. /\ m'.pc = (IF b THEN "get" ELSE "full") /\ m'.key = k
    BY <1>0, <2>1 DEF ThreadType, m, k
  <2>3. b <=> k \in P BY <1>h DEF b
  <2> QED BY <1>d, <1>n, <1>u, <2>1, <2>2, <2>3 DEF ColdDebt, WarmDebt
<1>12. CASE LookToStore(Main)
  <2>1. /\ m.pc = "store" /\ UNCHANGED <<probationary, protected>>
        /\ Goto(Main, IF k \in Q THEN "storeWarm" ELSE "storeCold")
    BY <1>12, <1>h DEF LookToStore, m, k
  <2>2. m'.pc = (IF k \in Q THEN "storeWarm" ELSE "storeCold") /\ m'.key = k BY <1>g, <2>1 DEF PCs
  <2> QED BY <1>d, <1>n, <1>u, <2>1, <2>2 DEF ColdDebt, WarmDebt, k
<1>13. CASE StoreWarm(Main)
  <2>1. /\ protected' = Insert(protected, k) /\ m.pc = "storeWarm" /\ probationary' = probationary
        /\ Return(Main) /\ UNCHANGED <<agenda, raised>>
    BY <1>13 DEF StoreWarm, m, k
  <2>2. A' = A /\ B' = IF k \in Q THEN B ELSE B + 1
    BY <1>0, <1>h, <2>1, InsertFacts DEF A, B
  <2>3. Over(m') BY <1>t, <2>1
  <2> QED BY <1>d, <1>n, <1>o, <2>1, <2>2, <2>3 DEF ColdDebt, WarmDebt, k
<1>14. CASE StoreCold(Main)
  <2>1. /\ probationary' = Insert(probationary, k) /\ m.pc = "storeCold" /\ protected' = protected
        /\ Return(Main) /\ UNCHANGED <<agenda, raised>>
    BY <1>14 DEF StoreCold, m, k
  <2>2. B' = B /\ A' = IF k \in P THEN A ELSE A + 1
    BY <1>0, <1>h, <2>1, InsertFacts DEF A, B
  <2>3. Over(m') BY <1>t, <2>1
  <2> QED BY <1>d, <1>n, <1>o, <2>1, <2>2, <2>3 DEF ColdDebt, WarmDebt, k
<1>15. CASE CheckFull(Main)
  <2>1. /\ m.pc = "full" /\ UNCHANGED <<probationary, protected>>
        /\ Goto(Main, IF A >= ProbationaryCapacity THEN "evict" ELSE "insert")
    BY <1>15 DEF CheckFull, m, A
  <2>2. m'.pc = (IF A >= ProbationaryCapacity THEN "evict" ELSE "insert") BY <1>g, <2>1 DEF PCs
  <2> QED BY <1>d, <1>n, <1>u, <2>1, <2>2 DEF ColdDebt, WarmDebt
<1>16. CASE Evict(Main)
  <2>1. CASE probationary # <<>>
    <3>1. probationary' = Tail(probationary) /\ protected' = protected /\ Goto(Main, "insert")
      BY <1>16, <2>1 DEF Evict
    <3>2. A' = A - 1 /\ B' = B BY <1>0, <2>1, <3>1, EvictedKey DEF A, B
    <3>3. m'.pc = "insert" BY <1>g, <3>1 DEF PCs
    <3> QED BY <1>d, <1>n, <3>2, <3>3 DEF ColdDebt, WarmDebt
  <2>2. CASE probationary = <<>>
    <3>1. Raise(Main) /\ UNCHANGED <<probationary, protected>> BY <1>16, <2>2 DEF Evict
    <3> QED BY <1>d, <1>n, <1>o, <1>r, <1>u, <3>1
  <2> QED BY <2>1, <2>2
<1>17. CASE InsertCold(Main)
  <2>1. /\ probationary' = Insert(probationary, k) /\ m.pc = "insert" /\ protected' = protected
        /\ Goto(Main, "assert")
    BY <1>17 DEF InsertCold, m, k
  <2>2. B' = B /\ A' = IF k \in P THEN A ELSE A + 1
    BY <1>0, <1>h, <2>1, InsertFacts DEF A, B
  <2>3. m'.pc = "assert" BY <1>g, <2>1 DEF PCs
  <2> QED BY <1>d, <1>n, <2>1, <2>2, <2>3 DEF ColdDebt, WarmDebt
<1>18. CASE CountCold(Main) \/ Read(Main)
  <2>1. UNCHANGED <<probationary, protected>> BY <1>18 DEF CountCold, Read
  <2>2. m'.pc \in {"sum", "put"}
    BY <1>0, <1>18 DEF CountCold, Read, Goto, ThreadType, m
  <2> QED BY <1>d, <1>n, <1>u, <2>1, <2>2 DEF ColdDebt, WarmDebt
<1>19. CASE AssertBound(Main)
  <2>1. UNCHANGED <<probationary, protected>> /\ (Raise(Main) \/ (Return(Main) /\ UNCHANGED <<agenda, raised>>))
    BY <1>19 DEF AssertBound
  <2> QED BY <1>d, <1>n, <1>o, <1>r, <1>t, <1>u, <2>1
<1> QED BY <1>1, <1>2, <1>3, <1>4, <1>5, <1>6, <1>7, <1>8, <1>9, <1>10, <1>11, <1>12, <1>13, <1>14, <1>15,
           <1>16, <1>17, <1>18, <1>19 DEF Get, Put

\* A worker pays for each key it adds to a partition, and for each key it takes
\* away that Main may store again.
LEMMA WorkerAccounts ==
  ASSUME PoolTypes, NEW w \in Workers, Good(w, th[w]), th[w].pc \notin Outside,
         Get(w) \/ Put(w) \/ Read(w)
  PROVE  /\ th'[Main] = th[Main]
         /\ ColdCost(th'[w]) <= ColdCost(th[w]) /\ WarmCost(th'[w]) <= WarmCost(th[w])
         /\ ColdOfMain' + ColdCost(th'[w]) <= ColdOfMain + ColdCost(th[w])
         /\ WarmOfMain' + WarmCost(th'[w]) <= WarmOfMain + WarmCost(th[w])
<1> USE DEF At, Key, cache, gpu, pins, pool
<1> DEFINE m == th[Main]  q == th[w]  k == q.key
           P == ToSet(probationary)  Q == ToSet(protected)
           A == Len(probationary)  B == Len(protected)
           c == ColdCost(q)  v == WarmCost(q)
           D == ColdDebt(m, P, Q)  E == WarmDebt(m, Q)
<1>0. /\ probationary \in Dict /\ protected \in Dict /\ k \in Keys
      /\ q \in ThreadType /\ th \in [Threads -> ThreadType] /\ Main \in Threads /\ w \in Threads
      /\ w # Main
  BY ExpertRuntimeAssumption DEF PoolTypes, Good, WorkerGood, Threads, Outside
<1>n. A \in Nat /\ B \in Nat /\ D \in 0..1 /\ E \in 0..1
  BY <1>0, DictLen, DebtFacts
<1>h. (Has(probationary, k) <=> k \in P) /\ (Has(protected, k) <=> k \in Q) BY DEF Has
<1>i. q.pc \in Getting => q.nested BY <1>0 DEF Good, WorkerGood
<1>m. m' = m
  <2>1. \E r : th' = [th EXCEPT ![w] = r] BY <1>0, CacheTypes
  <2> QED BY <1>0, <2>1
<1>d. /\ ColdOfMain = A + D /\ ColdOfMain' = A' + D' /\ WarmOfMain = B + E /\ WarmOfMain' = B' + E'
      /\ D' \in 0..1 /\ E' \in 0..1 /\ c' \in 0..3 /\ v' \in 0..2
  BY DebtFacts DEF ColdOfMain, WarmOfMain
<1>r. ASSUME Raise(w) PROVE c' = 0 /\ v' = 0
  <2>1. \E r : th' = [th EXCEPT ![w] = r] /\ Over(r) BY <1>0, <1>r, PoolRaise
  <2>2. Over(q') BY <1>0, <2>1
  <2>3. q' = Rest
    <3>1. \E r : th' = [th EXCEPT ![w] = r] /\ r = Rest BY <1>0, <1>r, PoolRaise
    <3> QED BY <1>0, <3>1
  <2> QED BY <2>3 DEF Rest, ColdCost, WarmCost
<1>t. ASSUME Return(w), UNCHANGED <<agenda, raised>> PROVE c' = 0 /\ v' = 0
  <2>1. q' = Rest
    <3>1. \E r : th' = [th EXCEPT ![w] = r] /\ r = Rest BY <1>0, <1>t, PoolReturn
    <3> QED BY <1>0, <3>1
  <2> QED BY <2>1 DEF Rest, ColdCost, WarmCost
<1>g. ASSUME NEW p \in PCs, Goto(w, p) PROVE q'.pc = p
  BY <1>0, <1>g DEF Goto, ThreadType
<1>a. ASSUME NEW found \in BOOLEAN, AfterGet(w, found), q.pc \in Getting PROVE c' = 1 /\ v' = 1
  <2>1. Goto(w, "store") BY <1>a, <1>i DEF AfterGet
  <2>2. q'.pc = "store" BY <1>g, <2>1 DEF PCs
  <2> QED BY <2>2 DEF ColdCost, WarmCost
<1> DEFINE Goal == /\ c' <= c /\ v' <= v /\ A' + D' + c' <= A + D + c /\ B' + E' + v' <= B + E + v
<1>f. SUFFICES Goal BY <1>d, <1>m
<1> HIDE DEF P, Q, A, B, m, q, k, D, E, c, v
<1>e. (D' = D \/ D' = D + 1 \/ D' = D - 1) /\ (E' = E \/ E' = E + 1 \/ E' = E - 1) BY <1>d, <1>n
\* Nothing is added or taken away.
<1>u. ASSUME UNCHANGED <<probationary, protected>>, c \in Nat, v \in Nat, c' <= c, v' <= v PROVE Goal
  <2>1. A' = A /\ B' = B /\ D' = D /\ E' = E BY <1>m, <1>u DEF A, B, D, E, P, Q
  <2>2. A' + D' = A + D /\ B' + E' = B + E BY <1>n, <2>1
  <2>3. c' \in Int /\ v' \in Int /\ A + D \in Int /\ B + E \in Int BY <1>d, <1>n
  <2> QED BY <1>u, <2>2, <2>3
\* Something is added: Main has no more to add.
<1>p. ASSUME P \subseteq P', Q \subseteq Q' PROVE (D' = D \/ D' = D - 1) /\ (E' = E \/ E' = E - 1)
  <2>1. ColdDebt(m, P', Q') <= ColdDebt(m, P, Q) /\ WarmDebt(m, Q') <= WarmDebt(m, Q)
    BY <1>p, DebtShrinks
  <2>2. D' = ColdDebt(m, P', Q') /\ E' = WarmDebt(m, Q') BY <1>m DEF D, E
  <2>3. ColdDebt(m, P', Q') \in 0..1 /\ WarmDebt(m, Q') \in 0..1 BY DebtFacts
  <2>4. D = ColdDebt(m, P, Q) /\ E = WarmDebt(m, Q) BY DEF D, E
  <2> QED BY <1>n, <2>1, <2>2, <2>3, <2>4
<1>x. c \in 0..3 /\ v \in 0..2 BY DebtFacts DEF c, v
<1>1. CASE LookProtected(w)
  <2>1. q.pc = "get" /\ UNCHANGED <<probationary, protected>> /\ (Goto(w, "refresh") \/ Goto(w, "lookCold"))
    BY <1>1 DEF LookProtected, q
  <2>2. q'.pc \in {"refresh", "lookCold"} BY <1>g, <2>1 DEF PCs
  <2>3. c' <= c /\ v' <= v BY <2>1, <2>2 DEF c, v, ColdCost, WarmCost
  <2> QED BY <1>u, <1>x, <2>1, <2>3
<1>2. CASE Refresh(w)
  <2>1. q.pc = "refresh" BY <1>2 DEF Refresh, q
  <2>0. c = 1 /\ v = 1 BY <2>1 DEF c, v, ColdCost, WarmCost
  <2>2. CASE k \in Q
    <3>1. /\ protected' = MoveToEnd(protected, k) /\ Goto(w, "readWarm") /\ probationary' = probationary
      BY <1>2, <1>h, <2>2 DEF Refresh, q, k
    <3>2. A' = A /\ B' = B /\ P' = P /\ Q' = Q
      BY <1>0, <1>h, <2>2, <3>1, MoveToEndFacts DEF A, B, P, Q
    <3>3. q'.pc = "readWarm" BY <1>g, <3>1 DEF PCs
    <3>4. c' = 1 /\ v' = 1 BY <3>3 DEF c, v, ColdCost, WarmCost
    <3>5. D' = D /\ E' = E BY <1>m, <3>2 DEF D, E
    <3> QED BY <1>n, <2>0, <3>2, <3>4, <3>5
  <2>3. CASE k \notin Q
    <3>1. Raise(w) /\ UNCHANGED <<probationary, protected>> BY <1>2, <1>h, <2>3 DEF Refresh, q, k
    <3>2. c' = 0 /\ v' = 0 BY <1>r, <3>1
    <3> QED BY <1>u, <2>0, <3>1, <3>2
  <2> QED BY <2>2, <2>3
<1>3. CASE ReadWarm(w)
  <2>1. UNCHANGED <<probationary, protected>> /\ q.pc = "readWarm" /\ q.pc \in Getting
    BY <1>3 DEF ReadWarm, Getting, q
  <2>0. c = 1 /\ v = 1 BY <2>1 DEF c, v, ColdCost, WarmCost
  <2>2. Raise(w) \/ AfterGet(w, TRUE) BY <1>3 DEF ReadWarm
  <2>3. (c' = 0 /\ v' = 0) \/ (c' = 1 /\ v' = 1)
    <3>1. TRUE \in BOOLEAN OBVIOUS
    <3> QED BY <1>a, <1>r, <2>1, <2>2, <3>1
  <2> QED BY <1>u, <2>0, <2>1, <2>3
<1>4. CASE LookProbationary(w)
  <2>1. UNCHANGED <<probationary, protected>> /\ q.pc = "lookCold" /\ q.pc \in Getting
    BY <1>4 DEF LookProbationary, Getting, q
  <2>0. c = 3 /\ v = 2 BY <2>1 DEF c, v, ColdCost, WarmCost
  <2>2. Goto(w, "pop") \/ AfterGet(w, FALSE) BY <1>4 DEF LookProbationary
  <2>3. (c' = 3 /\ v' = 2) \/ (c' = 1 /\ v' = 1)
    <3>1. CASE Goto(w, "pop")
      <4>1. q'.pc = "pop" BY <1>g, <3>1 DEF PCs
      <4> QED BY <4>1 DEF c, v, ColdCost, WarmCost
    <3>2. FALSE \in BOOLEAN OBVIOUS
    <3> QED BY <1>a, <2>1, <2>2, <3>1, <3>2
  <2> QED BY <1>u, <2>0, <2>1, <2>3
<1>5. CASE PopHit(w)
  <2>1. q.pc = "pop" BY <1>5 DEF PopHit, q
  <2>0. c = 3 /\ v = 2 BY <2>1 DEF c, v, ColdCost, WarmCost
  <2>2. CASE k \in P
    <3>1. /\ probationary' = Without(probationary, k) /\ Goto(w, "room") /\ protected' = protected
      BY <1>5, <1>h, <2>2 DEF PopHit, q, k
    <3>2. A' = A - 1 /\ B' = B /\ Q' = Q BY <1>0, <1>h, <2>2, <3>1, WithoutFacts DEF A, B, Q
    <3>3. q'.pc = "room" BY <1>g, <3>1 DEF PCs
    <3>4. c' = 3 /\ v' = 2 BY <3>3 DEF c, v, ColdCost, WarmCost
    <3>5. E' = E BY <1>m, <3>2 DEF E
    <3> QED BY <1>e, <1>n, <2>0, <3>2, <3>4, <3>5
  <2>3. CASE k \notin P
    <3>1. Raise(w) /\ UNCHANGED <<probationary, protected>> BY <1>5, <1>h, <2>3 DEF PopHit, q, k
    <3>2. c' = 0 /\ v' = 0 BY <1>r, <3>1
    <3> QED BY <1>u, <2>0, <3>1, <3>2
  <2> QED BY <2>2, <2>3
<1>6. CASE CheckRoom(w)
  <2>1. q.pc = "room" /\ UNCHANGED <<probationary, protected>> /\ (Goto(w, "demote") \/ Goto(w, "promote"))
    BY <1>6 DEF CheckRoom, q
  <2>2. q'.pc \in {"demote", "promote"} BY <1>g, <2>1 DEF PCs
  <2>3. c' <= c /\ v' <= v BY <2>1, <2>2 DEF c, v, ColdCost, WarmCost
  <2> QED BY <1>u, <1>x, <2>1, <2>3
<1>7. CASE Demote(w)
  <2>1. q.pc = "demote" BY <1>7 DEF Demote, q
  <2>0. c = 3 /\ v = 2 BY <2>1 DEF c, v, ColdCost, WarmCost
  <2>2. CASE protected # <<>>
    <3>1. /\ protected' = Tail(protected) /\ probationary' = probationary
          /\ th' = [th EXCEPT ![w].pc = "demoted", ![w].demoted = Head(protected)]
      BY <1>7, <2>2 DEF Demote
    <3>2. A' = A /\ B' = B - 1 BY <1>0, <2>2, <3>1, EvictedKey DEF A, B
    <3>3. q'.pc = "demoted" BY <1>0, <3>1 DEF ThreadType, q
    <3>4. c' = 2 /\ v' = 2 BY <3>3 DEF c, v, ColdCost, WarmCost
    <3> QED BY <1>e, <1>n, <2>0, <3>2, <3>4
  <2>3. CASE protected = <<>>
    <3>1. Raise(w) /\ UNCHANGED <<probationary, protected>> BY <1>7, <2>3 DEF Demote
    <3>2. c' = 0 /\ v' = 0 BY <1>r, <3>1
    <3> QED BY <1>u, <2>0, <3>1, <3>2
  <2> QED BY <2>2, <2>3
<1>8. CASE PutDemoted(w)
  <2>1. /\ probationary' = Insert(probationary, q.demoted) /\ q.pc = "demoted" /\ protected' = protected
        /\ th' = [th EXCEPT ![w].pc = "promote", ![w].demoted = Main]
    BY <1>8 DEF PutDemoted, q
  <2>0. c = 2 /\ v = 2 BY <2>1 DEF c, v, ColdCost, WarmCost
  <2>2. q.demoted \in Keys BY <1>0, <2>1 DEF Good, WorkerGood, q
  <2>3. (A' = A \/ A' = A + 1) /\ B' = B /\ P \subseteq P' /\ Q \subseteq Q'
    <3>1. /\ ToSet(probationary') = ToSet(probationary) \union {q.demoted}
          /\ Len(probationary') = IF Has(probationary, q.demoted) THEN A ELSE A + 1
      BY <1>0, <2>1, <2>2, InsertFacts DEF A
    <3> QED BY <1>n, <2>1, <3>1 DEF A, B, P, Q
  <2>4. q'.pc = "promote" BY <1>0, <2>1 DEF ThreadType, q
  <2>5. c' = 1 /\ v' = 2 BY <2>4 DEF c, v, ColdCost, WarmCost
  <2> QED BY <1>n, <1>p, <2>0, <2>3, <2>5
<1>9. CASE PromoteHit(w)
  <2>1. /\ protected' = Insert(protected, k) /\ q.pc = "promote" /\ probationary' = probationary
        /\ AfterGet(w, TRUE) /\ q.pc \in Getting
    BY <1>9 DEF PromoteHit, Getting, q, k
  <2>0. c = 1 /\ v = 2 BY <2>1 DEF c, v, ColdCost, WarmCost
  <2>3. A' = A /\ (B' = B \/ B' = B + 1) /\ P \subseteq P' /\ Q \subseteq Q'
    <3>1. /\ ToSet(protected') = ToSet(protected) \union {k}
          /\ Len(protected') = IF Has(protected, k) THEN B ELSE B + 1
      BY <1>0, <2>1, InsertFacts DEF B
    <3> QED BY <1>n, <2>1, <3>1 DEF A, B, P, Q
  <2>5. c' = 1 /\ v' = 1
    <3>1. TRUE \in BOOLEAN OBVIOUS
    <3> QED BY <1>a, <2>1, <3>1
  <2> QED BY <1>n, <1>p, <2>0, <2>3, <2>5
<1>10. CASE LookForWarm(w)
  <2> DEFINE b == Has(protected, k)
  <2>1. /\ UNCHANGED <<probationary, protected>> /\ q.pc = "put"
        /\ th' = [th EXCEPT ![w].pc = IF b THEN "get" ELSE "putCold", ![w].nested = b]
    BY <1>10 DEF LookForWarm, q, k
  <2> HIDE DEF b
  <2>2. q'.pc \in {"get", "putCold"} BY <1>0, <2>1 DEF ThreadType, q
  <2>3. c' <= c /\ v' <= v BY <2>1, <2>2 DEF c, v, ColdCost, WarmCost
  <2> QED BY <1>u, <1>x, <2>1, <2>3
<1>11. CASE LookForCold(w)
  <2> DEFINE b == Has(probationary, k)
  <2>1. /\ UNCHANGED <<probationary, protected>> /\ q.pc = "putCold"
        /\ th' = [th EXCEPT ![w].pc = IF b THEN "get" ELSE "full", ![w].nested = b]
    BY <1>11 DEF LookForCold, q, k
  <2> HIDE DEF b
  <2>2. q'.pc \in {"get", "full"} BY <1>0, <2>1 DEF ThreadType, q
  <2>3. c' <= c /\ v' <= v BY <2>1, <2>2 DEF c, v, ColdCost, WarmCost
  <2> QED BY <1>u, <1>x, <2>1, <2>3
<1>12. CASE LookToStore(w)
  <2>1. /\ q.pc = "store" /\ UNCHANGED <<probationary, protected>>
        /\ (Goto(w, "storeWarm") \/ Goto(w, "storeCold"))
    BY <1>12 DEF LookToStore, q
  <2>2. q'.pc \in {"storeWarm", "storeCold"} BY <1>g, <2>1 DEF PCs
  <2>3. c' <= c /\ v' <= v BY <2>1, <2>2 DEF c, v, ColdCost, WarmCost
  <2> QED BY <1>u, <1>x, <2>1, <2>3
<1>13. CASE StoreWarm(w)
  <2>1. /\ protected' = Insert(protected, k) /\ q.pc = "storeWarm" /\ probationary' = probationary
        /\ Return(w) /\ UNCHANGED <<agenda, raised>>
    BY <1>13 DEF StoreWarm, q, k
  <2>0. c = 0 /\ v = 1 BY <2>1 DEF c, v, ColdCost, WarmCost
  <2>3. A' = A /\ (B' = B \/ B' = B + 1) /\ P \subseteq P' /\ Q \subseteq Q'
    <3>1. /\ ToSet(protected') = ToSet(protected) \union {k}
          /\ Len(protected') = IF Has(protected, k) THEN B ELSE B + 1
      BY <1>0, <2>1, InsertFacts DEF B
    <3> QED BY <1>n, <2>1, <3>1 DEF A, B, P, Q
  <2>5. c' = 0 /\ v' = 0 BY <1>t, <2>1
  <2> QED BY <1>n, <1>p, <2>0, <2>3, <2>5
<1>14. CASE StoreCold(w)
  <2>1. /\ probationary' = Insert(probationary, k) /\ q.pc = "storeCold" /\ protected' = protected
        /\ Return(w) /\ UNCHANGED <<agenda, raised>>
    BY <1>14 DEF StoreCold, q, k
  <2>0. c = 1 /\ v = 0 BY <2>1 DEF c, v, ColdCost, WarmCost
  <2>3. (A' = A \/ A' = A + 1) /\ B' = B /\ P \subseteq P' /\ Q \subseteq Q'
    <3>1. /\ ToSet(probationary') = ToSet(probationary) \union {k}
          /\ Len(probationary') = IF Has(probationary, k) THEN A ELSE A + 1
      BY <1>0, <2>1, InsertFacts DEF A
    <3> QED BY <1>n, <2>1, <3>1 DEF A, B, P, Q
  <2>5. c' = 0 /\ v' = 0 BY <1>t, <2>1
  <2> QED BY <1>n, <1>p, <2>0, <2>3, <2>5
<1>15. CASE CheckFull(w)
  <2>1. q.pc = "full" /\ UNCHANGED <<probationary, protected>> /\ (Goto(w, "evict") \/ Goto(w, "insert"))
    BY <1>15 DEF CheckFull, q
  <2>2. q'.pc \in {"evict", "insert"} BY <1>g, <2>1 DEF PCs
  <2>3. c' <= c /\ v' <= v BY <2>1, <2>2 DEF c, v, ColdCost, WarmCost
  <2> QED BY <1>u, <1>x, <2>1, <2>3
<1>16. CASE Evict(w)
  <2>1. q.pc = "evict" BY <1>16 DEF Evict, q
  <2>0. c = 1 /\ v = 0 BY <2>1 DEF c, v, ColdCost, WarmCost
  <2>2. CASE probationary # <<>>
    <3>1. probationary' = Tail(probationary) /\ protected' = protected /\ Goto(w, "insert")
      BY <1>16, <2>2 DEF Evict
    <3>2. A' = A - 1 /\ B' = B /\ Q' = Q BY <1>0, <2>2, <3>1, EvictedKey DEF A, B, Q
    <3>3. q'.pc = "insert" BY <1>g, <3>1 DEF PCs
    <3>4. c' = 1 /\ v' = 0 BY <3>3 DEF c, v, ColdCost, WarmCost
    <3>5. E' = E BY <1>m, <3>2 DEF E
    <3> QED BY <1>e, <1>n, <2>0, <3>2, <3>4, <3>5
  <2>3. CASE probationary = <<>>
    <3>1. Raise(w) /\ UNCHANGED <<probationary, protected>> BY <1>16, <2>3 DEF Evict
    <3>2. c' = 0 /\ v' = 0 BY <1>r, <3>1
    <3> QED BY <1>u, <2>0, <3>1, <3>2
  <2> QED BY <2>2, <2>3
<1>17. CASE InsertCold(w)
  <2>1. /\ probationary' = Insert(probationary, k) /\ q.pc = "insert" /\ protected' = protected
        /\ Goto(w, "assert")
    BY <1>17 DEF InsertCold, q, k
  <2>0. c = 1 /\ v = 0 BY <2>1 DEF c, v, ColdCost, WarmCost
  <2>3. (A' = A \/ A' = A + 1) /\ B' = B /\ P \subseteq P' /\ Q \subseteq Q'
    <3>1. /\ ToSet(probationary') = ToSet(probationary) \union {k}
          /\ Len(probationary') = IF Has(probationary, k) THEN A ELSE A + 1
      BY <1>0, <2>1, InsertFacts DEF A
    <3> QED BY <1>n, <2>1, <3>1 DEF A, B, P, Q
  <2>4. q'.pc = "assert" BY <1>g, <2>1 DEF PCs
  <2>5. c' = 0 /\ v' = 0 BY <2>4 DEF c, v, ColdCost, WarmCost
  <2> QED BY <1>n, <1>p, <2>0, <2>3, <2>5
<1>18. CASE CountCold(w)
  <2>1. UNCHANGED <<probationary, protected>> /\ q.pc = "assert"
        /\ th' = [th EXCEPT ![w].pc = "sum", ![w].seen = Len(probationary)]
    BY <1>18 DEF CountCold, q
  <2>2. q'.pc = "sum" BY <1>0, <2>1 DEF ThreadType, q
  <2>3. c' <= c /\ v' <= v BY <2>1, <2>2 DEF c, v, ColdCost, WarmCost
  <2> QED BY <1>u, <1>x, <2>1, <2>3
<1>19. CASE AssertBound(w)
  <2>1. /\ UNCHANGED <<probationary, protected>> /\ q.pc = "sum"
        /\ (Raise(w) \/ (Return(w) /\ UNCHANGED <<agenda, raised>>))
    BY <1>19 DEF AssertBound, q
  <2>2. c' = 0 /\ v' = 0 BY <1>r, <1>t, <2>1
  <2> QED BY <1>u, <1>x, <2>1, <2>2
<1>20. CASE Read(w)
  <2>1. q.pc = "read" /\ UNCHANGED <<probationary, protected>> /\ Goto(w, "put") BY <1>20 DEF Read, q
  <2>2. q'.pc = "put" BY <1>g, <2>1 DEF PCs
  <2>3. c' <= c /\ v' <= v BY <2>1, <2>2 DEF c, v, ColdCost, WarmCost
  <2> QED BY <1>u, <1>x, <2>1, <2>3
<1> QED
  BY <1>1, <1>2, <1>3, <1>4, <1>5, <1>6, <1>7, <1>8, <1>9, <1>10, <1>11, <1>12, <1>13, <1>14, <1>15,
     <1>16, <1>17, <1>18, <1>19, <1>20 DEF Get, Put

\* What the workers owe, and how far they and Main can still push each partition.
ColdDue == [w \in Workers |-> ColdCost(th[w])]
WarmDue == [w \in Workers |-> WarmCost(th[w])]

\* A partition's accounts: what is owed is within the budget, and what it holds
\* exceeds its share by no more than the budget spent.
Covered(due, held, share, budget) == due <= budget /\ held + due <= share + budget

PoolAccounts ==
  /\ Covered(Sum(ColdDue, Workers), ColdOfMain, ProbationaryCapacity, 3 * Taken(tasks))
  /\ Covered(Sum(WarmDue, Workers), WarmOfMain, ProtectedCapacity, 2 * Taken(tasks))

PoolInv == PoolTypes /\ ThreadsGood /\ PoolAccounts

LEMMA Budgets ==
  ASSUME NEW n \in Nat, NEW n1 \in Nat, n <= n1
  PROVE  3 * n \in Nat /\ 3 * n1 \in Nat /\ 3 * n <= 3 * n1
         /\ 2 * n \in Nat /\ 2 * n1 \in Nat /\ 2 * n <= 2 * n1
OBVIOUS

LEMMA TakenGrows ==
  ASSUME NEW s \in Seq(TaskType), NEW s1 \in Seq(TaskType), Begun(s) \subseteq Begun(s1)
  PROVE  /\ Taken(s) \in Nat /\ Taken(s1) \in Nat /\ Taken(s) <= Taken(s1)
         /\ \A i \in Begun(s1) \ Begun(s) : Taken(s) + 1 <= Taken(s1)
<1>1. /\ IsFiniteSet(Begun(s1)) /\ IsFiniteSet(Begun(s))
      /\ Cardinality(Begun(s1)) \in Nat /\ Cardinality(Begun(s)) \in Nat
  BY TasksFinite
<1>2. Cardinality(Begun(s)) <= Cardinality(Begun(s1)) BY <1>1, FS_Subset
<1>3. ASSUME NEW i \in Begun(s1) \ Begun(s) PROVE Cardinality(Begun(s)) + 1 <= Cardinality(Begun(s1))
  <2>1. Cardinality(Begun(s) \union {i}) = Cardinality(Begun(s)) + 1
    BY <1>1, FS_AddElement
  <2>2. Begun(s) \union {i} \subseteq Begun(s1) OBVIOUS
  <2>3. Cardinality(Begun(s) \union {i}) <= Cardinality(Begun(s1)) BY <1>1, <2>2, FS_Subset
  <2> QED BY <2>1, <2>3
<1> QED BY <1>1, <1>2, <1>3 DEF Taken

LEMMA DueFacts ==
  /\ ColdDue \in [Workers -> Nat] /\ WarmDue \in [Workers -> Nat]
  /\ Sum(ColdDue, Workers) \in Nat /\ Sum(WarmDue, Workers) \in Nat
  /\ IsFiniteSet(Workers)
<1>1. ColdDue \in [Workers -> Nat] /\ WarmDue \in [Workers -> Nat]
  <2>1. \A w \in Workers : ColdCost(th[w]) \in Nat /\ WarmCost(th[w]) \in Nat
    BY DEF ColdCost, WarmCost
  <2> QED BY <2>1 DEF ColdDue, WarmDue
<1>2. IsFiniteSet(Workers) /\ Workers \subseteq Workers BY ExpertRuntimeAssumption
<1> QED BY <1>1, <1>2, SumIsNat

LEMMA LengthsAndDebts ==
  ASSUME probationary \in Dict, protected \in Dict
  PROVE  /\ ColdOfMain \in Nat /\ WarmOfMain \in Nat
         /\ Len(probationary) <= ColdOfMain /\ Len(protected) <= WarmOfMain
         /\ Len(probationary) \in Nat /\ Len(protected) \in Nat
<1>1. Len(probationary) \in Nat /\ Len(protected) \in Nat BY DictLen
<1>2. /\ ColdDebt(th[Main], ToSet(probationary), ToSet(protected)) \in 0..1
      /\ WarmDebt(th[Main], ToSet(protected)) \in 0..1
  BY DebtFacts
<1> QED BY <1>1, <1>2 DEF ColdOfMain, WarmOfMain

\* The numbers of the accounts.
LEMMA AccountNumbers ==
  ASSUME PoolTypes
  PROVE  /\ ColdOfMain \in Nat /\ WarmOfMain \in Nat
         /\ Sum(ColdDue, Workers) \in Nat /\ Sum(WarmDue, Workers) \in Nat
         /\ ProbationaryCapacity \in Nat /\ ProtectedCapacity \in Nat
BY LengthsAndDebts, DueFacts, ProtectedSlots, ExpertRuntimeAssumption DEF PoolTypes

\* A step of Main: the workers owe what they owed.
LEMMA AccountsOfMain ==
  ASSUME PoolInv, \A w \in Workers : th'[w] = th[w],
         tasks' \in Seq(TaskType), Begun(tasks) \subseteq Begun(tasks'),
         ColdOfMain' <= ColdOfMain \/ ColdOfMain' <= ProbationaryCapacity,
         WarmOfMain' <= WarmOfMain \/ WarmOfMain' <= ProtectedCapacity,
         ColdOfMain' \in Nat, WarmOfMain' \in Nat
  PROVE  PoolAccounts'
<1>1. ColdDue' = ColdDue /\ WarmDue' = WarmDue BY DEF ColdDue, WarmDue
<1>2. Sum(ColdDue, Workers)' = Sum(ColdDue, Workers) /\ Sum(WarmDue, Workers)' = Sum(WarmDue, Workers)
  BY <1>1 DEF Sum
<1>3. /\ 3 * Taken(tasks) \in Nat /\ 3 * Taken(tasks') \in Nat /\ 3 * Taken(tasks) <= 3 * Taken(tasks')
      /\ 2 * Taken(tasks) \in Nat /\ 2 * Taken(tasks') \in Nat /\ 2 * Taken(tasks) <= 2 * Taken(tasks')
  BY TakenGrows, Budgets DEF PoolInv, PoolTypes
<1>4. /\ Covered(Sum(ColdDue, Workers), ColdOfMain, ProbationaryCapacity, 3 * Taken(tasks))
      /\ Covered(Sum(WarmDue, Workers), WarmOfMain, ProtectedCapacity, 2 * Taken(tasks))
  BY DEF PoolInv, PoolAccounts
<1>n. /\ ColdOfMain \in Nat /\ WarmOfMain \in Nat
      /\ Sum(ColdDue, Workers) \in Nat /\ Sum(WarmDue, Workers) \in Nat
      /\ ProbationaryCapacity \in Nat /\ ProtectedCapacity \in Nat
  BY AccountNumbers DEF PoolInv
<1>5. Covered(Sum(ColdDue, Workers), ColdOfMain', ProbationaryCapacity, 3 * Taken(tasks'))
  <2>1. PICK due, held, held1, share, b, b1 :
          /\ due = Sum(ColdDue, Workers) /\ held = ColdOfMain /\ held1 = ColdOfMain' /\ share = ProbationaryCapacity
          /\ b = 3 * Taken(tasks) /\ b1 = 3 * Taken(tasks')
    OBVIOUS
  <2>2. /\ due \in Nat /\ held \in Nat /\ held1 \in Nat /\ share \in Nat /\ b \in Nat /\ b1 \in Nat
        /\ b <= b1 /\ (held1 <= held \/ held1 <= share) /\ Covered(due, held, share, b)
    BY <1>3, <1>4, <1>n, <2>1
  <2>3. Covered(due, held1, share, b1) BY <2>2 DEF Covered
  <2> QED BY <2>1, <2>3
<1>6. Covered(Sum(WarmDue, Workers), WarmOfMain', ProtectedCapacity, 2 * Taken(tasks'))
  <2>1. PICK due, held, held1, share, b, b1 :
          /\ due = Sum(WarmDue, Workers) /\ held = WarmOfMain /\ held1 = WarmOfMain' /\ share = ProtectedCapacity
          /\ b = 2 * Taken(tasks) /\ b1 = 2 * Taken(tasks')
    OBVIOUS
  <2>2. /\ due \in Nat /\ held \in Nat /\ held1 \in Nat /\ share \in Nat /\ b \in Nat /\ b1 \in Nat
        /\ b <= b1 /\ (held1 <= held \/ held1 <= share) /\ Covered(due, held, share, b)
    BY <1>3, <1>4, <1>n, <2>1
  <2>3. Covered(due, held1, share, b1) BY <2>2 DEF Covered
  <2> QED BY <2>1, <2>3
<1> QED BY <1>2, <1>5, <1>6 DEF PoolAccounts

\* What one worker's step does to what the workers owe.
LEMMA DueOfOne ==
  ASSUME PoolTypes, NEW w \in Workers, NEW r, th' = [th EXCEPT ![w] = r]
  PROVE  /\ Sum(ColdDue, Workers)' + ColdCost(th[w]) = Sum(ColdDue, Workers) + ColdCost(r)
         /\ Sum(WarmDue, Workers)' + WarmCost(th[w]) = Sum(WarmDue, Workers) + WarmCost(r)
         /\ Sum(ColdDue, Workers)' \in Nat /\ Sum(WarmDue, Workers)' \in Nat
<1>1. th \in [Threads -> ThreadType] /\ w \in Threads /\ Workers \subseteq Threads
  BY DEF PoolTypes, Threads
<1> DEFINE c == [u \in Workers |-> ColdCost(th'[u])]
           v == [u \in Workers |-> WarmCost(th'[u])]
<1>2. c \in [Workers -> Nat] /\ v \in [Workers -> Nat]
  <2>1. \A u \in Workers : ColdCost(th'[u]) \in Nat /\ WarmCost(th'[u]) \in Nat
    BY DEF ColdCost, WarmCost
  <2> QED BY <2>1
<1>3. /\ c[w] = ColdCost(r) /\ v[w] = WarmCost(r)
      /\ \A u \in Workers \ {w} : c[u] = ColdDue[u] /\ v[u] = WarmDue[u]
      /\ ColdDue[w] = ColdCost(th[w]) /\ WarmDue[w] = WarmCost(th[w])
  BY <1>1 DEF ColdDue, WarmDue
<1>4. ColdDue' = c /\ WarmDue' = v BY DEF ColdDue, WarmDue
<1>5. Sum(ColdDue, Workers)' = Sum(c, Workers) /\ Sum(WarmDue, Workers)' = Sum(v, Workers)
  BY <1>4 DEF Sum
<1> HIDE DEF c, v
<1>6. /\ Sum(ColdDue, Workers) + c[w] = Sum(c, Workers) + ColdDue[w] /\ Sum(c, Workers) \in Nat
      /\ Sum(WarmDue, Workers) + v[w] = Sum(v, Workers) + WarmDue[w] /\ Sum(v, Workers) \in Nat
  BY <1>2, <1>3, DueFacts, SumOfChanged
<1> QED BY <1>3, <1>5, <1>6

\* A step of a worker inside its task.
LEMMA AccountsOfWorker ==
  ASSUME PoolInv, NEW w \in Workers, NEW r, th' = [th EXCEPT ![w] = r],
         tasks' \in Seq(TaskType), Begun(tasks) \subseteq Begun(tasks'),
         ColdOfMain' \in Nat, WarmOfMain' \in Nat,
         ColdCost(r) <= ColdCost(th[w]), WarmCost(r) <= WarmCost(th[w]),
         ColdOfMain' + ColdCost(r) <= ColdOfMain + ColdCost(th[w]),
         WarmOfMain' + WarmCost(r) <= WarmOfMain + WarmCost(th[w])
  PROVE  PoolAccounts'
<1>1. PoolTypes BY DEF PoolInv
<1>2. /\ ColdCost(th[w]) \in Nat /\ ColdCost(r) \in Nat /\ WarmCost(th[w]) \in Nat /\ WarmCost(r) \in Nat
  BY DEF ColdCost, WarmCost
<1>3. /\ 3 * Taken(tasks) \in Nat /\ 3 * Taken(tasks') \in Nat /\ 3 * Taken(tasks) <= 3 * Taken(tasks')
      /\ 2 * Taken(tasks) \in Nat /\ 2 * Taken(tasks') \in Nat /\ 2 * Taken(tasks) <= 2 * Taken(tasks')
  BY TakenGrows, Budgets DEF PoolInv, PoolTypes
<1>4. /\ Sum(ColdDue, Workers)' + ColdCost(th[w]) = Sum(ColdDue, Workers) + ColdCost(r)
      /\ Sum(WarmDue, Workers)' + WarmCost(th[w]) = Sum(WarmDue, Workers) + WarmCost(r)
      /\ Sum(ColdDue, Workers)' \in Nat /\ Sum(WarmDue, Workers)' \in Nat
  BY <1>1, DueOfOne
<1>m. /\ Covered(Sum(ColdDue, Workers), ColdOfMain, ProbationaryCapacity, 3 * Taken(tasks))
      /\ Covered(Sum(WarmDue, Workers), WarmOfMain, ProtectedCapacity, 2 * Taken(tasks))
  BY DEF PoolInv, PoolAccounts
<1>n. /\ ColdOfMain \in Nat /\ WarmOfMain \in Nat
      /\ Sum(ColdDue, Workers) \in Nat /\ Sum(WarmDue, Workers) \in Nat
      /\ ProbationaryCapacity \in Nat /\ ProtectedCapacity \in Nat
  BY AccountNumbers DEF PoolInv
<1>5. Covered(Sum(ColdDue, Workers)', ColdOfMain', ProbationaryCapacity, 3 * Taken(tasks'))
  <2>1. PICK due, due1, held, held1, share, b, b1, c, c1 :
          /\ due = Sum(ColdDue, Workers) /\ due1 = Sum(ColdDue, Workers)'
          /\ held = ColdOfMain /\ held1 = ColdOfMain' /\ share = ProbationaryCapacity
          /\ b = 3 * Taken(tasks) /\ b1 = 3 * Taken(tasks')
          /\ c = ColdCost(th[w]) /\ c1 = ColdCost(r)
    OBVIOUS
  <2>2. /\ due \in Nat /\ due1 \in Nat /\ held \in Nat /\ held1 \in Nat /\ share \in Nat
        /\ b \in Nat /\ b1 \in Nat /\ c \in Nat /\ c1 \in Nat
    BY <1>2, <1>3, <1>4, <1>n, <2>1
  <2>3. b <= b1 /\ c1 <= c /\ held1 + c1 <= held + c /\ due1 + c = due + c1 /\ Covered(due, held, share, b)
    BY <1>3, <1>4, <1>m, <2>1
  <2>4. Covered(due1, held1, share, b1) BY <2>2, <2>3 DEF Covered
  <2> QED BY <2>1, <2>4
<1>6. Covered(Sum(WarmDue, Workers)', WarmOfMain', ProtectedCapacity, 2 * Taken(tasks'))
  <2>1. PICK due, due1, held, held1, share, b, b1, c, c1 :
          /\ due = Sum(WarmDue, Workers) /\ due1 = Sum(WarmDue, Workers)'
          /\ held = WarmOfMain /\ held1 = WarmOfMain' /\ share = ProtectedCapacity
          /\ b = 2 * Taken(tasks) /\ b1 = 2 * Taken(tasks')
          /\ c = WarmCost(th[w]) /\ c1 = WarmCost(r)
    OBVIOUS
  <2>2. /\ due \in Nat /\ due1 \in Nat /\ held \in Nat /\ held1 \in Nat /\ share \in Nat
        /\ b \in Nat /\ b1 \in Nat /\ c \in Nat /\ c1 \in Nat
    BY <1>2, <1>3, <1>4, <1>n, <2>1
  <2>3. b <= b1 /\ c1 <= c /\ held1 + c1 <= held + c /\ due1 + c = due + c1 /\ Covered(due, held, share, b)
    BY <1>3, <1>4, <1>m, <2>1
  <2>4. Covered(due1, held1, share, b1) BY <2>2, <2>3 DEF Covered
  <2> QED BY <2>1, <2>4
<1> QED BY <1>5, <1>6 DEF PoolAccounts

\* A worker takes a task, and its budget.
LEMMA AccountsOfTask ==
  ASSUME PoolInv, NEW w \in Workers, NEW r, th' = [th EXCEPT ![w] = r],
         r.pc = "read", th[w].pc = "idle", UNCHANGED <<probationary, protected>>,
         tasks' \in Seq(TaskType), Begun(tasks) \subseteq Begun(tasks'),
         NEW i \in Begun(tasks') \ Begun(tasks)
  PROVE  PoolAccounts'
<1>0. PoolTypes /\ tasks \in Seq(TaskType) BY DEF PoolInv, PoolTypes
<1>1. /\ Sum(ColdDue, Workers)' = Sum(ColdDue, Workers) + 3
      /\ Sum(WarmDue, Workers)' = Sum(WarmDue, Workers) + 2
      /\ Sum(ColdDue, Workers)' \in Nat /\ Sum(WarmDue, Workers)' \in Nat
  <2>1. ColdCost(r) = 3 /\ WarmCost(r) = 2 /\ ColdCost(th[w]) = 0 /\ WarmCost(th[w]) = 0
    BY DEF ColdCost, WarmCost
  <2>2. /\ Sum(ColdDue, Workers)' + 0 = Sum(ColdDue, Workers) + 3
        /\ Sum(WarmDue, Workers)' + 0 = Sum(WarmDue, Workers) + 2
    BY <1>0, <2>1, DueOfOne
  <2>3. /\ Sum(ColdDue, Workers)' \in Nat /\ Sum(WarmDue, Workers)' \in Nat
        /\ Sum(ColdDue, Workers) \in Nat /\ Sum(WarmDue, Workers) \in Nat
    BY <1>0, DueOfOne, DueFacts
  <2> QED BY <2>2, <2>3
<1>2. Taken(tasks) \in Nat /\ Taken(tasks') \in Nat /\ Taken(tasks) + 1 <= Taken(tasks')
  BY <1>0, TakenGrows
<1>3. ColdOfMain' = ColdOfMain /\ WarmOfMain' = WarmOfMain
  <2>1. th'[Main] = th[Main] BY ExpertRuntimeAssumption DEF PoolInv, PoolTypes, Threads
  <2> QED BY <2>1 DEF ColdOfMain, WarmOfMain
<1>m. /\ Covered(Sum(ColdDue, Workers), ColdOfMain, ProbationaryCapacity, 3 * Taken(tasks))
      /\ Covered(Sum(WarmDue, Workers), WarmOfMain, ProtectedCapacity, 2 * Taken(tasks))
  BY DEF PoolInv, PoolAccounts
<1>n. /\ ColdOfMain \in Nat /\ WarmOfMain \in Nat
      /\ Sum(ColdDue, Workers) \in Nat /\ Sum(WarmDue, Workers) \in Nat
      /\ ProbationaryCapacity \in Nat /\ ProtectedCapacity \in Nat
  BY <1>0, AccountNumbers
<1>4. Covered(Sum(ColdDue, Workers)', ColdOfMain, ProbationaryCapacity, 3 * Taken(tasks'))
  <2>1. PICK due, due1, held, share, n, n1 :
          /\ due = Sum(ColdDue, Workers) /\ due1 = Sum(ColdDue, Workers)' /\ held = ColdOfMain
          /\ share = ProbationaryCapacity /\ n = Taken(tasks) /\ n1 = Taken(tasks')
    OBVIOUS
  <2>2. /\ due \in Nat /\ due1 \in Nat /\ held \in Nat /\ share \in Nat /\ n \in Nat /\ n1 \in Nat
        /\ n + 1 <= n1 /\ Covered(due, held, share, 3 * n)
    BY <1>1, <1>2, <1>m, <1>n, <2>1
  <2>3. due1 = due + 3 BY <1>1, <2>1
  <2>4. Covered(due1, held, share, 3 * n1) BY <2>2, <2>3 DEF Covered
  <2> QED BY <2>1, <2>4
<1>5. Covered(Sum(WarmDue, Workers)', WarmOfMain, ProtectedCapacity, 2 * Taken(tasks'))
  <2>1. PICK due, due1, held, share, n, n1 :
          /\ due = Sum(WarmDue, Workers) /\ due1 = Sum(WarmDue, Workers)' /\ held = WarmOfMain
          /\ share = ProtectedCapacity /\ n = Taken(tasks) /\ n1 = Taken(tasks')
    OBVIOUS
  <2>2. /\ due \in Nat /\ due1 \in Nat /\ held \in Nat /\ share \in Nat /\ n \in Nat /\ n1 \in Nat
        /\ n + 1 <= n1 /\ Covered(due, held, share, 2 * n)
    BY <1>1, <1>2, <1>m, <1>n, <2>1
  <2>3. due1 = due + 2 BY <1>1, <2>1
  <2>4. Covered(due1, held, share, 2 * n1) BY <2>2, <2>3 DEF Covered
  <2> QED BY <2>1, <2>4
<1> QED BY <1>3, <1>4, <1>5 DEF PoolAccounts

PoolSession == [token : 0..Warmup, freq : [Keys -> 0..MaxCount],
                pinned : SUBSET Keys, frozen : BOOLEAN]

LEMMA PoolInvInit == Init => PoolInv
<1> SUFFICES ASSUME Init PROVE PoolInv OBVIOUS
<1> USE ExpertRuntimeAssumption
<1>1. /\ probationary = <<>> /\ protected = <<>> /\ hits = <<>> /\ hot = {} /\ freq = [k \in Keys |-> 0]
      /\ session = FreshSession /\ agenda = NoAgenda /\ tasks = <<>> /\ pending = [k \in Keys |-> 0]
      /\ th = [t \in Threads |-> Rest] /\ raised = FALSE /\ calls = 0
  BY DEF Init
<1>2. PoolTypes
  <2>1. session \in PoolSession BY <1>1 DEF FreshSession, PoolSession
  <2>2. agenda \in Agenda BY <1>1 DEF NoAgenda, Agenda
  <2>3. tasks \in Seq(TaskType) /\ Len(tasks) = 0 BY <1>1
  <2>4. pending \in [Keys -> 0..Len(tasks)] BY <1>1, <2>3
  <2>5. th \in [Threads -> ThreadType] BY <1>1, RestGood
  <2>6. freq \in [Keys -> 0..PromotionThreshold] /\ calls \in 0..MaxCalls BY <1>1
  <2> QED BY <1>1, <2>1, <2>2, <2>3, <2>4, <2>5, <2>6, EmptyDict DEF PoolTypes, PoolSession
<1>3. ThreadsGood BY <1>1, RestGood DEF ThreadsGood
<1>4. PoolAccounts
  <2>1. ColdOfMain = 0 /\ WarmOfMain = 0
    <3>1. th[Main] = Rest BY <1>1 DEF Threads
    <3>2. ColdDebt(Rest, ToSet(<<>>), ToSet(<<>>)) = 0 /\ WarmDebt(Rest, ToSet(<<>>)) = 0
      BY RestGood, DebtFacts
    <3> QED BY <1>1, <3>1, <3>2 DEF ColdOfMain, WarmOfMain
  <2>2. \A w \in Workers : ColdDue[w] = 0 /\ WarmDue[w] = 0
    <3>1. \A w \in Workers : th[w] = Rest BY <1>1 DEF Threads
    <3>2. ColdCost(Rest) = 0 /\ WarmCost(Rest) = 0 BY DEF Rest, ColdCost, WarmCost
    <3> QED BY <3>1, <3>2 DEF ColdDue, WarmDue
  <2>3. /\ Sum(ColdDue, Workers) <= 0 * Sum(ColdDue, Workers)
        /\ Sum(WarmDue, Workers) <= 0 * Sum(WarmDue, Workers)
    <3>1. Workers \in SUBSET Workers /\ 0 \in Nat OBVIOUS
    <3>2. \A w \in Workers : ColdDue[w] <= 0 * ColdDue[w] /\ WarmDue[w] <= 0 * WarmDue[w] BY <2>2
    <3>3. Sum(ColdDue, Workers) <= 0 * Sum(ColdDue, Workers)
      BY <3>1, <3>2, DueFacts, SumIsBounded
    <3>4. Sum(WarmDue, Workers) <= 0 * Sum(WarmDue, Workers)
      BY <3>1, <3>2, DueFacts, SumIsBounded
    <3> QED BY <3>3, <3>4
  <2>5. Sum(ColdDue, Workers) = 0 /\ Sum(WarmDue, Workers) = 0 BY <2>3, DueFacts
  <2>6. Taken(tasks) \in Nat BY <1>2, TasksFinite DEF PoolTypes, Taken
  <2>7. ProbationaryCapacity \in Nat /\ ProtectedCapacity \in Nat BY ProtectedSlots
  <2> QED BY <2>1, <2>5, <2>6, <2>7 DEF PoolAccounts, Covered
<1> QED BY <1>2, <1>3, <1>4 DEF PoolInv

\* A step of get or put, or of the read between them, by any thread.
LEMMA PoolCache ==
  ASSUME PoolInv, NEW t \in Threads, th[t].pc \notin Outside, Get(t) \/ Put(t) \/ Read(t)
  PROVE  PoolInv'
<1>1. PoolTypes /\ Good(t, th[t]) BY DEF PoolInv, ThreadsGood
<1>2. /\ probationary' \in Dict /\ protected' \in Dict /\ hits' \in Dict
      /\ UNCHANGED <<hot, freq, session, pending, calls>> /\ Kept
  BY <1>1, CacheTypes
<1>3. PICK r : th' = [th EXCEPT ![t] = r] /\ Good(t, r) BY <1>1, CacheTypes
<1>4. th \in [Threads -> ThreadType] /\ r \in ThreadType BY <1>1, <1>3 DEF PoolTypes, Good
<1>5. PoolTypes'
  <2>1. th' \in [Threads -> ThreadType] BY <1>3, <1>4
  <2>2. pending' \in [Keys -> 0..Len(tasks')] BY <1>1, <1>2 DEF PoolTypes, Kept
  <2> QED BY <1>1, <1>2, <2>1, <2>2 DEF PoolTypes, Kept
<1>6. ThreadsGood'
  <2>1. \A u \in Threads : Good(u, th'[u]) BY <1>3, <1>4 DEF PoolInv, ThreadsGood
  <2> QED BY <2>1 DEF ThreadsGood
<1>7. ColdOfMain' \in Nat /\ WarmOfMain' \in Nat
  <2>1. Len(probationary') \in Nat /\ Len(protected') \in Nat BY <1>2, DictLen
  <2>2. /\ ColdDebt(th'[Main], ToSet(probationary'), ToSet(protected')) \in Nat
        /\ WarmDebt(th'[Main], ToSet(protected')) \in Nat
    BY DEF ColdDebt, WarmDebt
  <2>3. /\ ColdOfMain' = Len(probationary') + ColdDebt(th'[Main], ToSet(probationary'), ToSet(protected'))
        /\ WarmOfMain' = Len(protected') + WarmDebt(th'[Main], ToSet(protected'))
    BY DEF ColdOfMain, WarmOfMain, ToSet
  <2> QED BY <2>1, <2>2, <2>3
<1>8. PoolAccounts'
  <2>1. CASE t = Main
    <3>1. \A w \in Workers : th'[w] = th[w] BY <1>3, <1>4, <2>1, ExpertRuntimeAssumption DEF Threads
    <3>2. /\ ColdOfMain' <= ColdOfMain \/ ColdOfMain' <= ProbationaryCapacity
          /\ WarmOfMain' <= WarmOfMain \/ WarmOfMain' <= ProtectedCapacity
      BY <1>1, <2>1, MainAccounts
    <3> QED BY <1>2, <1>7, <3>1, <3>2, AccountsOfMain DEF Kept
  <2>2. CASE t # Main
    <3>1. t \in Workers BY <2>2 DEF Threads
    <3>2. th'[t] = r BY <1>3, <1>4
    <3>3. /\ ColdCost(r) <= ColdCost(th[t]) /\ WarmCost(r) <= WarmCost(th[t])
          /\ ColdOfMain' + ColdCost(r) <= ColdOfMain + ColdCost(th[t])
          /\ WarmOfMain' + WarmCost(r) <= WarmOfMain + WarmCost(th[t])
      <4>1. /\ ColdCost(th'[t]) <= ColdCost(th[t]) /\ WarmCost(th'[t]) <= WarmCost(th[t])
            /\ ColdOfMain' + ColdCost(th'[t]) <= ColdOfMain + ColdCost(th[t])
            /\ WarmOfMain' + WarmCost(th'[t]) <= WarmOfMain + WarmCost(th[t])
        BY <1>1, <3>1, WorkerAccounts
      <4> QED BY <3>2, <4>1
    <3> QED BY <1>2, <1>3, <1>7, <3>1, <3>3, AccountsOfWorker DEF Kept
  <2> QED BY <2>1, <2>2
<1> QED BY <1>5, <1>6, <1>8 DEF PoolInv

\* What a call of Main does outside of the cache.
NotTheCache ==
  /\ UNCHANGED <<probationary, protected, hits>>
  /\ hot' \subseteq Keys /\ freq' \in [Keys -> 0..PromotionThreshold]
  /\ session' \in PoolSession /\ agenda' \in Agenda
  /\ tasks' \in Seq(TaskType) /\ Begun(tasks) \subseteq Begun(tasks')
  /\ pending' \in [Keys -> 0..Len(tasks')]
  /\ raised' \in BOOLEAN /\ calls' \in 0..MaxCalls

\* A step of Main outside of the cache, or to the start or the end of a get.
LEMMA PoolOutside ==
  ASSUME PoolInv, NotTheCache, NEW r \in ThreadType, th' = [th EXCEPT ![Main] = r],
         ~r.nested, r.pc \in Outside \union {"get", "promoted"}, MainGood(r)
  PROVE  PoolInv'
<1>1. /\ PoolTypes /\ th \in [Threads -> ThreadType] /\ Main \in Threads /\ Main \notin Workers
      /\ Workers \subseteq Threads
  BY ExpertRuntimeAssumption DEF PoolInv, PoolTypes, Threads
<1>2. th'[Main] = r /\ (\A t \in Threads : t # Main => th'[t] = th[t]) /\ th' \in [Threads -> ThreadType]
  BY <1>1
<1>3. PoolTypes' BY <1>1, <1>2 DEF PoolTypes, NotTheCache, PoolSession
<1>4. ThreadsGood'
  <2>1. \A t \in Threads : Good(t, th'[t]) BY <1>1, <1>2 DEF PoolInv, ThreadsGood, Good
  <2> QED BY <2>1 DEF ThreadsGood
<1>5. ColdOfMain' <= ColdOfMain /\ WarmOfMain' <= WarmOfMain /\ ColdOfMain' \in Nat /\ WarmOfMain' \in Nat
  <2>1. /\ ColdDebt(r, ToSet(probationary), ToSet(protected)) = 0
        /\ WarmDebt(r, ToSet(protected)) = 0
    BY DEF ColdDebt, WarmDebt, Outside
  <2>2. ColdOfMain' = Len(probationary) + 0 /\ WarmOfMain' = Len(protected) + 0
    BY <1>2, <2>1 DEF ColdOfMain, WarmOfMain, NotTheCache
  <2>3. /\ Len(probationary) <= ColdOfMain /\ Len(protected) <= WarmOfMain
        /\ Len(probationary) \in Nat /\ Len(protected) \in Nat
    BY <1>1, LengthsAndDebts DEF PoolTypes
  <2>4. Len(probationary) + 0 = Len(probationary) /\ Len(protected) + 0 = Len(protected) BY <2>3
  <2> QED BY <2>2, <2>3, <2>4
<1>6. PoolAccounts' BY <1>1, <1>2, <1>5, AccountsOfMain DEF NotTheCache
<1> QED BY <1>3, <1>4, <1>6 DEF PoolInv

\* A call that leaves every thread where it is.
LEMMA PoolStill ==
  ASSUME PoolInv, NotTheCache, UNCHANGED th
  PROVE  PoolInv'
<1>1. PoolTypes BY DEF PoolInv
<1>3. PoolTypes' BY <1>1 DEF PoolTypes, NotTheCache, PoolSession
<1>4. ThreadsGood' BY DEF PoolInv, ThreadsGood
<1>5. ColdOfMain' = ColdOfMain /\ WarmOfMain' = WarmOfMain
  BY DEF ColdOfMain, WarmOfMain, NotTheCache
<1>6. ColdOfMain \in Nat /\ WarmOfMain \in Nat BY <1>1, AccountNumbers
<1>7. ColdOfMain' <= ColdOfMain /\ WarmOfMain' <= WarmOfMain /\ ColdOfMain' \in Nat /\ WarmOfMain' \in Nat
  BY <1>5, <1>6
<1>8. PoolAccounts' BY <1>7, AccountsOfMain DEF NotTheCache
<1> QED BY <1>3, <1>4, <1>8 DEF PoolInv

\* No step of Main or of a worker overdraws the accounts.
LEMMA PoolInvNext ==
  ASSUME PoolInv, [Next]_vars
  PROVE  PoolInv'
<1> USE ExpertRuntimeAssumption DEF cache, gpu, pins, pool, At, Key
<1> DEFINE m == th[Main]
<1>0. /\ PoolTypes /\ MainGood(m) /\ m \in ThreadType /\ th \in [Threads -> ThreadType]
      /\ Main \in Threads /\ probationary \in Dict /\ protected \in Dict /\ hits \in Dict
      /\ hot \subseteq Keys /\ freq \in [Keys -> 0..PromotionThreshold]
      /\ agenda \in Agenda /\ session \in PoolSession /\ pending \in [Keys -> 0..Len(tasks)]
      /\ tasks \in Seq(TaskType) /\ raised \in BOOLEAN /\ calls \in 0..MaxCalls
  BY DEF PoolInv, PoolTypes, ThreadsGood, Good, Threads, PoolSession
<1>r. Rest \in ThreadType /\ Rest.pc \in Outside /\ ~Rest.nested /\ MainGood(Rest)
  BY RestGood DEF Good, Rest, Outside, MainGood
\* What a step leaves alone stays in its type.
<1>k. ASSUME UNCHANGED <<probationary, protected, hits>>,
             hot' = hot \/ hot' \subseteq Keys,
             freq' = freq \/ freq' \in [Keys -> 0..PromotionThreshold],
             session' = session \/ session' \in PoolSession, agenda' = agenda \/ agenda' \in Agenda,
             UNCHANGED tasks \/ (tasks' \in Seq(TaskType) /\ Begun(tasks) \subseteq Begun(tasks')),
             (UNCHANGED <<tasks, pending>>) \/ pending' \in [Keys -> 0..Len(tasks')],
             raised' = raised, calls' = calls \/ (calls < MaxCalls /\ calls' = calls + 1)
      PROVE  NotTheCache
  <2>1. calls' \in 0..MaxCalls BY <1>0, <1>k
  <2>2. tasks' \in Seq(TaskType) /\ Begun(tasks) \subseteq Begun(tasks') BY <1>0, <1>k
  <2>3. pending' \in [Keys -> 0..Len(tasks')] BY <1>0, <1>k
  <2> QED BY <1>0, <1>k, <2>1, <2>2, <2>3 DEF NotTheCache
<1>1. ASSUME NEW t \in Threads, Get(t) \/ Put(t) \/ Read(t) PROVE PoolInv'
  <2>1. th[t].pc \notin Outside
    BY <1>1 DEF Get, Put, Read, LookProtected, Refresh, ReadWarm, LookProbationary, PopHit, CheckRoom, Demote,
       PutDemoted, PromoteHit, LookForWarm, LookForCold, LookToStore, StoreWarm, StoreCold, CheckFull,
       Evict, InsertCold, CountCold, AssertBound, Outside
  <2> QED BY <1>1, <2>1, PoolCache
<1>2. CASE Promote
  <2>1. m.key \in Keys BY <1>0, <1>2 DEF Promote, MainGood, Outside
  <2>2. hot' \subseteq Keys /\ UNCHANGED <<probationary, protected, hits, freq, tasks, pending, raised, calls>>
    BY <1>0, <1>2, <2>1 DEF Promote
  <2>3. CASE m.caller = "pinVram"
    <3> DEFINE r == [Rest EXCEPT !.pc = "pinVram", !.caller = "pinVram"]
    <3>1. r \in ThreadType /\ r.pc \in Outside /\ ~r.nested /\ MainGood(r)
      BY DEF Rest, ThreadType, PCs, Outside, Callers, MainGood
    <3>2. th' = [th EXCEPT ![Main] = r] /\ agenda' = [agenda EXCEPT !.next = @ + 1]
          /\ session' = [session EXCEPT !.pinned = @ \union {m.key}]
      BY <1>2, <2>3 DEF Promote
    <3> HIDE DEF r
    <3>3. agenda' \in Agenda BY <1>0, <3>2, AgendaGoesOn
    <3>4. session' \in PoolSession BY <1>0, <2>1, <3>2 DEF PoolSession
    <3>5. NotTheCache BY <1>k, <2>2, <3>3, <3>4
    <3> QED BY <3>1, <3>2, <3>5, PoolOutside
  <2>4. CASE m.caller # "pinVram"
    <3>1. th' = [th EXCEPT ![Main] = Rest] /\ UNCHANGED <<session, agenda>> BY <1>2, <2>4 DEF Promote
    <3>2. NotTheCache BY <1>k, <2>2, <3>1
    <3> QED BY <1>r, <3>1, <3>2, PoolOutside
  <2> QED BY <2>3, <2>4
<1>3. CASE Awaited
  <2>1. th' = [th EXCEPT ![Main] = Rest] BY <1>3 DEF Awaited
  <2>2. NotTheCache BY <1>3, <1>k DEF Awaited
  <2> QED BY <1>r, <2>1, <2>2, PoolOutside
<1>e. ASSUME NEW k \in Keys, NEW caller \in {"fetch", "pinVram"}, Enter(k, caller),
             UNCHANGED <<probationary, protected, hits, hot, session, agenda, tasks, pending, raised>>,
             calls' = calls \/ (calls < MaxCalls /\ calls' = calls + 1)
      PROVE  PoolInv'
  <2> DEFINE p == IF k \notin hot THEN "get" ELSE IF caller = "fetch" THEN "idle" ELSE "promoted"
             r == [Rest EXCEPT !.key = k, !.caller = caller, !.pc = p]
             n == Min({PromotionThreshold, freq[k] + 1})
  <2>1. /\ r \in ThreadType /\ ~r.nested /\ r.pc \in Outside \union {"get", "promoted"} /\ MainGood(r)
    BY DEF Rest, ThreadType, PCs, Outside, Callers, MainGood
  <2>2. th' = [th EXCEPT ![Main] = r] BY <1>e DEF Enter
  <2>3. n \in 0..PromotionThreshold
    <3>1. freq[k] \in 0..PromotionThreshold BY <1>0
    <3>2. PromotionThreshold \in Int /\ freq[k] + 1 \in Int BY <3>1
    <3>3. n = IF PromotionThreshold <= freq[k] + 1 THEN PromotionThreshold ELSE freq[k] + 1
      BY <3>2, MinOfTwo
    <3> HIDE DEF n
    <3> QED BY <3>1, <3>3
  <2>4. freq' = [freq EXCEPT ![k] = n] BY <1>e DEF Enter
  <2> HIDE DEF r, n
  <2>5. freq' \in [Keys -> 0..PromotionThreshold] BY <1>0, <2>3, <2>4
  <2>6. NotTheCache BY <1>e, <1>k, <2>5
  <2> QED BY <2>1, <2>2, <2>6, PoolOutside
<1>4. CASE PinVram
  <2>1. agenda.order[agenda.next] \in Keys BY <1>0, <1>4 DEF PinVram, Agenda
  <2> QED BY <1>4, <1>e, <2>1 DEF PinVram
<1>5. CASE PinVramDone
  <2> DEFINE n == Cardinality(session.pinned)
             r == [Rest EXCEPT !.pc = "pinRam", !.caller = "pinRam"]
             l == Min({Len(agenda.order), n + ProtectedCapacity})
  <2>1. r \in ThreadType /\ r.pc \in Outside /\ ~r.nested /\ MainGood(r)
    BY DEF Rest, ThreadType, PCs, Outside, Callers, MainGood
  <2>2. n \in Nat
    <3>1. IsFiniteSet(session.pinned) BY <1>0, FS_Subset DEF PoolSession
    <3> QED BY <3>1, FS_CardinalityType
  <2>3. th' = [th EXCEPT ![Main] = r] /\ agenda' = [agenda EXCEPT !.next = n + 1, !.last = l]
    BY <1>5 DEF PinVramDone
  <2>4. l \in Nat /\ l <= Len(agenda.order)
    <3>1. Len(agenda.order) \in Nat /\ n + ProtectedCapacity \in Nat
      BY <1>0, <2>2, ProtectedSlots DEF Agenda
    <3> QED BY <3>1, LesserOfTwo
  <2> HIDE DEF n, r, l
  <2>5. agenda' \in Agenda
    <3>1. n + 1 \in Nat \ {0} BY <2>2
    <3>2. agenda' = [order |-> agenda.order, next |-> n + 1, last |-> l]
      BY <1>0, <2>3 DEF Agenda
    <3> QED BY <1>0, <2>4, <3>1, <3>2 DEF Agenda
  <2>6. NotTheCache BY <1>5, <1>k, <2>5 DEF PinVramDone
  <2> QED BY <2>1, <2>3, <2>6, PoolOutside
<1>6. CASE PinRam
  <2> DEFINE r == [m EXCEPT !.pc = "get", !.key = agenda.order[agenda.next]]
  <2>1. agenda.order[agenda.next] \in Keys BY <1>0, <1>6 DEF PinRam, Agenda
  <2>2. m.pc = "pinRam" /\ ~m.nested /\ m.caller \in Callers BY <1>0, <1>6 DEF PinRam, MainGood
  <2>3. r \in ThreadType /\ r.pc = "get" /\ r.key \in Keys /\ r.caller \in Callers /\ ~r.nested
    BY <1>0, <2>1, <2>2 DEF ThreadType, PCs
  <2>4. th' = [th EXCEPT ![Main] = r] BY <1>0, <1>6 DEF PinRam
  <2> HIDE DEF r
  <2>5. MainGood(r) BY <2>3 DEF MainGood
  <2>6. NotTheCache BY <1>6, <1>k DEF PinRam
  <2> QED BY <2>3, <2>4, <2>5, <2>6, PoolOutside
<1>7. CASE PinRamDone
  <2>1. th' = [th EXCEPT ![Main] = Rest] /\ session' = [session EXCEPT !.frozen = TRUE] /\ agenda' = NoAgenda
    BY <1>7 DEF PinRamDone
  <2>2. session' \in PoolSession BY <1>0, <2>1 DEF PoolSession
  <2>3. agenda' \in Agenda BY <2>1 DEF NoAgenda, Agenda
  <2>4. NotTheCache BY <1>7, <1>k, <2>2, <2>3 DEF PinRamDone
  <2> QED BY <1>r, <2>1, <2>4, PoolOutside
<1>8. CASE Issue
  <2> DEFINE k == m.key
             e == [key |-> k, st |-> "queued"]
  <2>1. k \in Keys BY <1>0, <1>8 DEF Issue, MainGood
  <2>2. e \in TaskType BY <2>1 DEF TaskType
  <2>3. \/ UNCHANGED <<tasks, pending>>
        \/ tasks' = Append(tasks, e) /\ pending' = [pending EXCEPT ![k] = Len(tasks) + 1]
    BY <1>8 DEF Issue
  <2>4. th' = [th EXCEPT ![Main] = Rest] BY <1>8 DEF Issue
  <2>5. CASE UNCHANGED <<tasks, pending>>
    <3>1. NotTheCache BY <1>8, <1>k, <2>5 DEF Issue
    <3> QED BY <1>r, <2>4, <3>1, PoolOutside
  <2>6. CASE tasks' = Append(tasks, e) /\ pending' = [pending EXCEPT ![k] = Len(tasks) + 1]
    <3> HIDE DEF k, e
    <3>1. /\ tasks' \in Seq(TaskType) /\ Len(tasks') = Len(tasks) + 1 /\ Len(tasks) \in Nat
          /\ \A i \in 1..Len(tasks) : tasks'[i] = tasks[i]
      BY <1>0, <2>2, <2>6
    <3>2. Begun(tasks) \subseteq Begun(tasks')
      <4>1. /\ DOMAIN tasks = 1..Len(tasks) /\ DOMAIN tasks' = 1..Len(tasks')
            /\ 1..Len(tasks) \subseteq 1..Len(tasks')
        BY <1>0, <3>1
      <4>2. \A i \in DOMAIN tasks : i \in DOMAIN tasks' /\ tasks'[i] = tasks[i] BY <3>1, <4>1
      <4> QED BY <4>2 DEF Begun
    <3>3. pending' \in [Keys -> 0..Len(tasks')]
      <4>1. Len(tasks) + 1 \in 0..(Len(tasks) + 1) /\ 0..Len(tasks) \subseteq 0..(Len(tasks) + 1)
        BY <3>1
      <4>2. pending' \in [Keys -> 0..(Len(tasks) + 1)] BY <1>0, <2>6, <4>1
      <4> QED BY <3>1, <4>2
    <3>4. NotTheCache BY <1>8, <1>k, <3>1, <3>2, <3>3 DEF Issue
    <3> QED BY <1>r, <2>4, <3>4, PoolOutside
  <2> QED BY <2>3, <2>5, <2>6
<1>9. ASSUME NEW k \in Keys, Fetch(k) PROVE PoolInv'
  BY <1>9, <1>e DEF Fetch, MainCalls
<1>10. ASSUME NEW k \in Keys, Predict(k) PROVE PoolInv'
  <2>1. NotTheCache BY <1>10, <1>k DEF Predict, MainCalls
  <2>2. CASE UNCHANGED th BY <2>1, <2>2, PoolStill
  <2>3. CASE ~UNCHANGED th
    <3> DEFINE r == [Rest EXCEPT !.pc = "issue", !.key = k, !.caller = "issue"]
    <3>1. r \in ThreadType /\ r.pc \in Outside /\ ~r.nested /\ MainGood(r)
      BY DEF Rest, ThreadType, PCs, Outside, MainGood
    <3>2. th' = [th EXCEPT ![Main] = r] BY <1>10, <2>3 DEF Predict
    <3> HIDE DEF r
    <3> QED BY <2>1, <3>1, <3>2, PoolOutside
  <2> QED BY <2>2, <2>3
<1>11. ASSUME NEW k \in Keys, Await(k) PROVE PoolInv'
  <2>1. pending' \in [Keys -> 0..Len(tasks')] /\ UNCHANGED tasks BY <1>0, <1>11 DEF Await
  <2>2. NotTheCache BY <1>11, <1>k, <2>1 DEF Await, MainCalls
  <2>3. CASE UNCHANGED th BY <2>2, <2>3, PoolStill
  <2>4. CASE ~UNCHANGED th
    <3> DEFINE r == [Rest EXCEPT !.pc = "await", !.key = k, !.caller = "await", !.task = pending[k]]
    <3>0. pending[k] \in Nat BY <1>0
    <3>1. r \in ThreadType /\ r.pc \in Outside /\ ~r.nested /\ MainGood(r)
      BY <3>0 DEF Rest, ThreadType, PCs, Outside, MainGood
    <3>2. th' = [th EXCEPT ![Main] = r] BY <1>11, <2>4 DEF Await
    <3> HIDE DEF r
    <3> QED BY <2>2, <3>1, <3>2, PoolOutside
  <2> QED BY <2>3, <2>4
<1>12. ASSUME NEW k \in Keys, RecordRouting(k) PROVE PoolInv'
  <2>1. session.freq \in [Keys -> 0..MaxCount] /\ session.freq[k] < MaxCount
    BY <1>0, <1>12 DEF RecordRouting, PoolSession
  <2>2. session' = [session EXCEPT !.freq = [session.freq EXCEPT ![k] = session.freq[k] + 1]]
    BY <1>12 DEF RecordRouting
  <2>3. [session.freq EXCEPT ![k] = session.freq[k] + 1] \in [Keys -> 0..MaxCount] BY <2>1
  <2>4. session' \in PoolSession BY <1>0, <2>2, <2>3 DEF PoolSession
  <2>5. NotTheCache BY <1>12, <1>k, <2>4 DEF RecordRouting, MainCalls
  <2> QED BY <1>12, <2>5, PoolStill DEF RecordRouting
<1>13. CASE StepToken
  <2>1. session' \in PoolSession
    <3> DEFINE n == Min({Warmup, session.token + 1})
    <3>1. session.token \in 0..Warmup BY <1>0 DEF PoolSession
    <3>2. Warmup \in Int /\ session.token + 1 \in Int BY <3>1
    <3>3. n = IF Warmup <= session.token + 1 THEN Warmup ELSE session.token + 1 BY <3>2, MinOfTwo
    <3>4. session' = [session EXCEPT !.token = n] BY <1>13 DEF StepToken
    <3> HIDE DEF n
    <3>5. n \in 0..Warmup BY <3>1, <3>3
    <3> QED BY <1>0, <3>4, <3>5 DEF PoolSession
  <2>2. CASE UNCHANGED <<agenda, th>>
    <3>1. NotTheCache BY <1>13, <1>k, <2>1, <2>2 DEF StepToken, MainCalls
    <3> QED BY <2>2, <3>1, PoolStill
  <2>3. CASE ~UNCHANGED <<agenda, th>>
    <3> DEFINE r == [Rest EXCEPT !.pc = "pinVram", !.caller = "pinVram"]
    <3>1. r \in ThreadType /\ r.pc \in Outside /\ ~r.nested /\ MainGood(r)
      BY DEF Rest, ThreadType, PCs, Outside, Callers, MainGood
    <3>2. PICK order \in MostCommon :
            /\ agenda' = [order |-> order, next |-> 1,
                          last |-> IF Cuda THEN Min({PinCount, Len(order)}) ELSE 0]
            /\ th' = [th EXCEPT ![Main] = r]
      BY <1>13, <2>3 DEF StepToken
    <3>3. order \in Seq(Keys) /\ Len(order) \in Nat BY MostCommonIsSeq
    <3>4. {PinCount, Len(order)} = {Len(order), PinCount} OBVIOUS
    <3>5. Min({PinCount, Len(order)}) \in Nat /\ Min({PinCount, Len(order)}) <= Len(order)
      BY <3>3, <3>4, LesserOfTwo
    <3>6. agenda' \in Agenda
      <4> DEFINE l == IF Cuda THEN Min({PinCount, Len(order)}) ELSE 0
      <4>1. l \in Nat /\ l <= Len(order) BY <3>3, <3>5
      <4>2. agenda' = [order |-> order, next |-> 1, last |-> l] BY <3>2
      <4> HIDE DEF l
      <4> QED BY <3>3, <4>1, <4>2 DEF Agenda
    <3> HIDE DEF r
    <3>7. NotTheCache BY <1>13, <1>k, <2>1, <3>6 DEF StepToken, MainCalls
    <3> QED BY <3>1, <3>2, <3>7, PoolOutside
  <2> QED BY <2>2, <2>3
<1>14. CASE ResetSession
  <2>1. session' \in PoolSession BY <1>14 DEF ResetSession, FreshSession, PoolSession
  <2>2. NotTheCache BY <1>14, <1>k, <2>1 DEF ResetSession, MainCalls
  <2> QED BY <1>14, <2>2, PoolStill DEF ResetSession
<1>15. CASE UNCHANGED vars
  <2>1. NotTheCache BY <1>15, <1>k DEF vars
  <2> QED BY <1>15, <2>1, PoolStill DEF vars
<1>16. ASSUME NEW w \in Workers, Take(w) PROVE PoolInv'
  <2>1. PICK i \in DOMAIN tasks :
          /\ tasks[i].st = "queued" /\ tasks' = [tasks EXCEPT ![i].st = "running"]
          /\ th' = [th EXCEPT ![w] = [Rest EXCEPT !.pc = "read", !.key = tasks[i].key,
                                              !.caller = "task", !.task = i]]
    BY <1>16 DEF Take
  <2> DEFINE r == [Rest EXCEPT !.pc = "read", !.key = tasks[i].key, !.caller = "task", !.task = i]
  <2>2. i \in Nat /\ tasks[i].key \in Keys /\ w \in Threads /\ w # Main
    <3>1. i \in 1..Len(tasks) /\ tasks[i] \in TaskType BY <1>0, <2>1
    <3> QED BY <3>1 DEF TaskType, Threads
  <2>3. r \in ThreadType /\ r.pc = "read" /\ WorkerGood(r)
    BY <2>2 DEF Rest, ThreadType, PCs, WorkerGood, Working, Outside, Getting
  <2>4. th' = [th EXCEPT ![w] = r] /\ th[w].pc = "idle" BY <1>16, <2>1 DEF Take
  <2> HIDE DEF r
  <2>5. /\ tasks' \in Seq(TaskType) /\ Len(tasks') = Len(tasks) /\ Begun(tasks) \subseteq Begun(tasks')
        /\ i \in Begun(tasks')
    BY <1>0, <2>1, TaskChanges
  <2>6. i \notin Begun(tasks) BY <2>1 DEF Begun
  <2>7. UNCHANGED <<probationary, protected, hits, hot, freq, session, agenda, pending, raised, calls>>
    BY <1>16 DEF Take
  <2>8. PoolAccounts' BY <2>3, <2>4, <2>5, <2>6, <2>7, AccountsOfTask
  <2>9. th' \in [Threads -> ThreadType] BY <1>0, <2>2, <2>3, <2>4
  <2>10. PoolTypes'
    BY <1>0, <2>5, <2>7, <2>9 DEF PoolTypes
  <2>11. ThreadsGood'
    <3>1. \A t \in Threads : Good(t, th'[t])
      BY <1>0, <2>2, <2>3, <2>4 DEF PoolInv, ThreadsGood, Good
    <3> QED BY <3>1 DEF ThreadsGood
  <2> QED BY <2>8, <2>10, <2>11 DEF PoolInv
<1>17. CASE MainWork
  BY <1>0, <1>1, <1>2, <1>3, <1>4, <1>5, <1>6, <1>7, <1>8, <1>17 DEF MainWork
<1>18. ASSUME NEW w \in Workers, Worker(w) PROVE PoolInv'
  BY <1>1, <1>16, <1>18 DEF Worker, Threads
<1> QED
  BY <1>9, <1>10, <1>11, <1>12, <1>13, <1>14, <1>15, <1>17, <1>18 DEF Next, Finished

\* With any number of workers racing on the dicts that no lock protects, every
\* variable keeps its type and each partition outgrows its share by a fixed
\* number of slots per prefetch task begun, never without limit (cache.py:22,
\* prefetch.py's pool), whatever the capacities and the interleaving.
THEOREM PrefetchIsSound == Spec => []PrefetchSound
<1>1. PoolInv => PrefetchSound
  <2> SUFFICES ASSUME PoolInv PROVE PrefetchSound OBVIOUS
  <2>0. PoolTypes BY DEF PoolInv
  <2>1. TypeOK
    <3>1. \A t \in Threads : th[t].pc \in PCs /\ th[t].key \in Keys \union {Main}
      BY <2>0 DEF PoolTypes, ThreadType
    <3>2. agenda.order \in Seq(Keys) /\ agenda.next \in Nat /\ agenda.last \in 0..Len(agenda.order)
      BY <2>0 DEF PoolTypes, Agenda
    <3>3. /\ probationary \in Seq(Keys) /\ IsInjective(probationary)
          /\ protected \in Seq(Keys) /\ IsInjective(protected)
          /\ hits \in Seq(Keys) /\ IsInjective(hits)
      BY <2>0 DEF PoolTypes, Dict, Distinct
    <3> QED BY <2>0, <3>1, <3>2, <3>3 DEF PoolTypes, TypeOK, TaskType
  <2>2. OvershootBounded
    <3>1. /\ Len(probationary) <= ColdOfMain /\ Len(protected) <= WarmOfMain
          /\ Len(probationary) \in Nat /\ Len(protected) \in Nat
      BY <2>0, LengthsAndDebts DEF PoolTypes
    <3>2. /\ ColdOfMain \in Nat /\ WarmOfMain \in Nat
          /\ Sum(ColdDue, Workers) \in Nat /\ Sum(WarmDue, Workers) \in Nat
          /\ ProbationaryCapacity \in Nat /\ ProtectedCapacity \in Nat
      BY <2>0, AccountNumbers
    <3>3. Taken(tasks) \in Nat BY <2>0, TasksFinite DEF PoolTypes, Taken
    <3>4. /\ ColdOfMain + Sum(ColdDue, Workers) <= ProbationaryCapacity + 3 * Taken(tasks)
          /\ WarmOfMain + Sum(WarmDue, Workers) <= ProtectedCapacity + 2 * Taken(tasks)
      BY DEF PoolInv, PoolAccounts, Covered
    <3>5. /\ Len(probationary) <= ProbationaryCapacity + 3 * Taken(tasks)
          /\ Len(protected) <= ProtectedCapacity + 2 * Taken(tasks)
      BY <3>1, <3>2, <3>3, <3>4
    <3> QED BY <3>5 DEF OvershootBounded, Taken, Begun
  <2> QED BY <2>1, <2>2 DEF PrefetchSound
<1> QED BY <1>1, PoolInvInit, PoolInvNext, PTL DEF Spec
=============================================================================
