--------------------------- MODULE InferenceProofs ---------------------------
(***************************************************************************)
(* Proofs about PagedRunner and the FastCache it extends, for any number   *)
(* of layers and experts, tiers of any size and streams of any length, and *)
(* about SpeculativeDecode, for any text and any pair of models.           *)
(*                                                                         *)
(* The inductive invariant has two parts.  CacheInv says that the tables   *)
(* of the VRAM tier agree and, as long as no stream took a slot the other  *)
(* still had work on, that every slot comes to hold what the table says by *)
(* the time a kernel reads it: the copies into a slot wait in one stream,  *)
(* and a read is behind the copy it needs or behind a wait for it.         *)
(* RunnerInv says where a pass stands in its program: what is left of it   *)
(* is work on experts and then a tail of the program, and the number of    *)
(* tasks in the tail tells how many layers have been built or run.         *)
(***************************************************************************)
EXTENDS PagedRunner, SpeculativeDecode, DataTheorems

-----------------------------------------------------------------------------
(* Sequences without repetition, and tables of entries with a key each.    *)

\* pop() of a list
LEMMA PoppedLast ==
  ASSUME NEW K, NEW d \in Distinct(K), d # <<>>
  PROVE  /\ Front(d) \in Distinct(K) /\ Last(d) \in ToSet(d)
         /\ ToSet(Front(d)) = ToSet(d) \ {Last(d)} /\ Len(Front(d)) = Len(d) - 1
<1>1. d \in Seq(K) /\ DOMAIN d = 1..Len(d) /\ Len(d) \in Nat \ {0} BY DEF Distinct
<1>2. Len(d) \in DOMAIN d BY <1>1
<1>3. SubSeq(d, Len(d) + 1, Len(d)) = <<>> BY <1>1
<1>4. SubSeq(d, 1, Len(d) - 1) \in Seq(K) BY <1>1
<1>5. RemoveAt(d, Len(d)) = Front(d) BY <1>3, <1>4 DEF RemoveAt, Front
<1>6. /\ Front(d) \in Distinct(K) /\ Len(Front(d)) = Len(d) - 1
      /\ ToSet(Front(d)) = ToSet(d) \ {d[Len(d)]}
  BY <1>2, <1>5, RemoveAtFacts
<1> QED BY <1>2, <1>6 DEF ToSet, Last

LEMMA ElementOf ==
  ASSUME NEW K, NEW d \in Distinct(K)
  PROVE  /\ ToSet(d) \subseteq K
         /\ d \in Seq(K) /\ Len(d) \in Nat
         /\ \A x \in ToSet(d) : \E i \in DOMAIN d : d[i] = x
         /\ d = <<>> <=> ToSet(d) = {}
         /\ Len(d) > 0 <=> d # <<>>
<1>1. d \in Seq(K) /\ DOMAIN d = 1..Len(d) /\ Len(d) \in Nat BY DEF Distinct
<1>2. d # <<>> => 1 \in DOMAIN d BY <1>1
<1>3. d = <<>> => DOMAIN d = {} OBVIOUS
<1>4. Len(d) > 0 <=> d # <<>> BY <1>1
<1> QED BY <1>1, <1>2, <1>3, <1>4 DEF ToSet

EntryType == [key : Keys, slot : Nat]
Shelf == {v \in Distinct(EntryType) : \A e, f \in ToSet(v) : e.key = f.key => e = f}

LEMMA EmptyShelf == <<>> \in Shelf /\ ToSet(<<>>) = {} /\ Len(<<>>) = 0
BY EmptyFacts DEF Shelf

LEMMA ShelfAppend ==
  ASSUME NEW v \in Shelf, NEW e \in EntryType, \A f \in ToSet(v) : f.key # e.key
  PROVE  /\ Append(v, e) \in Shelf /\ ToSet(Append(v, e)) = ToSet(v) \union {e}
         /\ Len(Append(v, e)) = Len(v) + 1
<1>1. v \in Distinct(EntryType) /\ e \notin ToSet(v) BY DEF Shelf
<1> QED BY <1>1, AppendFacts DEF Shelf

\* The position of an entry is found by its key.
LEMMA PositionFacts ==
  ASSUME NEW v \in Shelf, NEW e \in ToSet(v)
  PROVE  /\ Position(v, e.key) \in DOMAIN v /\ v[Position(v, e.key)] = e
         /\ Entry(v, e.key) = e
<1>1. \E i \in DOMAIN v : v[i] = e BY DEF ToSet
<1>2. \E i \in DOMAIN v : v[i].key = e.key BY <1>1
<1> DEFINE n == CHOOSE i \in DOMAIN v : v[i].key = e.key
<1>3. n \in DOMAIN v /\ v[n].key = e.key BY <1>2
<1> HIDE DEF n
<1>4. v[n] \in ToSet(v) BY <1>3 DEF ToSet
<1>5. v[n] = e BY <1>3, <1>4 DEF Shelf
<1>6. Position(v, e.key) = n BY DEF Position, n
<1> QED BY <1>3, <1>5, <1>6 DEF Entry

LEMMA ShelfWithout ==
  ASSUME NEW v \in Shelf, NEW e \in ToSet(v)
  PROVE  /\ Without(v, e.key) \in Shelf /\ ToSet(Without(v, e.key)) = ToSet(v) \ {e}
         /\ Len(Without(v, e.key)) = Len(v) - 1
<1>1. Position(v, e.key) \in DOMAIN v /\ v[Position(v, e.key)] = e BY PositionFacts
<1>2. v \in Distinct(EntryType) BY DEF Shelf
<1>3. /\ Without(v, e.key) \in Distinct(EntryType)
      /\ ToSet(Without(v, e.key)) = ToSet(v) \ {e}
      /\ Len(Without(v, e.key)) = Len(v) - 1
  BY <1>1, <1>2, RemoveAtFacts DEF Without
<1> QED BY <1>3 DEF Shelf

LEMMA ShelfTail ==
  ASSUME NEW v \in Shelf, v # <<>>
  PROVE  /\ Tail(v) \in Shelf /\ Head(v) \in ToSet(v)
         /\ ToSet(Tail(v)) = ToSet(v) \ {Head(v)} /\ Len(Tail(v)) = Len(v) - 1
BY PoppedFirst DEF Shelf

LEMMA ShelfEntries ==
  ASSUME NEW v \in Shelf
  PROVE  /\ ToSet(v) \subseteq EntryType /\ Len(v) \in Nat
         /\ v = <<>> <=> ToSet(v) = {}
BY ElementOf DEF Shelf

-----------------------------------------------------------------------------
(***************************************************************************)
(* The tables of the VRAM tier.                                            *)
(***************************************************************************)

\* The arena is ready: what its map of keys and its stack of free slots say of
\* the entries in VRAM.
Divided(v, k, f, c) ==
  /\ ToSet(v) = ToSet(k)
  /\ \A e \in ToSet(v) : e.slot \in 1..c /\ e.slot \notin ToSet(f)
  /\ \A e, g \in ToSet(v) : e.slot = g.slot => e = g
  /\ \A s \in 1..c : s \in ToSet(f) \/ \E e \in ToSet(v) : e.slot = s

\* There is none: the entries have tensors of their own.
Unslotted(v, k, f) ==
  /\ k = <<>> /\ f = <<>>
  /\ \A e \in ToSet(v) : e.slot = NoSlot

TablesGood(v, k, f, a, c) ==
  /\ v \in Shelf /\ Len(v) <= c /\ k \in Shelf /\ f \in Distinct(1..c)
  /\ a \in {"unset", "ready", "refused"}
  /\ a = "unset" => v = <<>>
  /\ IF a = "ready" THEN Divided(v, k, f, c) ELSE Unslotted(v, k, f)

\* The slots of the entries count as many as the entries.
LEMMA SlotsCount ==
  ASSUME NEW v \in Shelf, \A e, g \in ToSet(v) : e.slot = g.slot => e = g
  PROVE  /\ IsFiniteSet({e.slot : e \in ToSet(v)})
         /\ Cardinality({e.slot : e \in ToSet(v)}) = Len(v)
<1>1. v \in Distinct(EntryType) BY DEF Shelf
<1>2. IsFiniteSet(ToSet(v)) /\ Cardinality(ToSet(v)) = Len(v) BY <1>1, LenIsCardinality
<1> DEFINE T == {e.slot : e \in ToSet(v)}
           F == [e \in ToSet(v) |-> e.slot]
<1>6. F \in [ToSet(v) -> T] /\ \A x \in T : \E e \in ToSet(v) : F[e] = x OBVIOUS
<1>7. \A e, g \in ToSet(v) : F[e] = F[g] => e = g OBVIOUS
<1>3. F \in Bijection(ToSet(v), T)
  BY <1>6, <1>7 DEF Bijection, Injection, Surjection, IsInjective
<1>4. ExistsBijection(ToSet(v), T) BY <1>3 DEF ExistsBijection
<1> HIDE DEF T, F
<1>5. IsFiniteSet(T) /\ Cardinality(T) = Len(v) BY <1>2, <1>4, FS_Bijection
<1> QED BY <1>5 DEF T

LEMMA KeysCount ==
  ASSUME NEW v \in Shelf
  PROVE  Cardinality(KeysOf(v)) = Len(v)
<1>1. v \in Distinct(EntryType) /\ \A e, g \in ToSet(v) : e.key = g.key => e = g BY DEF Shelf
<1>2. IsFiniteSet(ToSet(v)) /\ Cardinality(ToSet(v)) = Len(v) BY <1>1, LenIsCardinality
<1> DEFINE T == {e.key : e \in ToSet(v)}
           F == [e \in ToSet(v) |-> e.key]
<1>6. F \in [ToSet(v) -> T] /\ \A x \in T : \E e \in ToSet(v) : F[e] = x OBVIOUS
<1>7. \A e, g \in ToSet(v) : F[e] = F[g] => e = g BY <1>1
<1>3. F \in Bijection(ToSet(v), T)
  BY <1>6, <1>7 DEF Bijection, Injection, Surjection, IsInjective
<1>4. ExistsBijection(ToSet(v), T) BY <1>3 DEF ExistsBijection
<1> HIDE DEF T, F
<1>5. Cardinality(T) = Len(v) BY <1>2, <1>4, FS_Bijection
<1> QED BY <1>5 DEF T, KeysOf

\* Fewer entries than slots: one is free, so allocate_slot recycles none.
LEMMA FreeSlotLeft ==
  ASSUME NEW v \in Shelf, NEW k, NEW f, NEW c \in Nat, Divided(v, k, f, c), Len(v) < c
  PROVE  ToSet(f) # {}
<1> SUFFICES ASSUME ToSet(f) = {} PROVE FALSE OBVIOUS
<1> DEFINE T == {e.slot : e \in ToSet(v)}
<1>1. T = 1..c
  <2>1. \A e \in ToSet(v) : e.slot \in 1..c BY DEF Divided
  <2>2. \A s \in 1..c : \E e \in ToSet(v) : e.slot = s BY DEF Divided
  <2> QED BY <2>1, <2>2
<1>2. Cardinality(T) = Len(v) BY SlotsCount DEF Divided
<1>3. Cardinality(1..c) = c BY FS_Interval
<1>4. Len(v) \in Nat BY ShelfEntries
<1> HIDE DEF T
<1> QED BY <1>1, <1>2, <1>3, <1>4

LEMMA FreshStackFacts ==
  ASSUME vramCap \in Nat
  PROVE  FreshStack \in Distinct(1..vramCap) /\ ToSet(FreshStack) = 1..vramCap
<1>1. FreshStack \in [1..vramCap -> 1..vramCap] BY DEF FreshStack, AllSlots
<1>2. FreshStack \in Seq(1..vramCap) BY <1>1
<1>3. \A i, j \in 1..vramCap : FreshStack[i] = FreshStack[j] => i = j BY DEF FreshStack, AllSlots
<1>4. DOMAIN FreshStack = 1..vramCap BY <1>1
<1>5. \A s \in 1..vramCap : vramCap + 1 - s \in 1..vramCap /\ FreshStack[vramCap + 1 - s] = s
  BY DEF FreshStack, AllSlots
<1>6. ToSet(FreshStack) = 1..vramCap BY <1>1, <1>4, <1>5 DEF ToSet
<1> QED BY <1>2, <1>3, <1>4, <1>6 DEF Distinct, IsInjective

LEMMA DividedShelves ==
  ASSUME NEW v, NEW k, NEW f, NEW a, NEW c, TablesGood(v, k, f, a, c)
  PROVE  /\ v \in Shelf /\ Len(v) \in Nat /\ Len(v) <= c
         /\ ToSet(v) \subseteq EntryType /\ k \in Shelf /\ f \in Distinct(1..c)
         /\ ToSet(f) \subseteq 1..c
BY ShelfEntries, ElementOf DEF TablesGood

\* _evict_oldest_vram gives the slot of the oldest expert back.
LEMMA EvictOldestFacts ==
  ASSUME vramCap \in Nat \ {0}, TablesGood(vram, keySlot, free, arena, vramCap),
         NEW t, t = EvictOldest(Tables)
  PROVE  /\ t = [vram |-> t.vram, free |-> t.free, keySlot |-> t.keySlot]
         /\ TablesGood(t.vram, t.keySlot, t.free, arena, vramCap)
         /\ Len(t.vram) < vramCap /\ ToSet(t.vram) \subseteq ToSet(vram)
<1> DEFINE v == vram
           h == Head(v)
<1>0. /\ v \in Shelf /\ Len(v) \in Nat /\ Len(v) <= vramCap /\ keySlot \in Shelf
      /\ ToSet(v) \subseteq EntryType /\ free \in Distinct(1..vramCap)
  BY DividedShelves
<1>1. CASE Len(v) < vramCap
  <2>1. t = Tables BY <1>1 DEF EvictOldest, Tables
  <2>2. /\ t.vram = v /\ t.keySlot = keySlot /\ t.free = free
        /\ t = [vram |-> v, free |-> free, keySlot |-> keySlot]
    BY <2>1 DEF Tables
  <2> HIDE DEF v
  <2> QED BY <2>2, <1>1 DEF v
<1>2. CASE ~(Len(v) < vramCap)
  <2>1. v # <<>> BY <1>0, <1>2, EmptyShelf
  <2>2. /\ Tail(v) \in Shelf /\ h \in ToSet(v) /\ ToSet(Tail(v)) = ToSet(v) \ {h}
        /\ Len(Tail(v)) = Len(v) - 1
    BY <1>0, <2>1, ShelfTail
  <2> DEFINE u == [vram |-> Tail(v), free |-> free, keySlot |-> keySlot]
  <2>3. Len(Tail(v)) \in Nat /\ Len(Tail(v)) < vramCap BY <1>0, <1>2, <2>2, ShelfEntries
  <2>4. t = IF h.slot = NoSlot THEN u ELSE FreeSlot(u, h.key)
    <3>0. \A w : LET r == [vram |-> v, free |-> free, keySlot |-> keySlot]
                 IN  [r EXCEPT !.vram = w] = [vram |-> w, free |-> free, keySlot |-> keySlot]
      OBVIOUS
    <3>1. Tables.vram = v /\ [Tables EXCEPT !.vram = Tail(@)] = u
      <4> DEFINE r == [vram |-> v, free |-> free, keySlot |-> keySlot]
      <4>1. r.vram = v OBVIOUS
      <4>2. [r EXCEPT !.vram = Tail(@)] = [r EXCEPT !.vram = Tail(r.vram)] OBVIOUS
      <4>3. [r EXCEPT !.vram = Tail(v)] = u BY <3>0
      <4>4. Tables = r BY DEF Tables
      <4> HIDE DEF r, u, v
      <4> QED BY <4>1, <4>2, <4>3, <4>4
    <3>2. t = LET o == Head(Tables.vram)
                  w == [Tables EXCEPT !.vram = Tail(@)]
              IN  IF o.slot = NoSlot THEN w ELSE FreeSlot(w, o.key)
      <4>1. ~(Len(Tables.vram) < vramCap) BY <1>2, <3>1
      <4> HIDE <3>1
      <4> QED BY <4>1 DEF EvictOldest
    <3> HIDE DEF u, v
    <3> QED BY <3>1, <3>2 DEF h
  <2>5. h \in EntryType /\ h.key \in Keys /\ h.slot \in Nat BY <1>0, <2>2 DEF EntryType
  <2>6. CASE arena # "ready"
    <3>1. h.slot = NoSlot BY <2>2, <2>6 DEF TablesGood, Unslotted
    <3>2. t = u BY <2>4, <3>1
    <3>3. t.vram = Tail(v) /\ t.keySlot = keySlot /\ t.free = free BY <3>2
    <3>4. keySlot = <<>> /\ free = <<>> /\ arena \in {"unset", "refused"} /\ arena # "unset"
      BY <2>1, <2>6 DEF TablesGood, Unslotted
    <3>5. \A e \in ToSet(Tail(v)) : e.slot = NoSlot BY <2>2, <2>6 DEF TablesGood, Unslotted
    <3>6. TablesGood(Tail(v), keySlot, free, arena, vramCap)
      BY <1>0, <2>2, <2>3, <3>4, <3>5 DEF TablesGood, Unslotted
    <3> HIDE DEF v, h
    <3> QED BY <2>2, <2>3, <3>2, <3>3, <3>6 DEF u, v
  <2>7. CASE arena = "ready"
    <3>0. Divided(v, keySlot, free, vramCap) BY <2>7 DEF TablesGood
    <3>1. h.slot \in 1..vramCap /\ h.slot \notin ToSet(free) /\ h \in ToSet(keySlot)
      BY <2>2, <3>0 DEF Divided
    <3>2. h.slot # NoSlot BY <3>1 DEF NoSlot
    <3>3. \E e \in ToSet(keySlot) : e.key = h.key BY <3>1
    <3>4. Entry(keySlot, h.key) = h BY <1>0, <3>1, PositionFacts
    <3> DEFINE k == Without(keySlot, h.key)
               f == Append(free, h.slot)
    <3>5. k \in Shelf /\ ToSet(k) = ToSet(keySlot) \ {h} BY <1>0, <3>1, ShelfWithout
    <3>6. f \in Distinct(1..vramCap) /\ ToSet(f) = ToSet(free) \union {h.slot}
      BY <1>0, <3>1, AppendFacts
    <3>7. FreeSlot(u, h.key) = [vram |-> Tail(v), free |-> f, keySlot |-> k]
      BY <3>3, <3>4 DEF FreeSlot
    <3> HIDE DEF k, f, v, h, u
    <3>8. t = [vram |-> Tail(v), free |-> f, keySlot |-> k] BY <2>4, <3>2, <3>7
    <3>9. t.vram = Tail(v) /\ t.free = f /\ t.keySlot = k BY <3>8
    <3>10. Divided(Tail(v), k, f, vramCap)
      <4>1. ToSet(Tail(v)) = ToSet(k) BY <2>2, <3>0, <3>5 DEF Divided
      <4>2. ASSUME NEW e \in ToSet(Tail(v))
            PROVE  e.slot \in 1..vramCap /\ e.slot \notin ToSet(f)
        <5>1. e \in ToSet(v) /\ e # h BY <2>2
        <5>2. e.slot \in 1..vramCap /\ e.slot \notin ToSet(free) BY <5>1, <3>0 DEF Divided
        <5>3. e.slot # h.slot BY <5>1, <2>2, <3>0 DEF Divided
        <5> QED BY <5>2, <5>3, <3>6
      <4>3. \A e, g \in ToSet(Tail(v)) : e.slot = g.slot => e = g BY <2>2, <3>0 DEF Divided
      <4>4. ASSUME NEW s \in 1..vramCap
            PROVE  s \in ToSet(f) \/ \E e \in ToSet(Tail(v)) : e.slot = s
        <5>1. s \in ToSet(free) \/ \E e \in ToSet(v) : e.slot = s BY <3>0 DEF Divided
        <5> QED BY <5>1, <2>2, <3>6
      <4> QED BY <4>1, <4>2, <4>3, <4>4 DEF Divided
    <3>11. TablesGood(Tail(v), k, f, arena, vramCap)
      BY <2>2, <2>3, <2>7, <3>5, <3>6, <3>10 DEF TablesGood
    <3> QED BY <2>2, <2>3, <3>8, <3>9, <3>11 DEF v
  <2> QED BY <2>6, <2>7
<1> QED BY <1>1, <1>2

\* The expert put into a free slot.
LEMMA AllocateFacts ==
  ASSUME NEW c \in Nat, NEW v, NEW k, NEW f, NEW key \in Keys,
         v \in Shelf, k \in Shelf, f \in Distinct(1..c), Divided(v, k, f, c), Len(v) < c,
         \A e \in ToSet(v) : e.key # key
  PROVE  LET t == Allocate([vram |-> v, free |-> f, keySlot |-> k], key)
             e == [key |-> key, slot |-> Last(f)]
         IN  /\ t.vram = Append(v, e)
             /\ Last(f) \in 1..c
             /\ TablesGood(t.vram, t.keySlot, t.free, "ready", c)
<1> DEFINE u == [vram |-> v, free |-> f, keySlot |-> k]
           s == Last(f)
           e == [key |-> key, slot |-> s]
<1>1. ToSet(f) # {} BY FreeSlotLeft
<1>2. f # <<>> /\ ToSet(f) \subseteq 1..c BY <1>1, ElementOf
<1>3. Recycled(u) = u BY <1>2 DEF Recycled
<1>4. /\ Front(f) \in Distinct(1..c) /\ s \in ToSet(f) /\ ToSet(Front(f)) = ToSet(f) \ {s}
  BY <1>2, PoppedLast
<1>5. s \in 1..c /\ s \in Nat /\ e \in EntryType BY <1>2, <1>4 DEF EntryType
<1>6. Allocate(u, key)
        = [vram |-> Append(v, e), free |-> Front(f), keySlot |-> Append(k, e)]
  <2>1. Allocate(u, key)
          = [vram |-> Append(u.vram, [key |-> key, slot |-> Last(u.free)]),
             free |-> Front(u.free),
             keySlot |-> Append(u.keySlot, [key |-> key, slot |-> Last(u.free)])]
    BY <1>3 DEF Allocate
  <2>2. u.vram = v /\ u.free = f /\ u.keySlot = k OBVIOUS
  <2> HIDE DEF u
  <2> QED BY <2>1, <2>2
<1>7. ToSet(v) = ToSet(k) BY DEF Divided
<1> HIDE DEF s
<1>8. e.key = key /\ e.slot = s OBVIOUS
<1>9. /\ Append(v, e) \in Shelf /\ ToSet(Append(v, e)) = ToSet(v) \union {e}
      /\ Len(Append(v, e)) = Len(v) + 1
  BY <1>5, <1>8, ShelfAppend
<1>10. Append(k, e) \in Shelf /\ ToSet(Append(k, e)) = ToSet(k) \union {e}
  BY <1>5, <1>7, <1>8, ShelfAppend
<1>11. Len(v) \in Nat /\ Len(v) + 1 <= c BY ShelfEntries
<1> HIDE DEF e
<1>12. Divided(Append(v, e), Append(k, e), Front(f), c)
  <2>1. ToSet(Append(v, e)) = ToSet(Append(k, e)) BY <1>7, <1>9, <1>10
  <2>2. \A g \in ToSet(v) : g.slot \in 1..c /\ g.slot \notin ToSet(f) BY DEF Divided
  <2>3. \A g \in ToSet(Append(v, e)) : g.slot \in 1..c /\ g.slot \notin ToSet(Front(f))
    BY <2>2, <1>4, <1>5, <1>8, <1>9
  <2>4. \A g, h \in ToSet(Append(v, e)) : g.slot = h.slot => g = h
    <3>1. \A g, h \in ToSet(v) : g.slot = h.slot => g = h BY DEF Divided
    <3> QED BY <3>1, <2>2, <1>4, <1>8, <1>9
  <2>5. ASSUME NEW n \in 1..c
        PROVE  n \in ToSet(Front(f)) \/ \E g \in ToSet(Append(v, e)) : g.slot = n
    <3>1. n \in ToSet(f) \/ \E g \in ToSet(v) : g.slot = n BY DEF Divided
    <3> QED BY <3>1, <1>4, <1>8, <1>9
  <2> QED BY <2>1, <2>3, <2>4, <2>5 DEF Divided
<1>13. TablesGood(Append(v, e), Append(k, e), Front(f), "ready", c)
  BY <1>4, <1>9, <1>10, <1>11, <1>12 DEF TablesGood
<1> HIDE DEF u
<1> DEFINE t == Allocate(u, key)
<1>14. t.vram = Append(v, e) /\ t.free = Front(f) /\ t.keySlot = Append(k, e)
  BY <1>6
<1>15. TablesGood(t.vram, t.keySlot, t.free, "ready", c) BY <1>13, <1>14
<1> HIDE DEF t
<1>16. t.vram = Append(v, [key |-> key, slot |-> s]) BY <1>14 DEF e
<1> QED BY <1>5, <1>15, <1>16 DEF t, u, s

\* An expert moves into VRAM: one entry more, in a slot no other entry has.
LEMMA MovesIn ==
  ASSUME vramCap \in Nat \ {0}, TablesGood(vram, keySlot, free, arena, vramCap),
         NEW key \in Keys, ~InVram(key), NEW how, Places(key, how)
  PROVE  /\ TablesGood(vram', keySlot', free', arena', vramCap)
         /\ NewSlot(key) \in 0..vramCap
         /\ [key |-> key, slot |-> NewSlot(key)] \in ToSet(vram')
         /\ \A g \in ToSet(vram') : g \in ToSet(vram) \/ g = [key |-> key, slot |-> NewSlot(key)]
<1> DEFINE t == EvictOldest(Tables)
           u == IF arena = "unset" /\ how = "ready" THEN [t EXCEPT !.free = FreshStack] ELSE t
           p == IF how = "ready" THEN Allocate(u, key) ELSE Own(u, key)
<1>1. /\ how \in IF arena = "unset" THEN {"ready", "refused"} ELSE {arena}
      /\ arena' = how
      /\ vram' = p.vram /\ free' = p.free /\ keySlot' = p.keySlot
  BY DEF Places
<1>2. /\ t = [vram |-> t.vram, free |-> t.free, keySlot |-> t.keySlot]
      /\ TablesGood(t.vram, t.keySlot, t.free, arena, vramCap)
      /\ Len(t.vram) < vramCap /\ ToSet(t.vram) \subseteq ToSet(vram)
  BY EvictOldestFacts
<1> HIDE DEF t
<1>3. /\ t.vram \in Shelf /\ t.keySlot \in Shelf /\ Len(t.vram) \in Nat
      /\ t.free \in Distinct(1..vramCap) /\ ToSet(t.vram) \subseteq EntryType
  BY <1>2, DividedShelves
<1>4. \A e \in ToSet(vram) : e.key # key
  <2>1. \A e \in ToSet(vram) : \E i \in DOMAIN vram : vram[i] = e BY DEF ToSet
  <2> QED BY <2>1 DEF InVram
<1>5. \A e \in ToSet(t.vram) : e.key # key BY <1>2, <1>4
<1>6. arena \in {"unset", "ready", "refused"} BY DEF TablesGood
<1>7. \E s \in 0..vramCap : /\ vram' = Append(t.vram, [key |-> key, slot |-> s])
                            /\ TablesGood(vram', keySlot', free', arena', vramCap)
  <2>1. CASE how = "ready"
    <3> DEFINE f == IF arena = "unset" THEN FreshStack ELSE t.free
    <3>1. u = [vram |-> t.vram, free |-> f, keySlot |-> t.keySlot]
      <4>1. CASE arena = "unset"
        <5>1. u = [[vram |-> t.vram, free |-> t.free, keySlot |-> t.keySlot] EXCEPT !.free = f]
          BY <1>2, <2>1, <4>1
        <5> QED BY <5>1
      <4>2. CASE arena # "unset"
        BY <4>2, <1>2
      <4> QED BY <4>1, <4>2
    <3>2. f \in Distinct(1..vramCap) /\ Divided(t.vram, t.keySlot, f, vramCap)
      <4>1. CASE arena = "unset"
        <5>1. f \in Distinct(1..vramCap) /\ ToSet(f) = 1..vramCap BY <4>1, FreshStackFacts
        <5>2. t.vram = <<>> /\ t.keySlot = <<>> BY <1>2, <4>1 DEF TablesGood, Unslotted
        <5>3. ToSet(t.vram) = {} /\ ToSet(t.keySlot) = {} BY <5>2, EmptyShelf
        <5> HIDE DEF f
        <5> QED BY <5>1, <5>3 DEF Divided
      <4>2. CASE arena # "unset"
        <5>1. arena = "ready" /\ f = t.free BY <4>2, <2>1, <1>1
        <5> QED BY <5>1, <1>2, <1>3 DEF TablesGood
      <4> QED BY <4>1, <4>2
    <3> HIDE DEF f, u
    <3>3. p = Allocate([vram |-> t.vram, free |-> f, keySlot |-> t.keySlot], key)
      BY <3>1, <2>1
    <3> DEFINE w == Allocate([vram |-> t.vram, free |-> f, keySlot |-> t.keySlot], key)
    <3>4. /\ w.vram = Append(t.vram, [key |-> key, slot |-> Last(f)])
          /\ Last(f) \in 1..vramCap
          /\ TablesGood(w.vram, w.keySlot, w.free, "ready", vramCap)
      BY <1>2, <1>3, <1>5, <3>2, AllocateFacts
    <3>5. p = w BY <3>3
    <3> HIDE DEF p, w
    <3>6. /\ vram' = Append(t.vram, [key |-> key, slot |-> Last(f)])
          /\ TablesGood(vram', keySlot', free', arena', vramCap)
      BY <1>1, <2>1, <3>4, <3>5
    <3>7. Last(f) \in 0..vramCap BY <3>4
    <3> QED BY <3>6, <3>7
  <2>2. CASE how # "ready"
    <3>1. how = "refused" /\ arena # "ready" BY <2>2, <1>1, <1>6
    <3>2. t.keySlot = <<>> /\ t.free = <<>> /\ \A e \in ToSet(t.vram) : e.slot = NoSlot
      BY <1>2, <3>1 DEF TablesGood, Unslotted
    <3> DEFINE e == [key |-> key, slot |-> NoSlot]
    <3>3. e \in EntryType /\ e.key = key /\ e.slot = NoSlot BY DEF EntryType, NoSlot
    <3>4. p.vram = Append(t.vram, e) /\ p.keySlot = <<>> /\ p.free = <<>>
      <4>1. u = [vram |-> t.vram, free |-> <<>>, keySlot |-> <<>>] BY <1>2, <2>2, <3>2
      <4>2. p = [[vram |-> t.vram, free |-> <<>>, keySlot |-> <<>>]
                   EXCEPT !.vram = Append(@, e)]
        BY <2>2, <4>1 DEF Own
      <4> HIDE DEF p, e
      <4> QED BY <4>2
    <3>5. vram' = Append(t.vram, e) /\ keySlot' = <<>> /\ free' = <<>> /\ arena' = "refused"
      BY <3>1, <3>4, <1>1
    <3>6. /\ Append(t.vram, e) \in Shelf /\ ToSet(Append(t.vram, e)) = ToSet(t.vram) \union {e}
          /\ Len(Append(t.vram, e)) = Len(t.vram) + 1
      BY <1>3, <1>5, <3>3, ShelfAppend
    <3>7. \A g \in ToSet(Append(t.vram, e)) : g.slot = NoSlot BY <3>2, <3>3, <3>6
    <3>8. Len(t.vram) + 1 <= vramCap BY <1>2, <1>3
    <3>9. <<>> \in Shelf /\ <<>> \in Distinct(1..vramCap) BY EmptyShelf, EmptyFacts
    <3> HIDE DEF e
    <3>10. TablesGood(vram', keySlot', free', arena', vramCap)
      BY <3>5, <3>6, <3>7, <3>8, <3>9 DEF TablesGood, Unslotted
    <3>11. NoSlot \in 0..vramCap BY DEF NoSlot
    <3> QED BY <3>5, <3>10, <3>11 DEF e
  <2> QED BY <2>1, <2>2
<1>8. PICK s \in 0..vramCap : /\ vram' = Append(t.vram, [key |-> key, slot |-> s])
                              /\ TablesGood(vram', keySlot', free', arena', vramCap)
  BY <1>7
<1> DEFINE e == [key |-> key, slot |-> s]
<1>9. e \in EntryType /\ e.key = key /\ e.slot = s BY DEF EntryType
<1>10. ToSet(vram') = ToSet(t.vram) \union {e} BY <1>3, <1>5, <1>8, <1>9, ShelfAppend
<1>11. vram' \in Shelf BY <1>8 DEF TablesGood
<1>12. Entry(vram', key) = e
  <2>1. e \in ToSet(vram') BY <1>10
  <2> HIDE DEF e
  <2>2. Entry(vram', e.key) = e BY <1>11, <2>1, PositionFacts
  <2> QED BY <1>9, <2>2
<1>13. NewSlot(key) = s BY <1>9, <1>12 DEF NewSlot
<1> HIDE DEF e
<1> QED BY <1>2, <1>8, <1>10, <1>13 DEF e

-----------------------------------------------------------------------------
(***************************************************************************)
(* The two streams.  What a slot shows to an operation of the current      *)
(* stream is decided by the last copy into it before that operation, and   *)
(* as long as no stream has taken a slot the other had work on, the copies *)
(* that wait for one slot are all in one stream.                           *)
(***************************************************************************)

OpType == [op : {"copy", "read", "wait"}, slot : Nat, key : Keys \union {NoKey}, after : Nat]

Copies(q, i, s) == q[i].op = "copy" /\ q[i].slot = s

\* Among the first n operations of q none copies into slot s; the last that
\* does copies expert k.
NoCopy(q, n, s) == \A i \in 1..n : ~Copies(q, i, s)
Shows(q, n, s, k) ==
  \E i \in 1..n : /\ Copies(q, i, s) /\ q[i].key = k
                  /\ \A j \in 1..n : j > i => ~Copies(q, j, s)

\* Once both streams (c and p) are worked off the slot holds the expert.
Settles(c, p, m, s, k) ==
  \/ Shows(c, Len(c), s, k)
  \/ NoCopy(c, Len(c), s) /\ Shows(p, Len(p), s, k)
  \/ NoCopy(c, Len(c), s) /\ NoCopy(p, Len(p), s) /\ m[s] = k

\* A wait among the first n operations of c holds for all copies into s.
Awaits(c, p, n, s) ==
  \E w \in 1..n : /\ c[w].op = "wait"
                  /\ \A j \in 1..Len(p) : Copies(p, j, s) => j <= c[w].after

\* The operation after the first n of c, a read of the slot, finds the expert.
Finds(c, p, m, n, s, k) ==
  \/ Shows(c, n, s, k)
  \/ NoCopy(c, n, s) /\ Shows(p, Len(p), s, k) /\ Awaits(c, p, n, s)
  \/ NoCopy(c, n, s) /\ NoCopy(p, Len(p), s) /\ m[s] = k

ReadsFind(c, p, m) ==
  \A i \in 1..Len(c) : c[i].op = "read" => Finds(c, p, m, i - 1, c[i].slot, c[i].key)

OneStream(c, p, s) == NoCopy(c, Len(c), s) \/ NoCopy(p, Len(p), s)

LEMMA Joined ==
  ASSUME NEW q \in Seq(OpType), NEW x \in Seq(OpType)
  PROVE  /\ q \o x \in Seq(OpType) /\ Len(q \o x) = Len(q) + Len(x)
         /\ Len(q) \in Nat /\ Len(x) \in Nat
         /\ \A i \in 1..Len(q) : (q \o x)[i] = q[i]
         /\ \A i \in 1..Len(x) : (q \o x)[Len(q) + i] = x[i]
<1>1. Len(q) \in Nat /\ Len(x) \in Nat OBVIOUS
<1>2. /\ q \o x \in Seq(OpType) /\ Len(q \o x) = Len(q) + Len(x)
      /\ \A i \in 1 .. Len(q) + Len(x) :
           (q \o x)[i] = IF i <= Len(q) THEN q[i] ELSE x[i - Len(q)]
  BY ConcatProperties
<1> DEFINE y == q \o x
<1> HIDE DEF y
<1>3. \A i \in 1..Len(q) : y[i] = q[i] BY <1>1, <1>2 DEF y
<1>4. ASSUME NEW i \in 1..Len(x) PROVE y[Len(q) + i] = x[i]
  <2>1. Len(q) + i \in 1..Len(q) + Len(x) /\ ~(Len(q) + i <= Len(q)) /\ (Len(q) + i) - Len(q) = i
    BY <1>1
  <2> QED BY <2>1, <1>2 DEF y
<1> QED BY <1>1, <1>2, <1>3, <1>4 DEF y

\* What is enqueued changes nothing for what is before it.
LEMMA PrefixKeeps ==
  ASSUME NEW q, NEW r, NEW n \in Nat, NEW s, NEW k, \A i \in 1..n : r[i] = q[i]
  PROVE  /\ NoCopy(r, n, s) <=> NoCopy(q, n, s)
         /\ Shows(r, n, s, k) <=> Shows(q, n, s, k)
BY DEF NoCopy, Shows, Copies

\* The operations with d fewer at the front; waits may have come nearer.
Later(r, q, d) ==
  /\ Len(q) \in Nat /\ Len(r) \in Nat /\ Len(q) = Len(r) + d
  /\ \A i \in 1..Len(r) :
       r[i].op = q[i + d].op /\ r[i].slot = q[i + d].slot /\ r[i].key = q[i + d].key

LEMMA SameOps ==
  ASSUME NEW q, NEW r, Later(r, q, 0), NEW n \in Nat, n <= Len(r), NEW s, NEW k
  PROVE  /\ NoCopy(r, n, s) <=> NoCopy(q, n, s)
         /\ Shows(r, n, s, k) <=> Shows(q, n, s, k)
<1>1. \A i \in 1..n : /\ r[i].op = q[i].op /\ r[i].slot = q[i].slot /\ r[i].key = q[i].key
                      /\ Copies(r, i, s) <=> Copies(q, i, s)
  BY DEF Later, Copies
<1> QED BY <1>1 DEF NoCopy, Shows

LEMMA HeadDone ==
  ASSUME NEW q, NEW r, Later(r, q, 1), NEW n \in Nat, n <= Len(r), NEW s, NEW k
  PROVE  /\ ~Copies(q, 1, s) => /\ NoCopy(r, n, s) <=> NoCopy(q, n + 1, s)
                                /\ Shows(r, n, s, k) <=> Shows(q, n + 1, s, k)
         /\ Copies(q, 1, s) => /\ ~NoCopy(q, n + 1, s)
                               /\ Shows(q, n + 1, s, k) =>
                                    Shows(r, n, s, k) \/ (NoCopy(r, n, s) /\ q[1].key = k)
<1>1. \A i \in 1..n : /\ r[i].key = q[i + 1].key
                      /\ Copies(r, i, s) <=> Copies(q, i + 1, s)
  BY DEF Later, Copies
<1>2. \A i \in 1..(n + 1) : i = 1 \/ (i - 1 \in 1..n /\ (i - 1) + 1 = i) OBVIOUS
<1>3. \A i \in 1..n : i + 1 \in 1..(n + 1) /\ i + 1 # 1 OBVIOUS
<1>4. 1 \in 1..(n + 1) OBVIOUS
<1> HIDE DEF Copies
<1>5. ASSUME ~Copies(q, 1, s) PROVE NoCopy(r, n, s) <=> NoCopy(q, n + 1, s)
  <2>1. ASSUME NoCopy(q, n + 1, s) PROVE NoCopy(r, n, s)
    BY <1>1, <1>3, <2>1 DEF NoCopy
  <2>2. ASSUME NoCopy(r, n, s), NEW i \in 1..(n + 1) PROVE ~Copies(q, i, s)
    <3>1. CASE i = 1 BY <3>1, <1>5
    <3>2. CASE i # 1
      <4>1. PICK h \in 1..n : h + 1 = i BY <3>2, <1>2
      <4>2. ~Copies(r, h, s) BY <2>2 DEF NoCopy
      <4> QED BY <4>1, <4>2, <1>1
    <3> QED BY <3>1, <3>2
  <2>3. NoCopy(r, n, s) => NoCopy(q, n + 1, s) BY <2>2 DEF NoCopy
  <2> QED BY <2>1, <2>3
<1>6. ASSUME ~Copies(q, 1, s), Shows(q, n + 1, s, k) PROVE Shows(r, n, s, k)
  <2>1. PICK i \in 1..(n + 1) : /\ Copies(q, i, s) /\ q[i].key = k
                                /\ \A j \in 1..(n + 1) : j > i => ~Copies(q, j, s)
    BY <1>6 DEF Shows
  <2>2. i # 1 BY <1>6, <2>1
  <2>3. PICK h \in 1..n : h + 1 = i BY <2>2, <1>2
  <2>4. Copies(r, h, s) /\ r[h].key = k BY <1>1, <2>1, <2>3
  <2>5. ASSUME NEW j \in 1..n, j > h PROVE ~Copies(r, j, s)
    <3>1. j + 1 \in 1..(n + 1) /\ j + 1 > i BY <2>3, <2>5
    <3> QED BY <3>1, <2>1, <1>1
  <2> QED BY <2>4, <2>5 DEF Shows
<1>7. ASSUME Shows(r, n, s, k) PROVE Shows(q, n + 1, s, k)
  <2>1. PICK i \in 1..n : /\ Copies(r, i, s) /\ r[i].key = k
                          /\ \A j \in 1..n : j > i => ~Copies(r, j, s)
    BY <1>7 DEF Shows
  <2>2. i + 1 \in 1..(n + 1) /\ Copies(q, i + 1, s) /\ q[i + 1].key = k BY <2>1, <1>1, <1>3
  <2>3. ASSUME NEW j \in 1..(n + 1), j > i + 1 PROVE ~Copies(q, j, s)
    <3>1. PICK h \in 1..n : h + 1 = j /\ h > i BY <2>3, <1>2
    <3> QED BY <3>1, <2>1, <1>1
  <2> QED BY <2>2, <2>3 DEF Shows
<1>8. ASSUME Copies(q, 1, s) PROVE ~NoCopy(q, n + 1, s)
  BY <1>4, <1>8 DEF NoCopy
<1>9. ASSUME Copies(q, 1, s), Shows(q, n + 1, s, k)
      PROVE  Shows(r, n, s, k) \/ (NoCopy(r, n, s) /\ q[1].key = k)
  <2>1. PICK i \in 1..(n + 1) : /\ Copies(q, i, s) /\ q[i].key = k
                                /\ \A j \in 1..(n + 1) : j > i => ~Copies(q, j, s)
    BY <1>9 DEF Shows
  <2>2. CASE i = 1
    <3>1. ASSUME NEW j \in 1..n PROVE ~Copies(r, j, s)
      <4>1. j + 1 \in 1..(n + 1) /\ j + 1 > i BY <2>2
      <4> QED BY <4>1, <2>1, <1>1
    <3> QED BY <3>1, <2>1, <2>2 DEF NoCopy
  <2>3. CASE i # 1
    <3>1. PICK h \in 1..n : h + 1 = i BY <2>3, <1>2
    <3>2. Copies(r, h, s) /\ r[h].key = k BY <1>1, <2>1, <3>1
    <3>3. ASSUME NEW j \in 1..n, j > h PROVE ~Copies(r, j, s)
      <4>1. j + 1 \in 1..(n + 1) /\ j + 1 > i BY <3>1, <3>3
      <4> QED BY <4>1, <2>1, <1>1
    <3> QED BY <3>2, <3>3 DEF Shows
  <2> QED BY <2>2, <2>3
<1> QED BY <1>5, <1>6, <1>7, <1>8, <1>9

\* The device finishes a copy of the prefetch stream.
LEMMA PrefetchDone ==
  ASSUME NEW c, NEW p, NEW m, NEW cc, NEW pp, NEW mm, NEW x,
         Later(pp, p, 1), Later(cc, c, 0),
         \A i \in 1..Len(c) : c[i].after \in Nat /\
            cc[i].after = (IF c[i].after > 0 THEN c[i].after - 1 ELSE 0),
         p[1].op = "copy", p[1].slot = x, mm[x] = p[1].key,
         \A s \in DOMAIN m : s # x => mm[s] = m[s],
         OneStream(c, p, x)
  PROVE  /\ \A s \in DOMAIN m : OneStream(c, p, s) => OneStream(cc, pp, s)
         /\ \A k : \A s \in DOMAIN m : Settles(c, p, m, s, k) => Settles(cc, pp, mm, s, k)
         /\ \A k : \A n \in 0..Len(c), s \in DOMAIN m :
              Finds(c, p, m, n, s, k) => Finds(cc, pp, mm, n, s, k)
<1>1. /\ Len(c) \in Nat /\ Len(cc) = Len(c) /\ Len(pp) \in Nat /\ Len(p) = Len(pp) + 1
  BY DEF Later
<1>2. ASSUME NEW n \in 0..Len(c), NEW s, NEW k
      PROVE  /\ NoCopy(cc, n, s) <=> NoCopy(c, n, s)
             /\ Shows(cc, n, s, k) <=> Shows(c, n, s, k)
  BY <1>1, SameOps
<1>3. ASSUME NEW s, NEW k
      PROVE  /\ ~Copies(p, 1, s) => /\ NoCopy(pp, Len(pp), s) <=> NoCopy(p, Len(p), s)
                                    /\ Shows(pp, Len(pp), s, k) <=> Shows(p, Len(p), s, k)
             /\ Copies(p, 1, s) => /\ ~NoCopy(p, Len(p), s)
                                   /\ Shows(p, Len(p), s, k) =>
                                        Shows(pp, Len(pp), s, k)
                                        \/ (NoCopy(pp, Len(pp), s) /\ p[1].key = k)
  BY <1>1, HeadDone
<1>4. \A s : Copies(p, 1, s) <=> s = x BY DEF Copies
<1>5. NoCopy(c, Len(c), x) BY <1>3, <1>4 DEF OneStream
<1>6. \A n \in 0..Len(c) : NoCopy(c, n, x) BY <1>1, <1>5 DEF NoCopy
<1>7. \A k : \A n \in 0..Len(c) : ~Shows(c, n, x, k) BY <1>6 DEF NoCopy, Shows
<1>8. ASSUME NEW n \in 0..Len(c), NEW s, Awaits(c, p, n, s) PROVE Awaits(cc, pp, n, s)
  <2>1. PICK w \in 1..n : /\ c[w].op = "wait"
                          /\ \A j \in 1..Len(p) : Copies(p, j, s) => j <= c[w].after
    BY <1>8 DEF Awaits
  <2>2. w \in 1..Len(c) /\ w \in 1..Len(cc) BY <1>1
  <2>3. cc[w].op = "wait" BY <2>1, <2>2 DEF Later
  <2>4. ASSUME NEW j \in 1..Len(pp), Copies(pp, j, s) PROVE j <= cc[w].after
    <3>1. Copies(p, j + 1, s) BY <2>4 DEF Later, Copies
    <3>2. j + 1 \in 1..Len(p) BY <1>1
    <3>3. j + 1 <= c[w].after BY <2>1, <3>1, <3>2
    <3>4. c[w].after \in Nat /\ cc[w].after = (IF c[w].after > 0 THEN c[w].after - 1 ELSE 0)
      BY <2>2
    <3> QED BY <3>3, <3>4
  <2> QED BY <2>3, <2>4 DEF Awaits
<1>9. Len(c) \in 0..Len(c) /\ Len(cc) = Len(c) BY <1>1
<1>10. ASSUME NEW s \in DOMAIN m, OneStream(c, p, s) PROVE OneStream(cc, pp, s)
  <2>1. NoCopy(cc, Len(cc), s) <=> NoCopy(c, Len(c), s) BY <1>2, <1>9
  <2> QED BY <2>1, <1>3, <1>4, <1>5, <1>9, <1>10 DEF OneStream
<1>11. ASSUME NEW s \in DOMAIN m, NEW k, Settles(c, p, m, s, k) PROVE Settles(cc, pp, mm, s, k)
  <2>1. /\ NoCopy(cc, Len(cc), s) <=> NoCopy(c, Len(c), s)
        /\ Shows(cc, Len(cc), s, k) <=> Shows(c, Len(c), s, k)
    BY <1>2, <1>9
  <2>2. s = x => NoCopy(c, Len(c), s) /\ ~Shows(c, Len(c), s, k) BY <1>5, <1>7, <1>9
  <2> QED BY <2>1, <2>2, <1>3, <1>4, <1>11 DEF Settles
<1>12. ASSUME NEW n \in 0..Len(c), NEW s \in DOMAIN m, NEW k, Finds(c, p, m, n, s, k)
       PROVE  Finds(cc, pp, mm, n, s, k)
  <2>1. /\ NoCopy(cc, n, s) <=> NoCopy(c, n, s)
        /\ Shows(cc, n, s, k) <=> Shows(c, n, s, k)
    BY <1>2
  <2>2. s = x => NoCopy(c, n, s) /\ ~Shows(c, n, s, k) BY <1>6, <1>7
  <2>3. Awaits(c, p, n, s) => Awaits(cc, pp, n, s) BY <1>8
  <2> QED BY <2>1, <2>2, <2>3, <1>3, <1>4, <1>12 DEF Finds
<1> QED BY <1>10, <1>11, <1>12

\* The device finishes the head of the current stream: a copy into a slot no
\* prefetch waits for, a read, or a wait that is over.
LEMMA CurrentDone ==
  ASSUME NEW c, NEW p, NEW m, NEW cc, NEW mm, Later(cc, c, 1), Len(p) \in Nat,
         \A i \in 1..Len(cc) : cc[i].after = c[i + 1].after,
         \/ /\ c[1].op = "copy" /\ OneStream(c, p, c[1].slot)
            /\ mm[c[1].slot] = c[1].key
            /\ \A s \in DOMAIN m : s # c[1].slot => mm[s] = m[s]
         \/ c[1].op = "read" /\ mm = m
         \/ c[1].op = "wait" /\ c[1].after = 0 /\ mm = m
  PROVE  /\ \A s \in DOMAIN m : OneStream(c, p, s) => OneStream(cc, p, s)
         /\ \A k : \A s \in DOMAIN m : Settles(c, p, m, s, k) => Settles(cc, p, mm, s, k)
         /\ \A k : \A n \in 0..Len(cc), s \in DOMAIN m :
              Finds(c, p, m, n + 1, s, k) => Finds(cc, p, mm, n, s, k)
<1>1. Len(cc) \in Nat /\ Len(c) = Len(cc) + 1 BY DEF Later
<1>2. ASSUME NEW n \in 0..Len(cc), NEW s, NEW k
      PROVE  /\ ~Copies(c, 1, s) => /\ NoCopy(cc, n, s) <=> NoCopy(c, n + 1, s)
                                    /\ Shows(cc, n, s, k) <=> Shows(c, n + 1, s, k)
             /\ Copies(c, 1, s) => /\ ~NoCopy(c, n + 1, s)
                                   /\ Shows(c, n + 1, s, k) =>
                                        Shows(cc, n, s, k)
                                        \/ (NoCopy(cc, n, s) /\ c[1].key = k)
  BY <1>1, HeadDone
<1>3. Len(cc) \in 0..Len(cc) BY <1>1
<1>4. \A s \in DOMAIN m : ~Copies(c, 1, s) => mm[s] = m[s] BY DEF Copies
<1>5. ASSUME NEW s, Copies(c, 1, s) PROVE mm[s] = c[1].key /\ NoCopy(p, Len(p), s)
  <2>1. c[1].op = "copy" /\ c[1].slot = s BY <1>5 DEF Copies
  <2>2. ~NoCopy(c, Len(c), s) BY <1>1, <1>2, <1>3, <1>5
  <2> QED BY <2>1, <2>2 DEF OneStream
<1>6. ASSUME NEW s, NEW k, NEW n \in 0..Len(cc), Shows(p, Len(p), s, k), Awaits(c, p, n + 1, s)
      PROVE  Awaits(cc, p, n, s)
  <2>1. PICK w \in 1..(n + 1) : /\ c[w].op = "wait"
                                /\ \A j \in 1..Len(p) : Copies(p, j, s) => j <= c[w].after
    BY <1>6 DEF Awaits
  <2>2. PICK j \in 1..Len(p) : Copies(p, j, s) BY <1>6 DEF Shows
  <2>3. w # 1
    <3>1. SUFFICES ASSUME w = 1 PROVE FALSE OBVIOUS
    <3>2. c[1].op = "wait" BY <2>1, <3>1
    <3>3. c[1].after = 0 BY <3>2
    <3>4. j <= 0 BY <2>1, <2>2, <3>1, <3>3
    <3> QED BY <3>4
  <2>4. w - 1 \in 1..n /\ w - 1 \in 1..Len(cc) /\ (w - 1) + 1 = w BY <2>3
  <2>5. cc[w - 1].op = "wait" /\ cc[w - 1].after = c[w].after BY <2>1, <2>4 DEF Later
  <2> QED BY <2>1, <2>4, <2>5 DEF Awaits
<1>7. ASSUME NEW s \in DOMAIN m, OneStream(c, p, s) PROVE OneStream(cc, p, s)
  BY <1>1, <1>2, <1>3, <1>5, <1>7 DEF OneStream
<1>8. ASSUME NEW s \in DOMAIN m, NEW k, Settles(c, p, m, s, k) PROVE Settles(cc, p, mm, s, k)
  BY <1>1, <1>2, <1>3, <1>4, <1>5, <1>8 DEF Settles
<1>9. ASSUME NEW n \in 0..Len(cc), NEW s \in DOMAIN m, NEW k, Finds(c, p, m, n + 1, s, k)
      PROVE  Finds(cc, p, mm, n, s, k)
  BY <1>2, <1>4, <1>5, <1>6, <1>9 DEF Finds
<1> QED BY <1>7, <1>8, <1>9

\* A read at the head finds what the slot holds now.
LEMMA HeadReads ==
  ASSUME NEW c, NEW p, NEW m, NEW s, NEW k, Finds(c, p, m, 0, s, k)
  PROVE  m[s] = k
BY DEF Finds, Shows, Awaits

\* Enqueued in the prefetch stream: a copy into a slot for which nothing waits
\* in the current one.
LEMMA PrefetchEnqueued ==
  ASSUME NEW c \in Seq(OpType), NEW p \in Seq(OpType), NEW m, NEW o \in OpType, o.op = "copy",
         \A i \in 1..Len(c) : c[i].slot # o.slot
  PROVE  LET pp == p \o <<o>> IN
         /\ \A s : OneStream(c, p, s) => OneStream(c, pp, s)
         /\ Settles(c, pp, m, o.slot, o.key)
         /\ \A s, k : s # o.slot /\ Settles(c, p, m, s, k) => Settles(c, pp, m, s, k)
         /\ \A n, s, k : s # o.slot /\ Finds(c, p, m, n, s, k) => Finds(c, pp, m, n, s, k)
<1> DEFINE pp == p \o <<o>>
<1>0. <<o>> \in Seq(OpType) /\ Len(<<o>>) = 1 /\ <<o>>[1] = o OBVIOUS
<1>1. /\ Len(p) \in Nat /\ Len(pp) = Len(p) + 1 /\ \A i \in 1..Len(p) : pp[i] = p[i]
      /\ pp[Len(p) + 1] = o
  BY <1>0, Joined
<1> HIDE DEF pp
<1>2. NoCopy(c, Len(c), o.slot) BY DEF NoCopy, Copies
<1>3. Shows(pp, Len(pp), o.slot, o.key)
  <2>1. Len(pp) \in 1..Len(pp) /\ Copies(pp, Len(pp), o.slot) /\ pp[Len(pp)].key = o.key
    BY <1>1 DEF Copies
  <2>2. \A j \in 1..Len(pp) : ~(j > Len(pp)) BY <1>1
  <2> QED BY <2>1, <2>2 DEF Shows
<1>4. \A i \in 1..Len(pp) : i = Len(p) + 1 \/ (i \in 1..Len(p)) BY <1>1
<1>5. \A s, i : i \in 1..Len(p) => (Copies(pp, i, s) <=> Copies(p, i, s)) /\ i \in 1..Len(pp)
  BY <1>1 DEF Copies
<1>6. \A s : s # o.slot => ~Copies(pp, Len(p) + 1, s) BY <1>1 DEF Copies
<1>7. ASSUME NEW s, s # o.slot, NoCopy(p, Len(p), s) PROVE NoCopy(pp, Len(pp), s)
  BY <1>4, <1>5, <1>6, <1>7 DEF NoCopy
<1>8. ASSUME NEW s, NEW k, s # o.slot, Shows(p, Len(p), s, k) PROVE Shows(pp, Len(pp), s, k)
  <2>1. PICK i \in 1..Len(p) : /\ Copies(p, i, s) /\ p[i].key = k
                               /\ \A j \in 1..Len(p) : j > i => ~Copies(p, j, s)
    BY <1>8 DEF Shows
  <2>2. i \in 1..Len(pp) /\ Copies(pp, i, s) /\ pp[i].key = k BY <2>1, <1>1, <1>5
  <2>3. \A j \in 1..Len(pp) : j > i => ~Copies(pp, j, s) BY <2>1, <1>4, <1>5, <1>6, <1>8
  <2> QED BY <2>2, <2>3 DEF Shows
<1>9. ASSUME NEW s, NEW n, s # o.slot, Awaits(c, p, n, s) PROVE Awaits(c, pp, n, s)
  <2>1. PICK w \in 1..n : /\ c[w].op = "wait"
                          /\ \A j \in 1..Len(p) : Copies(p, j, s) => j <= c[w].after
    BY <1>9 DEF Awaits
  <2>2. \A j \in 1..Len(pp) : Copies(pp, j, s) => j <= c[w].after
    BY <2>1, <1>4, <1>5, <1>6, <1>9
  <2> QED BY <2>1, <2>2 DEF Awaits
<1>10. ASSUME NEW s, OneStream(c, p, s) PROVE OneStream(c, pp, s)
  <2>1. CASE s = o.slot BY <2>1, <1>2 DEF OneStream
  <2>2. CASE s # o.slot BY <2>2, <1>7, <1>10 DEF OneStream
  <2> QED BY <2>1, <2>2
<1>11. Settles(c, pp, m, o.slot, o.key) BY <1>2, <1>3 DEF Settles
<1>12. ASSUME NEW s, NEW k, s # o.slot, Settles(c, p, m, s, k) PROVE Settles(c, pp, m, s, k)
  BY <1>7, <1>8, <1>12 DEF Settles
<1>13. ASSUME NEW n, NEW s, NEW k, s # o.slot, Finds(c, p, m, n, s, k)
       PROVE  Finds(c, pp, m, n, s, k)
  BY <1>7, <1>8, <1>9, <1>13 DEF Finds
<1> QED BY <1>10, <1>11, <1>12, <1>13 DEF pp

\* What is enqueued in the current stream changes nothing for those before it.
LEMMA CurrentPrefix ==
  ASSUME NEW c, NEW cc, NEW p, NEW m, NEW n \in Nat, NEW s, NEW k, \A i \in 1..n : cc[i] = c[i],
         Finds(c, p, m, n, s, k)
  PROVE  Finds(cc, p, m, n, s, k)
<1>1. /\ NoCopy(cc, n, s) <=> NoCopy(c, n, s)
      /\ Shows(cc, n, s, k) <=> Shows(c, n, s, k)
  BY PrefixKeeps
<1>2. Awaits(c, p, n, s) => Awaits(cc, p, n, s) BY DEF Awaits
<1> QED BY <1>1, <1>2 DEF Finds

\* Enqueued in the current stream: a wait for the prefetch stream and, if the
\* expert has a slot, a read of it.
LEMMA HitEnqueued ==
  ASSUME NEW c, NEW cc, NEW p, NEW m, Len(c) \in Nat, Len(p) \in Nat,
         Len(cc) \in {Len(c) + 1, Len(c) + 2}, \A i \in 1..Len(c) : cc[i] = c[i],
         cc[Len(c) + 1].op = "wait", cc[Len(c) + 1].after = Len(p),
         Len(cc) = Len(c) + 2 =>
           /\ cc[Len(c) + 2].op = "read"
           /\ Settles(c, p, m, cc[Len(c) + 2].slot, cc[Len(c) + 2].key),
         ReadsFind(c, p, m)
  PROVE  /\ ReadsFind(cc, p, m)
         /\ \A s : OneStream(c, p, s) => OneStream(cc, p, s)
         /\ \A s, k : Settles(c, p, m, s, k) => Settles(cc, p, m, s, k)
<1> DEFINE l == Len(c)
<1>0. l \in Nat OBVIOUS
<1>1. \A i \in 1..Len(cc) : i \in 1..l \/ i = l + 1 \/ (i = l + 2 /\ Len(cc) = l + 2) OBVIOUS
<1>2. \A i \in 1..Len(cc) : i > l => \A s : ~Copies(cc, i, s)
  <2>1. \A i \in 1..Len(cc) : i > l => cc[i].op \in {"wait", "read"} BY <1>1
  <2> QED BY <2>1 DEF Copies
<1>3. \A s : \A i \in 1..l : i \in 1..Len(cc) /\ (Copies(cc, i, s) <=> Copies(c, i, s)) BY DEF Copies
<1>4. ASSUME NEW n \in l..Len(cc), NEW s, NEW k
      PROVE  /\ NoCopy(c, l, s) => NoCopy(cc, n, s)
             /\ Shows(c, l, s, k) => Shows(cc, n, s, k)
  <2>0. \A i \in 1..n : i \in 1..Len(cc) /\ (i \in 1..l \/ i > l) BY <1>0
  <2>1. NoCopy(c, l, s) => NoCopy(cc, n, s) BY <2>0, <1>2, <1>3 DEF NoCopy
  <2>2. ASSUME Shows(c, l, s, k) PROVE Shows(cc, n, s, k)
    <3>1. PICK i \in 1..l : /\ Copies(c, i, s) /\ c[i].key = k
                            /\ \A j \in 1..l : j > i => ~Copies(c, j, s)
      BY <2>2 DEF Shows
    <3>2. i \in 1..n /\ Copies(cc, i, s) /\ cc[i].key = k BY <3>1, <1>0, <1>3
    <3>3. \A j \in 1..n : j > i => ~Copies(cc, j, s) BY <3>1, <2>0, <1>2, <1>3
    <3> QED BY <3>2, <3>3 DEF Shows
  <2> QED BY <2>1, <2>2
<1>5. Len(cc) \in l..Len(cc) /\ l + 1 \in l..Len(cc) BY <1>0
<1>6. ASSUME NEW s, NEW k, Settles(c, p, m, s, k) PROVE Settles(cc, p, m, s, k)
  BY <1>4, <1>5, <1>6 DEF Settles
<1>7. ASSUME NEW s, OneStream(c, p, s) PROVE OneStream(cc, p, s)
  BY <1>4, <1>5, <1>7 DEF OneStream
<1>8. ASSUME NEW i \in 1..Len(cc), cc[i].op = "read"
      PROVE  Finds(cc, p, m, i - 1, cc[i].slot, cc[i].key)
  <2>1. CASE i \in 1..l
    <3>1. cc[i] = c[i] /\ i - 1 \in Nat /\ \A j \in 1..(i - 1) : cc[j] = c[j] BY <2>1
    <3>2. Finds(c, p, m, i - 1, cc[i].slot, cc[i].key) BY <3>1, <2>1, <1>8 DEF ReadsFind
    <3> QED BY <3>1, <3>2, CurrentPrefix
  <2>2. CASE i = l + 1 BY <2>2, <1>8
  <2>3. CASE i = l + 2 /\ Len(cc) = l + 2
    <3> DEFINE s == cc[i].slot
               k == cc[i].key
    <3>1. Settles(c, p, m, s, k) BY <2>3
    <3>2. i - 1 = l + 1 /\ l + 1 \in 1..(l + 1) BY <2>3, <1>0
    <3>3. Awaits(cc, p, l + 1, s)
      <4>1. \A j \in 1..Len(p) : j <= Len(p) OBVIOUS
      <4> QED BY <3>2, <4>1 DEF Awaits
    <3> HIDE DEF s, k
    <3>4. Finds(cc, p, m, l + 1, s, k) BY <3>1, <3>3, <1>4, <1>5 DEF Settles, Finds
    <3> QED BY <3>2, <3>4 DEF s, k
  <2> QED BY <2>1, <2>2, <2>3, <1>1
<1> QED BY <1>6, <1>7, <1>8 DEF ReadsFind

\* Enqueued in the current stream: a copy into a slot that no prefetch waits
\* for, and the read of it.
LEMMA PromotionEnqueued ==
  ASSUME NEW c, NEW cc, NEW p, NEW m, Len(c) \in Nat, NEW s0, NEW k0,
         Len(cc) = Len(c) + 2, \A i \in 1..Len(c) : cc[i] = c[i],
         cc[Len(c) + 1].op = "copy", cc[Len(c) + 1].slot = s0, cc[Len(c) + 1].key = k0,
         cc[Len(c) + 2].op = "read", cc[Len(c) + 2].slot = s0, cc[Len(c) + 2].key = k0,
         NoCopy(p, Len(p), s0), ReadsFind(c, p, m)
  PROVE  /\ ReadsFind(cc, p, m)
         /\ \A s : OneStream(c, p, s) => OneStream(cc, p, s)
         /\ Settles(cc, p, m, s0, k0)
         /\ \A s, k : s # s0 /\ Settles(c, p, m, s, k) => Settles(cc, p, m, s, k)
<1> DEFINE l == Len(c)
<1>0. l \in Nat OBVIOUS
<1>1. \A i \in 1..Len(cc) : i \in 1..l \/ i = l + 1 \/ i = l + 2 OBVIOUS
<1>2. /\ \A s : ~Copies(cc, l + 2, s) /\ (s # s0 => ~Copies(cc, l + 1, s))
      /\ Copies(cc, l + 1, s0)
  BY DEF Copies
<1>3. \A s : \A i \in 1..l : i \in 1..Len(cc) /\ (Copies(cc, i, s) <=> Copies(c, i, s)) BY DEF Copies
<1>4. ASSUME NEW s, NEW k, s # s0
      PROVE  /\ NoCopy(c, l, s) => NoCopy(cc, Len(cc), s)
             /\ Shows(c, l, s, k) => Shows(cc, Len(cc), s, k)
  <2>1. NoCopy(c, l, s) => NoCopy(cc, Len(cc), s) BY <1>1, <1>2, <1>3, <1>4 DEF NoCopy
  <2>2. ASSUME Shows(c, l, s, k) PROVE Shows(cc, Len(cc), s, k)
    <3>1. PICK i \in 1..l : /\ Copies(c, i, s) /\ c[i].key = k
                            /\ \A j \in 1..l : j > i => ~Copies(c, j, s)
      BY <2>2 DEF Shows
    <3>2. i \in 1..Len(cc) /\ Copies(cc, i, s) /\ cc[i].key = k BY <3>1, <1>0, <1>3
    <3>3. \A j \in 1..Len(cc) : j > i => ~Copies(cc, j, s) BY <3>1, <1>1, <1>2, <1>3, <1>4
    <3> QED BY <3>2, <3>3 DEF Shows
  <2> QED BY <2>1, <2>2
<1>5. ASSUME NEW n \in {l + 1, l + 2} PROVE Shows(cc, n, s0, k0)
  <2>1. l + 1 \in 1..n /\ cc[l + 1].key = k0 BY <1>0
  <2>2. \A j \in 1..n : j > l + 1 => j = l + 2 BY <1>0
  <2> QED BY <2>1, <2>2, <1>2 DEF Shows
<1>6. ASSUME NEW s, NEW k, s # s0, Settles(c, p, m, s, k) PROVE Settles(cc, p, m, s, k)
  BY <1>4, <1>6 DEF Settles
<1>7. ASSUME NEW s, OneStream(c, p, s) PROVE OneStream(cc, p, s)
  <2>1. CASE s = s0 BY <2>1 DEF OneStream
  <2>2. CASE s # s0 BY <2>2, <1>4, <1>7 DEF OneStream
  <2> QED BY <2>1, <2>2
<1>8. ASSUME NEW i \in 1..Len(cc), cc[i].op = "read"
      PROVE  Finds(cc, p, m, i - 1, cc[i].slot, cc[i].key)
  <2>1. CASE i \in 1..l
    <3>1. cc[i] = c[i] /\ i - 1 \in Nat /\ \A j \in 1..(i - 1) : cc[j] = c[j] BY <2>1
    <3>2. Finds(c, p, m, i - 1, cc[i].slot, cc[i].key) BY <3>1, <2>1, <1>8 DEF ReadsFind
    <3> QED BY <3>1, <3>2, CurrentPrefix
  <2>2. CASE i = l + 1 BY <2>2, <1>8
  <2>3. CASE i = l + 2
    <3>1. i - 1 = l + 1 /\ cc[i].slot = s0 /\ cc[i].key = k0 BY <2>3, <1>0
    <3>2. Shows(cc, l + 1, s0, k0) BY <1>5
    <3> QED BY <3>1, <3>2 DEF Finds
  <2> QED BY <2>1, <2>2, <2>3, <1>1
<1>9. Settles(cc, p, m, s0, k0)
  <2>1. Shows(cc, Len(cc), s0, k0) BY <1>5
  <2> QED BY <2>1 DEF Settles
<1> QED BY <1>6, <1>7, <1>8, <1>9 DEF ReadsFind

-----------------------------------------------------------------------------
(***************************************************************************)
(* The inductive invariant of the cache.                                   *)
(***************************************************************************)

StreamsGood ==
  /\ current \in Seq(OpType) /\ prefetch \in Seq(OpType)
  /\ pool \in [1..vramCap -> Keys \union {NoKey}]
  /\ \A i \in 1..Len(prefetch) : prefetch[i].op = "copy" /\ prefetch[i].slot \in 1..vramCap
  /\ \A i \in 1..Len(current) : IF current[i].op = "wait" THEN current[i].slot = NoSlot
                                                          ELSE current[i].slot \in 1..vramCap

\* As long as no stream took a slot from the other: every entry's slot comes to
\* hold its expert, every read finds its own, and none has misread.
InStep ==
  /\ ~misread
  /\ \A e \in ToSet(vram) : e.slot # NoSlot => Settles(current, prefetch, pool, e.slot, e.key)
  /\ ReadsFind(current, prefetch, pool)
  /\ \A s \in 1..vramCap : OneStream(current, prefetch, s)

CacheInv ==
  /\ vramCap \in VramCaps /\ ram \in Distinct(Keys) /\ Len(ram) <= RamCap
  /\ TablesGood(vram, keySlot, free, arena, vramCap) /\ StreamsGood
  /\ overtaken \in BOOLEAN /\ misread \in BOOLEAN
  /\ ~overtaken => InStep

LEMMA CacheInvInit == CacheInit => CacheInv
<1> SUFFICES ASSUME CacheInit PROVE CacheInv OBVIOUS
<1> USE DEF CacheInit
<1>1. vramCap \in Nat BY FastCacheAssumption
<1>2. TablesGood(vram, keySlot, free, arena, vramCap)
  <2>1. <<>> \in Shelf /\ ToSet(<<>>) = {} /\ Len(<<>>) = 0 /\ <<>> \in Distinct(1..vramCap)
    BY EmptyShelf, EmptyFacts
  <2> QED BY <1>1, <2>1 DEF TablesGood, Unslotted
<1>3. StreamsGood BY DEF StreamsGood, AllSlots
<1>4. InStep
  <2>1. ToSet(vram) = {} BY EmptyShelf
  <2>2. Len(current) = 0 /\ Len(prefetch) = 0 OBVIOUS
  <2> QED BY <2>1, <2>2 DEF InStep, ReadsFind, OneStream, NoCopy
<1>5. ram \in Distinct(Keys) /\ Len(ram) <= RamCap BY FastCacheAssumption, EmptyFacts
<1> QED BY <1>1, <1>2, <1>3, <1>4, <1>5 DEF CacheInv

LEMMA CacheInvSame == ASSUME CacheInv, UNCHANGED cacheVars PROVE CacheInv'
BY DEF CacheInv, cacheVars, tiers, device, StreamsGood, InStep, NoCopy, Settles, Finds,
       ReadsFind, Shows, Awaits, OneStream, Copies, TablesGood, Divided, Unslotted

\* The other stream has no work on the slot an expert gets, if none is overtaken.
LEMMA NotOvertaken ==
  ASSUME NEW key, NEW other, Overtakes(key, other), ~overtaken', overtaken \in BOOLEAN,
         NewSlot(key) # NoSlot
  PROVE  ~overtaken /\ \A i \in DOMAIN other : other[i].slot # NewSlot(key)
<1>1. ~overtaken /\ NewSlot(key) \notin {op.slot : op \in ToSet(other)} \ {NoSlot}
  BY DEF Overtakes
<1> QED BY <1>1 DEF ToSet

\* prefetch_batch
LEMMA PrefetchKeeps == ASSUME CacheInv, NEW key \in Keys, Prefetch(key) PROVE CacheInv'
<1>1. CASE ~(OnGpu /\ ~InVram(key) /\ InRam(key))
  BY <1>1, CacheInvSame DEF Prefetch
<1>2. CASE OnGpu /\ ~InVram(key) /\ InRam(key)
  <2>0. vramCap \in Nat \ {0} BY <1>2, FastCacheAssumption DEF CacheInv, OnGpu
  <2>1. PICK how : Places(key, how) BY <1>2 DEF Prefetch
  <2>2. /\ prefetch' = prefetch \o Copy(key) /\ Overtakes(key, current)
        /\ vramCap' = vramCap /\ ram' = ram /\ pool' = pool /\ current' = current
        /\ misread' = misread
    BY <1>2 DEF Prefetch
  <2> DEFINE s == NewSlot(key)
             e == [key |-> key, slot |-> s]
  <2>3. /\ TablesGood(vram', keySlot', free', arena', vramCap) /\ s \in 0..vramCap
        /\ e \in ToSet(vram') /\ \A g \in ToSet(vram') : g \in ToSet(vram) \/ g = e
    BY <1>2, <2>0, <2>1, MovesIn DEF CacheInv
  <2> DEFINE o == [op |-> "copy", slot |-> s, key |-> key, after |-> 0]
  <2>4. Copy(key) = IF s = NoSlot THEN <<>> ELSE <<o>> BY DEF Copy
  <2>5. s # NoSlot => o \in OpType /\ s \in 1..vramCap BY <2>0, <2>3 DEF OpType, NoSlot
  <2>6. overtaken' \in BOOLEAN BY <2>2 DEF Overtakes, CacheInv
  <2>7. StreamsGood'
    <3>1. CASE s = NoSlot
      <4>1. prefetch' = prefetch BY <2>2, <2>4, <3>1 DEF CacheInv, StreamsGood
      <4> QED BY <2>2, <4>1 DEF CacheInv, StreamsGood
    <3>2. CASE s # NoSlot
      <4>1. <<o>> \in Seq(OpType) /\ Len(<<o>>) = 1 /\ <<o>>[1] = o BY <2>5, <3>2
      <4>2. prefetch' = prefetch \o <<o>> BY <2>2, <2>4, <3>2
      <4>3. o.op = "copy" /\ o.slot = s OBVIOUS
      <4> HIDE DEF o, s
      <4>4. /\ prefetch' \in Seq(OpType) /\ Len(prefetch) \in Nat
            /\ Len(prefetch') = Len(prefetch) + 1
            /\ \A i \in 1..Len(prefetch) : prefetch'[i] = prefetch[i]
            /\ prefetch'[Len(prefetch) + 1] = o
        <5>1. prefetch \in Seq(OpType) BY DEF CacheInv, StreamsGood
        <5> QED BY <4>1, <4>2, <5>1, Joined
      <4>5. \A i \in 1..Len(prefetch') :
              prefetch'[i].op = "copy" /\ prefetch'[i].slot \in 1..vramCap
        <5>1. ASSUME NEW i \in 1..Len(prefetch')
              PROVE  i \in 1..Len(prefetch) \/ i = Len(prefetch) + 1
          BY <4>4
        <5> QED BY <2>5, <3>2, <4>3, <4>4, <5>1 DEF CacheInv, StreamsGood
      <4> QED BY <2>2, <4>4, <4>5 DEF CacheInv, StreamsGood
    <3> QED BY <3>1, <3>2
  <2>8. ASSUME ~overtaken' PROVE InStep'
    <3>1. CASE s = NoSlot
      <4>1. prefetch' = prefetch BY <2>2, <2>4, <3>1 DEF CacheInv, StreamsGood
      <4>2. ~overtaken BY <2>2, <2>8 DEF Overtakes, CacheInv
      <4>3. InStep BY <4>2 DEF CacheInv
      <4>4. e.slot = NoSlot BY <3>1
      <4> HIDE DEF s, e
      <4> QED BY <2>2, <2>3, <4>1, <4>3, <4>4 DEF InStep
    <3>2. CASE s # NoSlot
      <4>1. ~overtaken /\ \A i \in DOMAIN current : current[i].slot # s
        BY <2>2, <2>8, <3>2, NotOvertaken DEF CacheInv
      <4>2. InStep BY <4>1 DEF CacheInv
      <4>3. prefetch' = prefetch \o <<o>> BY <2>2, <2>4, <3>2
      <4>4. /\ o \in OpType /\ o.op = "copy" /\ o.slot = s /\ o.key = key
            /\ current \in Seq(OpType) /\ prefetch \in Seq(OpType)
        BY <2>5, <3>2 DEF CacheInv, StreamsGood
      <4>5. e.slot = s /\ e.key = key OBVIOUS
      <4> HIDE DEF o, s, e
      <4>6. \A i \in 1..Len(current) : current[i].slot # o.slot BY <4>1, <4>4
      <4>7. /\ \A x : OneStream(current, prefetch, x) => OneStream(current, prefetch', x)
            /\ Settles(current, prefetch', pool, s, key)
            /\ \A x, k : x # s /\ Settles(current, prefetch, pool, x, k)
                           => Settles(current, prefetch', pool, x, k)
            /\ \A n, x, k : x # s /\ Finds(current, prefetch, pool, n, x, k)
                              => Finds(current, prefetch', pool, n, x, k)
        <5>1. LET pp == prefetch \o <<o>> IN
              /\ \A x : OneStream(current, prefetch, x) => OneStream(current, pp, x)
              /\ Settles(current, pp, pool, o.slot, o.key)
              /\ \A x, k : x # o.slot /\ Settles(current, prefetch, pool, x, k)
                             => Settles(current, pp, pool, x, k)
              /\ \A n, x, k : x # o.slot /\ Finds(current, prefetch, pool, n, x, k)
                                => Finds(current, pp, pool, n, x, k)
          BY <4>4, <4>6, PrefetchEnqueued
        <5> QED BY <5>1, <4>3, <4>4
      <4>8. ReadsFind(current, prefetch', pool) BY <4>2, <4>4, <4>6, <4>7 DEF InStep, ReadsFind
      <4>9. ASSUME NEW g \in ToSet(vram'), g.slot # NoSlot
            PROVE  Settles(current, prefetch', pool, g.slot, g.key)
        <5>1. CASE g = e BY <5>1, <4>5, <4>7
        <5>2. CASE g # e
          <6>1. g \in ToSet(vram) BY <2>3, <5>2
          <6>2. g.slot # s
            <7>1. arena' = "ready" => Divided(vram', keySlot', free', vramCap)
              BY <2>3 DEF TablesGood
            <7>2. arena' # "ready" => g.slot = NoSlot BY <2>3 DEF TablesGood, Unslotted
            <7> QED BY <7>1, <7>2, <2>3, <4>5, <4>9, <5>2 DEF Divided
          <6> QED BY <6>1, <6>2, <4>2, <4>7, <4>9 DEF InStep
        <5> QED BY <5>1, <5>2
      <4>10. \A x \in 1..vramCap : OneStream(current, prefetch', x) BY <4>2, <4>7 DEF InStep
      <4>11. ~misread' BY <2>2, <4>2 DEF InStep
      <4>12. InStep' = (/\ ~misread'
                        /\ \A g \in ToSet(vram') : g.slot # NoSlot =>
                             Settles(current, prefetch', pool, g.slot, g.key)
                        /\ ReadsFind(current, prefetch', pool)
                        /\ \A x \in 1..vramCap : OneStream(current, prefetch', x))
        BY <2>2 DEF InStep
      <4> QED BY <4>8, <4>9, <4>10, <4>11, <4>12
    <3> QED BY <3>1, <3>2
  <2>9. TablesGood(vram, keySlot, free, arena, vramCap)' BY <2>2, <2>3
  <2> QED BY <2>2, <2>6, <2>7, <2>8, <2>9 DEF CacheInv
<1> QED BY <1>1, <1>2

\* get_or_load finds the expert in VRAM.
LEMMA VramHitKeeps == ASSUME CacheInv, NEW key \in Keys, VramHit(key) PROVE CacheInv'
<1>0. vramCap \in Nat \ {0} BY FastCacheAssumption DEF CacheInv, VramHit, OnGpu
<1>1. PICK e \in ToSet(vram) : e.key = key
  <2>1. \A i \in DOMAIN vram : vram[i] \in ToSet(vram) BY DEF ToSet
  <2> QED BY <2>1 DEF VramHit, InVram
<1>2. vram \in Shelf /\ ToSet(vram) \subseteq EntryType /\ Len(vram) \in Nat
  BY DividedShelves DEF CacheInv
<1>3. Entry(vram, key) = e /\ e \in EntryType BY <1>1, <1>2, PositionFacts
<1>4. /\ Without(vram, key) \in Shelf /\ ToSet(Without(vram, key)) = ToSet(vram) \ {e}
      /\ Len(Without(vram, key)) = Len(vram) - 1
  BY <1>1, <1>2, ShelfWithout
<1>5. \A g \in ToSet(vram) \ {e} : g.key # e.key BY <1>1, <1>2 DEF Shelf
<1>6. vram' = Append(Without(vram, key), e) BY <1>3 DEF VramHit
<1>7. vram' \in Shelf /\ ToSet(vram') = ToSet(vram) /\ Len(vram') = Len(vram)
  <2> DEFINE v == Without(vram, key)
  <2>1. v \in Shelf /\ ToSet(v) = ToSet(vram) \ {e} /\ Len(v) = Len(vram) - 1 BY <1>4
  <2> HIDE DEF v
  <2>2. \A g \in ToSet(v) : g.key # e.key BY <2>1, <1>5
  <2>3. /\ Append(v, e) \in Shelf /\ ToSet(Append(v, e)) = ToSet(v) \union {e}
        /\ Len(Append(v, e)) = Len(v) + 1
    BY <2>1, <2>2, <1>3, ShelfAppend
  <2>4. vram' = Append(v, e) BY <1>6 DEF v
  <2>5. ToSet(v) \union {e} = ToSet(vram) BY <2>1, <1>1
  <2>6. Len(v) + 1 = Len(vram) BY <2>1, <1>2
  <2> QED BY <2>3, <2>4, <2>5, <2>6
<1>8. /\ vramCap' = vramCap /\ arena' = arena /\ ram' = ram /\ free' = free
      /\ keySlot' = keySlot /\ pool' = pool /\ prefetch' = prefetch
      /\ overtaken' = overtaken /\ misread' = misread
      /\ current' = current \o WaitPrefetch \o Read(e.slot, key)
  BY <1>3 DEF VramHit
<1>9. TablesGood(vram, keySlot, free, arena, vramCap)'
  <2>1. vram = <<>> => vram' = <<>> BY <1>2, <1>7, ShelfEntries
  <2> QED BY <2>1, <1>7, <1>8 DEF CacheInv, TablesGood, Divided, Unslotted
<1> DEFINE l == Len(current)
           w == [op |-> "wait", slot |-> NoSlot, key |-> NoKey, after |-> Len(prefetch)]
           r == [op |-> "read", slot |-> e.slot, key |-> key, after |-> 0]
           c1 == current \o <<w>>
<1>10. current \in Seq(OpType) /\ prefetch \in Seq(OpType) /\ l \in Nat /\ Len(prefetch) \in Nat
  BY DEF CacheInv, StreamsGood
<1>11. /\ w \in OpType /\ w.op = "wait" /\ w.after = Len(prefetch) /\ w.slot = NoSlot
       /\ <<w>> \in Seq(OpType) /\ Len(<<w>>) = 1 /\ <<w>>[1] = w /\ WaitPrefetch = <<w>>
  BY <1>10 DEF OpType, NoSlot, WaitPrefetch
<1>12. e.slot \in Nat BY <1>3 DEF EntryType
<1>13. /\ r \in OpType /\ r.op = "read" /\ r.slot = e.slot /\ r.key = key
       /\ <<r>> \in Seq(OpType) /\ Len(<<r>>) = 1 /\ <<r>>[1] = r
       /\ Read(e.slot, key) = IF e.slot = NoSlot THEN <<>> ELSE <<r>>
  BY <1>12 DEF OpType, Read
<1> HIDE DEF w, r
<1>14. /\ c1 \in Seq(OpType) /\ Len(c1) = l + 1 /\ c1[l + 1] = w
       /\ \A i \in 1..l : c1[i] = current[i]
  BY <1>10, <1>11, Joined
<1>15. e.slot # NoSlot => e.slot \in 1..vramCap BY <1>1 DEF CacheInv, TablesGood, Divided, Unslotted
<1> HIDE DEF c1
<1>16. /\ current' \in Seq(OpType) /\ \A i \in 1..l : current'[i] = current[i]
       /\ current'[l + 1] = w
       /\ IF e.slot = NoSlot THEN Len(current') = l + 1
                             ELSE Len(current') = l + 2 /\ current'[l + 2] = r
  <2>1. CASE e.slot = NoSlot
    <3>1. current' = c1 \o <<>> BY <1>8, <1>11, <1>13, <2>1 DEF c1
    <3>2. current' = c1 BY <3>1, <1>14, ConcatEmptySeq
    <3> QED BY <3>2, <1>14, <2>1
  <2>2. CASE e.slot # NoSlot
    <3>1. current' = c1 \o <<r>> BY <1>8, <1>11, <1>13, <2>2 DEF c1
    <3>2. /\ current' \in Seq(OpType) /\ Len(current') = Len(c1) + 1
          /\ \A i \in 1..Len(c1) : current'[i] = c1[i]
          /\ current'[Len(c1) + 1] = r
      BY <3>1, <1>13, <1>14, Joined
    <3>3. l + 1 \in 1..Len(c1) /\ \A i \in 1..l : i \in 1..Len(c1) BY <1>10, <1>14
    <3>4. Len(c1) + 1 = l + 2 BY <1>10, <1>14
    <3> QED BY <3>2, <3>3, <3>4, <1>14, <2>2
  <2> QED BY <2>1, <2>2
<1>17. StreamsGood'
  <2>1. ASSUME NEW i \in 1..Len(current')
        PROVE  i \in 1..l \/ i = l + 1 \/ (i = l + 2 /\ e.slot # NoSlot)
    BY <1>10, <1>16
  <2>2. \A i \in 1..Len(current') :
           IF current'[i].op = "wait" THEN current'[i].slot = NoSlot
                                      ELSE current'[i].slot \in 1..vramCap
    BY <2>1, <1>11, <1>13, <1>15, <1>16 DEF CacheInv, StreamsGood
  <2> QED BY <2>2, <1>8, <1>16 DEF CacheInv, StreamsGood
<1>18. ASSUME ~overtaken' PROVE InStep'
  <2>1. InStep BY <1>8, <1>18 DEF CacheInv
  <2>2. e.slot # NoSlot => Settles(current, prefetch, pool, e.slot, key) BY <2>1, <1>1 DEF InStep
  <2>3. Len(current') \in {l + 1, l + 2} BY <1>16
  <2>4. Len(current') = l + 2 =>
          /\ current'[l + 2].op = "read"
          /\ Settles(current, prefetch, pool, current'[l + 2].slot, current'[l + 2].key)
    BY <2>2, <1>10, <1>13, <1>16
  <2>5. /\ ReadsFind(current', prefetch, pool)
        /\ \A s : OneStream(current, prefetch, s) => OneStream(current', prefetch, s)
        /\ \A s, k : Settles(current, prefetch, pool, s, k)
                       => Settles(current', prefetch, pool, s, k)
    BY <2>1, <2>3, <2>4, <1>10, <1>11, <1>16, HitEnqueued DEF InStep
  <2> QED BY <2>1, <2>5, <1>7, <1>8 DEF InStep
<1> QED BY <1>8, <1>9, <1>17, <1>18 DEF CacheInv

\* The expert goes from RAM to VRAM on the current stream.
LEMMA PromoteKeeps ==
  ASSUME CacheInv, NEW key \in Keys, ~(OnGpu /\ InVram(key)),
         ram' \in Distinct(Keys), Len(ram') <= RamCap, Promote(key)
  PROVE  CacheInv'
<1>1. CASE ~OnGpu
  <2>1. /\ vramCap' = vramCap /\ arena' = arena /\ vram' = vram /\ free' = free
        /\ keySlot' = keySlot /\ pool' = pool /\ prefetch' = prefetch /\ current' = current
        /\ overtaken' = overtaken /\ misread' = misread
    BY <1>1 DEF Promote, device
  <2> QED BY <2>1 DEF CacheInv, StreamsGood, InStep
<1>2. CASE OnGpu
  <2>0. vramCap \in Nat \ {0} BY <1>2, FastCacheAssumption DEF CacheInv, OnGpu
  <2>1. PICK how : Places(key, how) BY <1>2 DEF Promote
  <2>2. /\ current' = current \o Copy(key) \o Read(NewSlot(key), key) /\ Overtakes(key, prefetch)
        /\ vramCap' = vramCap /\ pool' = pool /\ prefetch' = prefetch /\ misread' = misread
    BY <1>2 DEF Promote
  <2> DEFINE s == NewSlot(key)
             e == [key |-> key, slot |-> s]
             l == Len(current)
             o == [op |-> "copy", slot |-> s, key |-> key, after |-> 0]
             r == [op |-> "read", slot |-> s, key |-> key, after |-> 0]
  <2>3. /\ TablesGood(vram', keySlot', free', arena', vramCap) /\ s \in 0..vramCap
        /\ e \in ToSet(vram') /\ \A g \in ToSet(vram') : g \in ToSet(vram) \/ g = e
    BY <1>2, <2>0, <2>1, MovesIn DEF CacheInv
  <2>4. /\ Copy(key) = IF s = NoSlot THEN <<>> ELSE <<o>>
        /\ Read(s, key) = IF s = NoSlot THEN <<>> ELSE <<r>>
    BY DEF Copy, Read
  <2>5. /\ o.op = "copy" /\ o.slot = s /\ o.key = key /\ Len(<<o>>) = 1 /\ <<o>>[1] = o
        /\ r.op = "read" /\ r.slot = s /\ r.key = key /\ Len(<<r>>) = 1 /\ <<r>>[1] = r
        /\ e.key = key /\ e.slot = s
    OBVIOUS
  <2>6. s # NoSlot => /\ s \in 1..vramCap /\ <<o>> \in Seq(OpType) /\ <<r>> \in Seq(OpType)
    BY <2>0, <2>3 DEF OpType, NoSlot
  <2>7. overtaken' \in BOOLEAN BY <2>2 DEF Overtakes, CacheInv
  <2>8. /\ current \in Seq(OpType) /\ prefetch \in Seq(OpType) /\ l \in Nat
        /\ Len(prefetch) \in Nat /\ DOMAIN prefetch = 1..Len(prefetch)
    BY DEF CacheInv, StreamsGood
  <2>9. TablesGood(vram, keySlot, free, arena, vramCap)' BY <2>2, <2>3
  <2>10. CASE s = NoSlot
    <3>1. current' = current \o <<>> \o <<>> BY <2>2, <2>4, <2>10
    <3>2. current' = current BY <3>1, <2>8, ConcatEmptySeq
    <3>3. StreamsGood' BY <2>2, <3>2 DEF CacheInv, StreamsGood
    <3>4. ASSUME ~overtaken' PROVE InStep'
      <4>1. InStep BY <2>2, <3>4 DEF Overtakes, CacheInv
      <4> HIDE DEF s, e, o, r
      <4> QED BY <2>2, <2>3, <2>5, <2>10, <3>2, <4>1 DEF InStep
    <3> QED BY <2>2, <2>7, <2>9, <3>3, <3>4 DEF CacheInv
  <2>11. CASE s # NoSlot
    <3> DEFINE c1 == current \o <<o>>
    <3>1. current' = c1 \o <<r>> BY <2>2, <2>4, <2>11
    <3> HIDE DEF s, e, o, r
    <3>2. /\ c1 \in Seq(OpType) /\ Len(c1) = l + 1 /\ c1[l + 1] = o
          /\ \A i \in 1..l : c1[i] = current[i]
      BY <2>5, <2>6, <2>8, <2>11, Joined
    <3> HIDE DEF c1
    <3>3. /\ current' \in Seq(OpType) /\ Len(current') = Len(c1) + 1
          /\ \A i \in 1..Len(c1) : current'[i] = c1[i]
          /\ current'[Len(c1) + 1] = r
      BY <2>5, <2>6, <2>11, <3>1, <3>2, Joined
    <3>4. /\ l + 1 \in 1..Len(c1) /\ Len(c1) + 1 = l + 2
          /\ \A i \in 1..l : i \in 1..Len(c1)
      BY <2>8, <3>2
    <3>5. /\ Len(current') = l + 2 /\ \A i \in 1..l : current'[i] = current[i]
          /\ current'[l + 1] = o /\ current'[l + 2] = r
      BY <3>2, <3>3, <3>4
    <3>6. StreamsGood'
      <4>1. ASSUME NEW i \in 1..Len(current') PROVE i \in 1..l \/ i = l + 1 \/ i = l + 2
        BY <2>8, <3>5
      <4>2. \A i \in 1..Len(current') :
              IF current'[i].op = "wait" THEN current'[i].slot = NoSlot
                                         ELSE current'[i].slot \in 1..vramCap
        BY <4>1, <2>5, <2>6, <2>11, <3>5 DEF CacheInv, StreamsGood
      <4> QED BY <4>2, <2>2, <3>3 DEF CacheInv, StreamsGood
    <3>7. ASSUME ~overtaken' PROVE InStep'
      <4>1. ~overtaken /\ \A i \in DOMAIN prefetch : prefetch[i].slot # s
        BY <2>2, <2>11, <3>7, NotOvertaken DEF CacheInv, s
      <4>2. InStep BY <4>1 DEF CacheInv
      <4>3. NoCopy(prefetch, Len(prefetch), s) BY <4>1, <2>8 DEF NoCopy, Copies
      <4>4. /\ ReadsFind(current', prefetch, pool)
            /\ \A x : OneStream(current, prefetch, x) => OneStream(current', prefetch, x)
            /\ Settles(current', prefetch, pool, s, key)
            /\ \A x, k : x # s /\ Settles(current, prefetch, pool, x, k)
                           => Settles(current', prefetch, pool, x, k)
        BY <4>2, <4>3, <2>5, <2>8, <3>5, PromotionEnqueued DEF InStep
      <4>5. ASSUME NEW g \in ToSet(vram'), g.slot # NoSlot
            PROVE  Settles(current', prefetch, pool, g.slot, g.key)
        <5>1. CASE g = e BY <5>1, <2>5, <4>4
        <5>2. CASE g # e
          <6>1. g \in ToSet(vram) BY <2>3, <5>2
          <6>2. g.slot # s
            <7>1. arena' = "ready" => Divided(vram', keySlot', free', vramCap)
              BY <2>3 DEF TablesGood
            <7>2. arena' # "ready" => g.slot = NoSlot BY <2>3 DEF TablesGood, Unslotted
            <7> QED BY <7>1, <7>2, <2>3, <2>5, <4>5, <5>2 DEF Divided
          <6> QED BY <6>1, <6>2, <4>2, <4>4, <4>5 DEF InStep
        <5> QED BY <5>1, <5>2
      <4>6. \A x \in 1..vramCap : OneStream(current', prefetch, x) BY <4>2, <4>4 DEF InStep
      <4>7. ~misread' BY <2>2, <4>2 DEF InStep
      <4>8. InStep' = (/\ ~misread'
                       /\ \A g \in ToSet(vram') : g.slot # NoSlot =>
                            Settles(current', prefetch, pool, g.slot, g.key)
                       /\ ReadsFind(current', prefetch, pool)
                       /\ \A x \in 1..vramCap : OneStream(current', prefetch, x))
        BY <2>2 DEF InStep
      <4> QED BY <4>4, <4>5, <4>6, <4>7, <4>8
    <3> QED BY <2>2, <2>7, <2>9, <3>6, <3>7 DEF CacheInv
  <2> QED BY <2>10, <2>11
<1> QED BY <1>1, <1>2

\* The RAM tier, with a key touched or staged.
LEMMA TouchedFacts ==
  ASSUME ram \in Distinct(Keys), NEW key \in Keys, InRam(key)
  PROVE  Touched(ram, key) \in Distinct(Keys) /\ Len(Touched(ram, key)) = Len(ram)
<1>0. ram \in Seq(Keys) /\ DOMAIN ram = 1..Len(ram) /\ Len(ram) \in Nat BY DEF Distinct
<1> DEFINE n == CHOOSE i \in DOMAIN ram : ram[i] = key
           w == RemoveAt(ram, n)
<1>1. \E i \in DOMAIN ram : ram[i] = key BY <1>0 DEF InRam, Contains
<1>2. n \in DOMAIN ram /\ ram[n] = key BY <1>1
<1> HIDE DEF n
<1>3. w \in Distinct(Keys) /\ ToSet(w) = ToSet(ram) \ {key} /\ Len(w) = Len(ram) - 1
  BY <1>2, RemoveAtFacts
<1> HIDE DEF w
<1>4. Append(w, key) \in Distinct(Keys) /\ Len(Append(w, key)) = Len(w) + 1
  BY <1>3, AppendFacts
<1>5. Touched(ram, key) = Append(w, key) BY DEF Touched, w, n
<1>6. Len(w) + 1 = Len(ram) BY <1>0, <1>3
<1> QED BY <1>4, <1>5, <1>6

LEMMA StagedFacts ==
  ASSUME ram \in Distinct(Keys), Len(ram) <= RamCap, NEW key \in Keys, ~InRam(key)
  PROVE  Staged(key) \in Distinct(Keys) /\ Len(Staged(key)) <= RamCap
<1>0. ram \in Seq(Keys) /\ DOMAIN ram = 1..Len(ram) /\ Len(ram) \in Nat /\ RamCap \in Nat \ {0}
  BY FastCacheAssumption DEF Distinct
<1>1. key \notin ToSet(ram) BY <1>0 DEF ToSet, InRam, Contains
<1> DEFINE w == IF Len(ram) >= RamCap THEN Tail(ram) ELSE ram
<1>2. w \in Distinct(Keys) /\ ToSet(w) \subseteq ToSet(ram) /\ Len(w) < RamCap /\ Len(w) \in Nat
  <2>1. CASE Len(ram) >= RamCap
    <3>1. ram # <<>> BY <1>0, <2>1
    <3>2. /\ Tail(ram) \in Distinct(Keys) /\ ToSet(Tail(ram)) = ToSet(ram) \ {Head(ram)}
          /\ Len(Tail(ram)) = Len(ram) - 1
      BY <3>1, PoppedFirst
    <3>3. w = Tail(ram) BY <2>1
    <3> HIDE DEF w
    <3> QED BY <1>0, <2>1, <3>2, <3>3
  <2>2. CASE ~(Len(ram) >= RamCap) BY <1>0, <2>2
  <2> QED BY <2>1, <2>2
<1>3. Staged(key) = Append(w, key) BY DEF Staged
<1> HIDE DEF w
<1>4. Append(w, key) \in Distinct(Keys) /\ Len(Append(w, key)) = Len(w) + 1
  BY <1>1, <1>2, AppendFacts
<1> QED BY <1>0, <1>2, <1>3, <1>4

LEMMA RamHitKeeps == ASSUME CacheInv, NEW key \in Keys, RamHit(key) PROVE CacheInv'
<1>1. /\ ~(OnGpu /\ InVram(key)) /\ InRam(key) /\ ram' = Touched(ram, key) /\ Promote(key)
      /\ ram \in Distinct(Keys) /\ Len(ram) <= RamCap
  BY DEF RamHit, CacheInv
<1>2. ram' \in Distinct(Keys) /\ Len(ram') <= RamCap BY <1>1, TouchedFacts
<1> QED BY <1>1, <1>2, PromoteKeeps

LEMMA LoadFromPageKeeps == ASSUME CacheInv, NEW key \in Keys, LoadFromPage(key) PROVE CacheInv'
<1>1. /\ ~(OnGpu /\ InVram(key)) /\ ~InRam(key) /\ ram' = Staged(key) /\ Promote(key)
      /\ ram \in Distinct(Keys) /\ Len(ram) <= RamCap
  BY DEF LoadFromPage, Misses, CacheInv
<1>2. ram' \in Distinct(Keys) /\ Len(ram') <= RamCap BY <1>1, StagedFacts
<1> QED BY <1>1, <1>2, PromoteKeeps

LEMMA ClearKeeps ==
  ASSUME CacheInv, Clear, current = <<>>, prefetch = <<>>
  PROVE  CacheInv'
<1>0. vramCap \in Nat BY FastCacheAssumption DEF CacheInv
<1>1. /\ ram' = <<>> /\ vram' = <<>> /\ keySlot' = <<>> /\ vramCap' = vramCap /\ arena' = arena
      /\ free' = (IF arena = "ready" THEN FreshStack ELSE free)
      /\ pool' = pool /\ current' = current /\ prefetch' = prefetch
      /\ overtaken' = overtaken /\ misread' = misread
  BY DEF Clear, device
<1>2. <<>> \in Shelf /\ ToSet(<<>>) = {} /\ Len(<<>>) = 0 /\ <<>> \in Distinct(Keys)
  BY EmptyShelf, EmptyFacts
<1>3. TablesGood(vram, keySlot, free, arena, vramCap)'
  <2>1. CASE arena = "ready"
    <3>1. free' \in Distinct(1..vramCap) /\ ToSet(free') = 1..vramCap
      BY <1>0, <1>1, <2>1, FreshStackFacts
    <3> QED BY <1>0, <1>1, <1>2, <2>1, <3>1 DEF TablesGood, Divided
  <2>2. CASE arena # "ready"
    BY <1>0, <1>1, <1>2, <2>2 DEF CacheInv, TablesGood, Unslotted
  <2> QED BY <2>1, <2>2
<1>4. ASSUME ~overtaken' PROVE InStep'
  <2>1. InStep BY <1>1, <1>4 DEF CacheInv
  <2>2. ToSet(vram') = {} BY <1>1, <1>2
  <2> QED BY <1>1, <2>1, <2>2 DEF InStep
<1>5. RamCap >= 0 BY FastCacheAssumption
<1>6. StreamsGood' BY <1>1 DEF CacheInv, StreamsGood
<1> QED BY <1>1, <1>2, <1>3, <1>4, <1>5, <1>6 DEF CacheInv

LEMMA TailOps ==
  ASSUME NEW q \in Seq(OpType), q # <<>>
  PROVE  /\ Tail(q) \in Seq(OpType) /\ Len(Tail(q)) \in Nat /\ Len(q) = Len(Tail(q)) + 1
         /\ Head(q) = q[1] /\ q[1] \in OpType /\ 1 \in 1..Len(q)
         /\ \A i \in 1..Len(Tail(q)) : Tail(q)[i] = q[i + 1] /\ i + 1 \in 1..Len(q)
         /\ Later(Tail(q), q, 1)
<1> DEFINE r == Tail(q)
<1>1. /\ Len(q) \in Nat \ {0} /\ Head(q) = q[1] /\ q[1] \in OpType
      /\ r \in Seq(OpType) /\ Len(r) = Len(q) - 1
      /\ \A i \in 1..Len(r) : r[i] = q[i + 1]
  BY HeadTailProperties
<1> HIDE DEF r
<1>2. Len(r) \in Nat /\ Len(q) = Len(r) + 1 /\ \A i \in 1..Len(r) : i + 1 \in 1..Len(q) BY <1>1
<1>3. Later(r, q, 1) BY <1>1, <1>2 DEF Later
<1> QED BY <1>1, <1>2, <1>3 DEF r

LEMMA DeviceCurrentKeeps == ASSUME CacheInv, DeviceCurrent PROVE CacheInv'
<1>0. vramCap \in Nat BY FastCacheAssumption DEF CacheInv
<1>1. /\ current # <<>> /\ current' = Tail(current)
      /\ vramCap' = vramCap /\ arena' = arena /\ ram' = ram /\ vram' = vram /\ free' = free
      /\ keySlot' = keySlot /\ prefetch' = prefetch /\ overtaken' = overtaken
  BY DEF DeviceCurrent, tiers
<1>2. /\ current \in Seq(OpType) /\ prefetch \in Seq(OpType) /\ Len(prefetch) \in Nat
      /\ pool \in [1..vramCap -> Keys \union {NoKey}]
  BY DEF CacheInv, StreamsGood
<1> DEFINE c == current
           cc == Tail(current)
<1>3. /\ cc \in Seq(OpType) /\ Len(cc) \in Nat /\ Len(c) = Len(cc) + 1
      /\ Head(c) = c[1] /\ c[1] \in OpType /\ 1 \in 1..Len(c)
      /\ \A i \in 1..Len(cc) : cc[i] = c[i + 1] /\ i + 1 \in 1..Len(c)
      /\ Later(cc, c, 1)
  BY <1>1, <1>2, TailOps
<1>4. current' = cc BY <1>1
<1> HIDE DEF cc
<1>5. \/ c[1].op = "copy" /\ pool' = [pool EXCEPT ![c[1].slot] = c[1].key] /\ misread' = misread
      \/ c[1].op = "read" /\ misread' = (misread \/ pool[c[1].slot] # c[1].key) /\ pool' = pool
      \/ c[1].op = "wait" /\ c[1].after = 0 /\ pool' = pool /\ misread' = misread
  BY <1>3 DEF DeviceCurrent, RunCopy
<1>6. c[1].op # "wait" => c[1].slot \in 1..vramCap BY <1>3 DEF CacheInv, StreamsGood
<1>7. c[1].key \in Keys \union {NoKey} BY <1>3 DEF OpType
<1>8. pool' \in [1..vramCap -> Keys \union {NoKey}] BY <1>2, <1>5, <1>7
<1>9. StreamsGood'
  <2>1. \A i \in 1..Len(cc) : IF cc[i].op = "wait" THEN cc[i].slot = NoSlot
                                                   ELSE cc[i].slot \in 1..vramCap
    BY <1>3 DEF CacheInv, StreamsGood
  <2> HIDE DEF c
  <2> QED BY <1>1, <1>3, <1>4, <1>8, <2>1 DEF CacheInv, StreamsGood
<1>10. misread' \in BOOLEAN
  <2>1. misread \in BOOLEAN BY DEF CacheInv
  <2> QED BY <2>1, <1>5
<1>11. ASSUME ~overtaken' PROVE InStep'
  <2>1. InStep BY <1>1, <1>11 DEF CacheInv
  <2>2. DOMAIN pool = 1..vramCap BY <1>2
  <2>3. ~misread'
    <3>1. ~misread BY <2>1 DEF InStep
    <3>2. ASSUME c[1].op = "read" PROVE pool[c[1].slot] = c[1].key
      <4>1. Finds(c, prefetch, pool, 1 - 1, c[1].slot, c[1].key)
        BY <1>3, <2>1, <3>2 DEF InStep, ReadsFind
      <4>2. Finds(c, prefetch, pool, 0, c[1].slot, c[1].key) BY <4>1
      <4> QED BY <4>2, HeadReads
    <3> QED BY <3>1, <3>2, <1>5
  <2>4. \/ /\ c[1].op = "copy" /\ OneStream(c, prefetch, c[1].slot)
           /\ pool'[c[1].slot] = c[1].key
           /\ \A s \in DOMAIN pool : s # c[1].slot => pool'[s] = pool[s]
        \/ c[1].op = "read" /\ pool' = pool
        \/ c[1].op = "wait" /\ c[1].after = 0 /\ pool' = pool
    <3>1. CASE c[1].op = "copy"
      <4>1. c[1].slot \in 1..vramCap BY <3>1, <1>6
      <4>2. OneStream(c, prefetch, c[1].slot) BY <4>1, <2>1 DEF InStep
      <4>3. pool' = [pool EXCEPT ![c[1].slot] = c[1].key] BY <3>1, <1>5
      <4> HIDE DEF c
      <4> QED BY <3>1, <4>1, <4>2, <4>3, <1>2
    <3>2. CASE c[1].op # "copy" BY <3>2, <1>5
    <3> QED BY <3>1, <3>2
  <2>5. \A i \in 1..Len(cc) : cc[i].after = c[i + 1].after BY <1>3
  <2> HIDE DEF c
  <2>6. /\ \A s \in DOMAIN pool : OneStream(c, prefetch, s) => OneStream(cc, prefetch, s)
        /\ \A k : \A s \in DOMAIN pool :
             Settles(c, prefetch, pool, s, k) => Settles(cc, prefetch, pool', s, k)
        /\ \A k : \A n \in 0..Len(cc), s \in DOMAIN pool :
             Finds(c, prefetch, pool, n + 1, s, k) => Finds(cc, prefetch, pool', n, s, k)
    BY <1>2, <1>3, <2>4, <2>5, CurrentDone
  <2>7. ReadsFind(cc, prefetch, pool')
    <3>1. ASSUME NEW i \in 1..Len(cc), cc[i].op = "read"
          PROVE  Finds(cc, prefetch, pool', i - 1, cc[i].slot, cc[i].key)
      <4>1. /\ i + 1 \in 1..Len(c) /\ cc[i] = c[i + 1] /\ i - 1 \in 0..Len(cc)
            /\ (i - 1) + 1 = i /\ (i + 1) - 1 = i
        BY <1>3
      <4>2. Finds(c, prefetch, pool, (i + 1) - 1, c[i + 1].slot, c[i + 1].key)
        BY <2>1, <3>1, <4>1 DEF InStep, ReadsFind, c
      <4>3. c[i + 1].slot \in DOMAIN pool
        BY <3>1, <4>1, <2>2 DEF CacheInv, StreamsGood, c
      <4>4. Finds(c, prefetch, pool, (i - 1) + 1, cc[i].slot, cc[i].key) BY <4>1, <4>2
      <4> QED BY <4>1, <4>3, <4>4, <2>6
    <3> QED BY <3>1 DEF ReadsFind
  <2>8. \A e \in ToSet(vram) : e.slot # NoSlot => Settles(cc, prefetch, pool', e.slot, e.key)
    <3>1. \A e \in ToSet(vram) : e.slot # NoSlot => e.slot \in DOMAIN pool
      BY <2>2 DEF CacheInv, TablesGood, Divided, Unslotted
    <3> QED BY <3>1, <2>1, <2>6 DEF InStep, c
  <2>9. \A s \in 1..vramCap : OneStream(cc, prefetch, s) BY <2>1, <2>2, <2>6 DEF InStep, c
  <2>10. InStep' = (/\ ~misread'
                    /\ \A e \in ToSet(vram) : e.slot # NoSlot =>
                         Settles(cc, prefetch, pool', e.slot, e.key)
                    /\ ReadsFind(cc, prefetch, pool')
                    /\ \A s \in 1..vramCap : OneStream(cc, prefetch, s))
    BY <1>1, <1>4 DEF InStep
  <2> QED BY <2>3, <2>7, <2>8, <2>9, <2>10
<1>12. TablesGood(vram, keySlot, free, arena, vramCap)' BY <1>1 DEF CacheInv
<1> QED BY <1>1, <1>9, <1>10, <1>11, <1>12 DEF CacheInv

LEMMA DevicePrefetchKeeps == ASSUME CacheInv, DevicePrefetch PROVE CacheInv'
<1> DEFINE c == current
           cc == [i \in DOMAIN current |-> OneFewer(current[i])]
           p == prefetch
           pp == Tail(prefetch)
           x == prefetch[1].slot
<1>0. vramCap \in Nat BY FastCacheAssumption DEF CacheInv
<1>1. /\ prefetch # <<>> /\ prefetch' = pp /\ current' = cc /\ RunCopy(Head(prefetch))
      /\ vramCap' = vramCap /\ arena' = arena /\ ram' = ram /\ vram' = vram /\ free' = free
      /\ keySlot' = keySlot /\ overtaken' = overtaken /\ misread' = misread
  BY DEF DevicePrefetch, tiers
<1>2. /\ current \in Seq(OpType) /\ prefetch \in Seq(OpType)
      /\ DOMAIN current = 1..Len(current) /\ Len(current) \in Nat
      /\ pool \in [1..vramCap -> Keys \union {NoKey}] /\ DOMAIN pool = 1..vramCap
  BY DEF CacheInv, StreamsGood
<1>3. /\ pp \in Seq(OpType) /\ Len(pp) \in Nat /\ Len(p) = Len(pp) + 1
      /\ Head(p) = p[1] /\ p[1] \in OpType /\ 1 \in 1..Len(p)
      /\ \A i \in 1..Len(pp) : pp[i] = p[i + 1] /\ i + 1 \in 1..Len(p)
      /\ Later(pp, p, 1)
  BY <1>1, <1>2, TailOps
<1>4. p[1].op = "copy" /\ x \in 1..vramCap /\ p[1].key \in Keys \union {NoKey}
  BY <1>3 DEF CacheInv, StreamsGood, OpType
<1>5. pool' = [pool EXCEPT ![x] = p[1].key] BY <1>1, <1>3 DEF RunCopy
<1>6. /\ pool' \in [1..vramCap -> Keys \union {NoKey}] /\ pool'[x] = p[1].key
      /\ \A s \in DOMAIN pool : s # x => pool'[s] = pool[s]
  <2> HIDE DEF x, p
  <2> QED BY <1>2, <1>4, <1>5
<1>7. \A i \in 1..Len(c) :
        /\ c[i] \in OpType /\ c[i].after \in Nat
        /\ cc[i] = [c[i] EXCEPT !.after = IF c[i].after > 0 THEN c[i].after - 1 ELSE 0]
  <2> SUFFICES ASSUME NEW i \in 1..Len(c)
               PROVE  /\ c[i] \in OpType /\ c[i].after \in Nat
                      /\ cc[i] = [c[i] EXCEPT !.after = IF c[i].after > 0 THEN c[i].after - 1
                                                                        ELSE 0]
    OBVIOUS
  <2>1. i \in DOMAIN current BY <1>2
  <2>2. current[i] \in OpType BY <1>2, <2>1
  <2>3. cc[i] = OneFewer(current[i]) BY <2>1
  <2>4. current[i].after \in Nat BY <2>2 DEF OpType
  <2> QED BY <2>2, <2>3, <2>4 DEF OneFewer
<1>8. \A i \in 1..Len(c) :
        /\ cc[i] \in OpType /\ cc[i].op = c[i].op /\ cc[i].slot = c[i].slot /\ cc[i].key = c[i].key
        /\ cc[i].after = (IF c[i].after > 0 THEN c[i].after - 1 ELSE 0)
  <2> SUFFICES ASSUME NEW i \in 1..Len(c)
               PROVE /\ cc[i] \in OpType /\ cc[i].op = c[i].op
                     /\ cc[i].slot = c[i].slot /\ cc[i].key = c[i].key
                     /\ cc[i].after = (IF c[i].after > 0 THEN c[i].after - 1 ELSE 0)
    OBVIOUS
  <2> DEFINE o == c[i]
             n == IF o.after > 0 THEN o.after - 1 ELSE 0
  <2>1. o \in OpType /\ o.after \in Nat /\ cc[i] = [o EXCEPT !.after = n] BY <1>7
  <2>2. n \in Nat BY <2>1
  <2> HIDE DEF o, n, cc
  <2>3. /\ cc[i] \in OpType /\ cc[i].op = o.op /\ cc[i].slot = o.slot /\ cc[i].key = o.key
        /\ cc[i].after = n
    BY <2>1, <2>2 DEF OpType
  <2> QED BY <2>3 DEF o, n
<1>9. DOMAIN cc = 1..Len(c) BY <1>2
<1>10. cc \in [1..Len(c) -> OpType] BY <1>8, <1>9
<1> HIDE DEF cc, pp
<1>11. cc \in Seq(OpType) /\ Len(cc) = Len(c) BY <1>2, <1>10
<1>12. Later(cc, c, 0) BY <1>2, <1>8, <1>11 DEF Later
<1>13. StreamsGood'
  <2>1. \A i \in 1..Len(cc) : IF cc[i].op = "wait" THEN cc[i].slot = NoSlot
                                                   ELSE cc[i].slot \in 1..vramCap
    BY <1>8, <1>11 DEF CacheInv, StreamsGood
  <2>2. \A i \in 1..Len(pp) : pp[i].op = "copy" /\ pp[i].slot \in 1..vramCap
    BY <1>3 DEF CacheInv, StreamsGood
  <2> HIDE DEF c, p, x
  <2> QED BY <1>1, <1>3, <1>6, <1>11, <2>1, <2>2 DEF StreamsGood
<1>14. ASSUME ~overtaken' PROVE InStep'
  <2>1. InStep BY <1>1, <1>14 DEF CacheInv
  <2>2. OneStream(c, p, x) BY <2>1, <1>4 DEF InStep
  <2>3. x = p[1].slot OBVIOUS
  <2> HIDE DEF c, p, x
  <2>4. \A i \in 1..Len(c) : c[i].after \in Nat /\
            cc[i].after = (IF c[i].after > 0 THEN c[i].after - 1 ELSE 0)
    BY <1>7, <1>8
  <2>11. /\ Later(pp, p, 1) /\ Later(cc, c, 0) /\ p[1].op = "copy" /\ p[1].slot = x
         /\ pool'[x] = p[1].key
         /\ \A s \in DOMAIN pool : s # x => pool'[s] = pool[s]
    BY <1>3, <1>4, <1>6, <1>12, <2>3
  <2>5. /\ \A s \in DOMAIN pool : OneStream(c, p, s) => OneStream(cc, pp, s)
        /\ \A k : \A s \in DOMAIN pool : Settles(c, p, pool, s, k) => Settles(cc, pp, pool', s, k)
        /\ \A k : \A n \in 0..Len(c), s \in DOMAIN pool :
             Finds(c, p, pool, n, s, k) => Finds(cc, pp, pool', n, s, k)
    BY <2>2, <2>4, <2>11, PrefetchDone
  <2>6. ReadsFind(cc, pp, pool')
    <3>1. ASSUME NEW i \in 1..Len(cc), cc[i].op = "read"
          PROVE  Finds(cc, pp, pool', i - 1, cc[i].slot, cc[i].key)
      <4>1. i \in 1..Len(c) /\ i - 1 \in 0..Len(c) BY <1>11
      <4>2. c[i].op = "read" /\ cc[i].slot = c[i].slot /\ cc[i].key = c[i].key
        BY <3>1, <4>1, <1>8
      <4>3. Finds(c, p, pool, i - 1, c[i].slot, c[i].key)
        BY <2>1, <4>1, <4>2 DEF InStep, ReadsFind, c, p
      <4>4. c[i].slot \in DOMAIN pool BY <4>1, <4>2, <1>2 DEF CacheInv, StreamsGood, c
      <4> QED BY <4>1, <4>2, <4>3, <4>4, <2>5
    <3> QED BY <3>1 DEF ReadsFind
  <2>7. \A e \in ToSet(vram) : e.slot # NoSlot => Settles(cc, pp, pool', e.slot, e.key)
    <3>1. \A e \in ToSet(vram) : e.slot # NoSlot => e.slot \in DOMAIN pool
      BY <1>2 DEF CacheInv, TablesGood, Divided, Unslotted
    <3> QED BY <3>1, <2>1, <2>5 DEF InStep, c, p
  <2>8. \A s \in 1..vramCap : OneStream(cc, pp, s) BY <1>2, <2>1, <2>5 DEF InStep, c, p
  <2>9. InStep' = (/\ ~misread'
                   /\ \A e \in ToSet(vram) : e.slot # NoSlot => Settles(cc, pp, pool', e.slot, e.key)
                   /\ ReadsFind(cc, pp, pool')
                   /\ \A s \in 1..vramCap : OneStream(cc, pp, s))
    BY <1>1 DEF InStep
  <2>10. ~misread' BY <1>1, <2>1 DEF InStep
  <2> QED BY <2>6, <2>7, <2>8, <2>9, <2>10
<1>15. TablesGood(vram, keySlot, free, arena, vramCap)' BY <1>1 DEF CacheInv
<1> QED BY <1>1, <1>13, <1>14, <1>15 DEF CacheInv

-----------------------------------------------------------------------------
(***************************************************************************)
(* The inductive invariant of the runner.                                  *)
(*                                                                         *)
(* What is left of a pass is work on experts, then a tail of one of three  *)
(* programs.  The tail is counted from its end, where tasks put in front   *)
(* do not disturb it: the task number j has j - 1 tasks behind it.         *)
(***************************************************************************)
Work == {"prefetch", "get", "expert"}
Kinds == Work \union {"page", "begin", "built", "decoders", "layer", "return"}

Tasked == {t \in [what : Kinds, key : (0 .. Layers) \X (Experts \union {0})] :
             /\ t.what \in Work => t.key \in Keys
             /\ t.what = "layer" => t.key[1] \in 1 .. Layers}

\* StreamedProgram, BuildProgram with the decoders, and the loop over the
\* resident layers, from the end.
StreamedFromEnd ==
  [j \in 1 .. 2 * Layers + 4 |->
     IF j = 1 THEN "return"
     ELSE IF j % 2 = 0 /\ j \in 4 .. 2 * Layers + 2 THEN "layer" ELSE "page"]

BuildFromEnd ==
  [j \in 1 .. 2 * Layers + 6 |->
     IF j = 1 THEN "return"
     ELSE IF j = 2 THEN "decoders"
     ELSE IF j = 2 * Layers + 3 THEN "begin"
     ELSE IF j % 2 = 1 /\ j < 2 * Layers + 3 THEN "built" ELSE "page"]

LoopFromEnd ==
  [j \in 1 .. Layers + 1 |-> IF j = 1 THEN "return" ELSE "layer"]

\* The sequence q is work, then the last m tasks of the program f.
Follows(q, m, f) ==
  /\ m \in 1 .. Len(q) /\ m \in DOMAIN f
  /\ \A i \in 1 .. Len(q) - m : q[i].what \in Work
  /\ \A j \in 1 .. m : q[Len(q) + 1 - j].what = f[j]

\* Where the pass stands in each program, and what it has done by then.
Streaming(m) ==
  /\ ~resident /\ Follows(todo, m, StreamedFromEnd)
  /\ m <= 2 * (Layers - ran) + 3 \/ (ran = 0 /\ m = 2 * Layers + 4)
  /\ m >= 2 * (Layers - ran) + 2 \/ ran = Layers

Building(m) ==
  /\ resident /\ Follows(todo, m, BuildFromEnd) /\ m >= 2 /\ ran = 0
  /\ m >= 2 * Layers + 3 => built = Unbuilt
  /\ m < 2 * Layers + 3 => built \in 0 .. Layers
  /\ 3 <= m /\ m < 2 * Layers + 3 => m \in 2 * (Layers - built) + 1 .. 2 * (Layers - built) + 2
  /\ m = 2 /\ failures = 0 => built = Layers

Looping(m) ==
  /\ resident /\ Follows(todo, m, LoopFromEnd)
  /\ built \in 0 .. Layers /\ m = built - ran + 1
  /\ failures = 0 => built = Layers

Progress == \E m \in 1 .. Len(todo) : Streaming(m) \/ Building(m) \/ Looping(m)

RunnerTypes ==
  /\ resident \in BOOLEAN /\ topK \in 1 .. TopK /\ built \in Unbuilt .. Layers
  /\ lease \in {0, 1} /\ ran \in 0 .. Layers /\ output \in NoOutput .. Layers
  /\ failures \in 0 .. MaxFailures
  /\ todo \in Seq(Tasked)

RunnerInv ==
  /\ RunnerTypes
  /\ lease = 1 => NeedsPage
  /\ ~resident => built = Unbuilt
  /\ EveryLayerRuns /\ ExecutesDistinct
  /\ IF todo = <<>> THEN failures = 0 => built \in {Unbuilt, Layers} ELSE Progress

LEMMA LayersIsNat == Layers \in Nat \ {0} /\ TopK \in Nat \ {0} /\ MaxFailures \in Nat
<1>1. IsFiniteSet(Experts) BY FastCacheAssumption
<1>2. Cardinality(Experts) \in Nat BY <1>1, FS_CardinalityType
<1> QED BY <1>2, FastCacheAssumption, RunnerAssumption

\* The head of the list is done.
LEMMA TaskTail ==
  ASSUME NEW K, NEW q \in Seq(K), q # <<>>
  PROVE  /\ Tail(q) \in Seq(K) /\ Len(q) \in Nat /\ Len(Tail(q)) \in Nat
         /\ Len(q) = Len(Tail(q)) + 1 /\ Head(q) = q[1] /\ 1 \in DOMAIN q /\ q[1] \in K
         /\ DOMAIN q = 1 .. Len(q) /\ DOMAIN Tail(q) = 1 .. Len(Tail(q))
         /\ \A i \in 1 .. Len(Tail(q)) : Tail(q)[i] = q[i + 1]
         /\ Tail(q) = <<>> <=> Len(q) = 1
<1>1. /\ Tail(q) \in Seq(K) /\ Len(q) \in Nat /\ Len(Tail(q)) \in Nat
      /\ Len(q) = Len(Tail(q)) + 1 /\ Head(q) = q[1] /\ 1 \in DOMAIN q /\ q[1] \in K
      /\ DOMAIN q = 1 .. Len(q) /\ DOMAIN Tail(q) = 1 .. Len(Tail(q))
      /\ \A i \in 1 .. Len(Tail(q)) : Tail(q)[i] = q[i + 1]
  OBVIOUS
<1> DEFINE r == Tail(q)
<1> HIDE DEF r
<1>2. r = <<>> <=> Len(r) = 0 BY <1>1 DEF r
<1>3. r = <<>> <=> Len(q) = 1 BY <1>1, <1>2 DEF r
<1> QED BY <1>1, <1>3 DEF r

LEMMA TaskJoin ==
  ASSUME NEW K, NEW q \in Seq(K), NEW x \in Seq(K)
  PROVE  /\ q \o x \in Seq(K) /\ Len(q \o x) = Len(q) + Len(x)
         /\ Len(q) \in Nat /\ Len(x) \in Nat /\ DOMAIN (q \o x) = 1 .. Len(q) + Len(x)
         /\ \A i \in 1 .. Len(q) : (q \o x)[i] = q[i]
         /\ \A i \in 1 .. Len(x) : (q \o x)[Len(q) + i] = x[i]
<1>1. Len(q) \in Nat /\ Len(x) \in Nat OBVIOUS
<1>2. /\ q \o x \in Seq(K) /\ Len(q \o x) = Len(q) + Len(x)
      /\ \A i \in 1 .. Len(q) + Len(x) :
           (q \o x)[i] = IF i <= Len(q) THEN q[i] ELSE x[i - Len(q)]
  BY ConcatProperties
<1>5. DOMAIN (q \o x) = 1 .. Len(q) + Len(x) BY <1>2
<1> DEFINE y == q \o x
<1> HIDE DEF y
<1>3. \A i \in 1 .. Len(q) : y[i] = q[i] BY <1>1, <1>2 DEF y
<1>4. ASSUME NEW i \in 1 .. Len(x) PROVE y[Len(q) + i] = x[i]
  <2>1. Len(q) + i \in 1..Len(q) + Len(x) /\ ~(Len(q) + i <= Len(q)) /\ (Len(q) + i) - Len(q) = i
    BY <1>1
  <2> QED BY <2>1, <1>2 DEF y
<1> QED BY <1>1, <1>2, <1>3, <1>4, <1>5 DEF y

\* r is q with x behind it.
Joins(K, r, q, x) ==
  /\ r \in Seq(K) /\ Len(r) = Len(q) + Len(x)
  /\ \A i \in 1 .. Len(q) : r[i] = q[i]
  /\ \A i \in 1 .. Len(x) : r[Len(q) + i] = x[i]

LEMMA TaskJoined ==
  ASSUME NEW K, NEW q \in Seq(K), NEW x \in Seq(K) PROVE Joins(K, q \o x, q, x)
BY TaskJoin DEF Joins

\* Where the head of the list stands in the program the list follows.
LEMMA FollowsTail ==
  ASSUME NEW K, NEW q \in Seq(K), NEW m, NEW f, Follows(q, m, f),
         \A j \in DOMAIN f : f[j] \notin Work
  PROVE  /\ q # <<>>
         /\ q[1].what \in Work => Follows(Tail(q), m, f)
         /\ q[1].what \notin Work => /\ m = Len(q) /\ q[1].what = f[m]
                                     /\ m = 1 => Tail(q) = <<>>
         /\ q[1].what \notin Work /\ m > 1 /\ m - 1 \in DOMAIN f => Follows(Tail(q), m - 1, f)
<1> DEFINE r == Tail(q)
<1>0. Len(q) \in Nat OBVIOUS
<1>1. m \in 1 .. Len(q) /\ m \in DOMAIN f BY DEF Follows
<1>2. q # <<>> BY <1>0, <1>1
<1>3. /\ Len(r) \in Nat /\ Len(q) = Len(r) + 1
      /\ \A i \in 1 .. Len(r) : r[i] = q[i + 1]
      /\ r = <<>> <=> Len(q) = 1
  BY <1>2, TaskTail
<1> HIDE DEF r
<1>4. /\ \A i \in 1 .. Len(q) - m : q[i].what \in Work
      /\ \A j \in 1 .. m : q[Len(q) + 1 - j].what = f[j]
  BY DEF Follows
<1>5. q[Len(q) + 1 - m].what = f[m] /\ f[m] \notin Work BY <1>1, <1>4
<1>6. ASSUME NEW n \in 1 .. Len(r), n <= m
      PROVE  \A j \in 1 .. n : r[Len(r) + 1 - j].what = f[j]
  <2> TAKE j \in 1 .. n
  <2>1. j \in 1 .. m /\ Len(r) + 1 - j \in 1 .. Len(r) /\ (Len(r) + 1 - j) + 1 = Len(q) + 1 - j
    BY <1>0, <1>1, <1>3, <1>6
  <2> QED BY <2>1, <1>3, <1>4
<1>7. CASE q[1].what \in Work
  <2>1. m # Len(q) BY <1>5, <1>7, <1>0, <1>1
  <2>2. m \in 1 .. Len(r) BY <2>1, <1>0, <1>1, <1>3
  <2>3. \A i \in 1 .. Len(r) - m : i + 1 \in 1 .. Len(q) - m /\ i \in 1 .. Len(r)
    BY <1>0, <1>1, <1>3
  <2>4. Follows(r, m, f) BY <2>2, <2>3, <1>1, <1>3, <1>4, <1>6 DEF Follows
  <2> QED BY <2>4, <1>2, <1>7 DEF r
<1>8. CASE q[1].what \notin Work
  <2>1. m = Len(q)
    <3>1. m < Len(q) => 1 \in 1 .. Len(q) - m BY <1>0, <1>1
    <3> QED BY <3>1, <1>0, <1>1, <1>4, <1>8
  <2>2. q[1].what = f[m] BY <2>1, <1>0, <1>5
  <2>3. m = 1 => r = <<>> BY <2>1, <1>3
  <2>4. ASSUME m > 1, m - 1 \in DOMAIN f PROVE Follows(r, m - 1, f)
    <3>1. m - 1 \in 1 .. Len(r) /\ m - 1 <= m /\ Len(r) - (m - 1) = 0
      BY <2>1, <2>4, <1>0, <1>1, <1>3
    <3>2. \A j \in 1 .. m - 1 : r[Len(r) + 1 - j].what = f[j] BY <3>1, <1>6
    <3> QED BY <2>4, <3>1, <3>2 DEF Follows
  <2> QED BY <2>1, <2>2, <2>3, <2>4, <1>2, <1>8 DEF r
<1> QED BY <1>7, <1>8

\* Work is put in front.
LEMMA FollowsJoined ==
  ASSUME NEW K, NEW x \in Seq(K), NEW q \in Seq(K), NEW m, NEW f, Follows(q, m, f), m = Len(q),
         \A i \in 1 .. Len(x) : x[i].what \in Work
  PROVE  Follows(x \o q, m, f)
<1> DEFINE r == x \o q
<1>1. /\ Len(r) = Len(x) + Len(q) /\ Len(x) \in Nat /\ Len(q) \in Nat
      /\ \A i \in 1 .. Len(x) : r[i] = x[i]
      /\ \A i \in 1 .. Len(q) : r[Len(x) + i] = q[i]
  BY TaskJoin
<1> HIDE DEF r
<1>2. m \in 1 .. Len(q) /\ m \in DOMAIN f /\ \A j \in 1 .. m : q[Len(q) + 1 - j].what = f[j]
  BY DEF Follows
<1>3. m \in 1 .. Len(r) BY <1>1, <1>2
<1>4. \A i \in 1 .. Len(r) - m : r[i].what \in Work BY <1>1
<1>5. ASSUME NEW j \in 1 .. m PROVE r[Len(r) + 1 - j].what = f[j]
  <2>1. Len(q) + 1 - j \in 1 .. Len(q) /\ Len(r) + 1 - j = Len(x) + (Len(q) + 1 - j)
    BY <1>1, <1>2
  <2> QED BY <2>1, <1>1, <1>2
<1> QED BY <1>2, <1>3, <1>4, <1>5 DEF Follows, r

\* The experts a list executes are different ones.
Distinctly(q) ==
  \A i, j \in DOMAIN q : Executes(q[i]) /\ Executes(q[j]) /\ q[i].key = q[j].key => i = j

LEMMA DistinctTail ==
  ASSUME NEW K, NEW q \in Seq(K), q # <<>>, Distinctly(q) PROVE Distinctly(Tail(q))
<1> DEFINE r == Tail(q)
<1>1. /\ Len(q) \in Nat /\ DOMAIN q = 1 .. Len(q) /\ DOMAIN r = 1 .. Len(r) /\ Len(r) \in Nat
      /\ Len(q) = Len(r) + 1 /\ \A i \in 1 .. Len(r) : r[i] = q[i + 1]
  BY TaskTail
<1> HIDE DEF r
<1>2. ASSUME NEW i \in DOMAIN r, NEW j \in DOMAIN r,
             Executes(r[i]), Executes(r[j]), r[i].key = r[j].key
      PROVE  i = j
  <2>1. r[i] = q[i + 1] /\ r[j] = q[j + 1] /\ i + 1 \in DOMAIN q /\ j + 1 \in DOMAIN q BY <1>1
  <2>2. i + 1 = j + 1 BY <1>2, <2>1 DEF Distinctly
  <2> QED BY <2>2, <1>1
<1>3. Distinctly(r) BY <1>2 DEF Distinctly
<1> QED BY <1>3 DEF r

\* What executes nothing, put in front or behind, changes nothing.
LEMMA DistinctJoined ==
  ASSUME NEW K, NEW x \in Seq(K), NEW q \in Seq(K)
  PROVE  /\ Distinctly(q) /\ (\A i \in 1 .. Len(x) : ~Executes(x[i])) => Distinctly(x \o q)
         /\ Distinctly(x) /\ (\A i \in 1 .. Len(q) : ~Executes(q[i])) => Distinctly(x \o q)
<1> DEFINE r == x \o q
<1>1. /\ Len(r) = Len(x) + Len(q) /\ Len(x) \in Nat /\ Len(q) \in Nat
      /\ DOMAIN r = 1 .. Len(x) + Len(q)
      /\ \A i \in 1 .. Len(x) : r[i] = x[i]
      /\ \A i \in 1 .. Len(q) : r[Len(x) + i] = q[i]
  BY TaskJoin
<1>2. DOMAIN x = 1 .. Len(x) /\ DOMAIN q = 1 .. Len(q) OBVIOUS
<1> HIDE DEF r
<1>3. \A i \in DOMAIN r : \/ i \in DOMAIN x /\ r[i] = x[i]
                          \/ i - Len(x) \in DOMAIN q /\ r[i] = q[i - Len(x)]
  <2> TAKE i \in DOMAIN r
  <2>1. CASE i \in 1 .. Len(x) BY <2>1, <1>1, <1>2
  <2>2. CASE i \notin 1 .. Len(x)
    <3>1. i \in Int /\ i - Len(x) \in 1 .. Len(q) /\ Len(x) + (i - Len(x)) = i BY <2>2, <1>1
    <3> QED BY <3>1, <1>1, <1>2
  <2> QED BY <2>1, <2>2
<1>4. ASSUME Distinctly(q), \A i \in 1 .. Len(x) : ~Executes(x[i]) PROVE Distinctly(r)
  <2>1. ASSUME NEW i \in DOMAIN r, NEW j \in DOMAIN r,
               Executes(r[i]), Executes(r[j]), r[i].key = r[j].key
        PROVE  i = j
    <3>1. /\ i - Len(x) \in DOMAIN q /\ r[i] = q[i - Len(x)]
          /\ j - Len(x) \in DOMAIN q /\ r[j] = q[j - Len(x)]
      BY <2>1, <1>2, <1>3, <1>4
    <3>2. i - Len(x) = j - Len(x) BY <3>1, <2>1, <1>4 DEF Distinctly
    <3> QED BY <3>2, <1>1
  <2> QED BY <2>1 DEF Distinctly
<1>5. ASSUME Distinctly(x), \A i \in 1 .. Len(q) : ~Executes(q[i]) PROVE Distinctly(r)
  <2>1. ASSUME NEW i \in DOMAIN r, NEW j \in DOMAIN r,
               Executes(r[i]), Executes(r[j]), r[i].key = r[j].key
        PROVE  i = j
    <3>1. i \in DOMAIN x /\ r[i] = x[i] /\ j \in DOMAIN x /\ r[j] = x[j]
      BY <2>1, <1>2, <1>3, <1>5
    <3> QED BY <3>1, <2>1, <1>5 DEF Distinctly
  <2> QED BY <2>1 DEF Distinctly
<1> QED BY <1>4, <1>5 DEF r

-----------------------------------------------------------------------------
(***************************************************************************)
(* The programs of a pass.                                                 *)
(***************************************************************************)

LEMMA TaskFacts ==
  /\ \A what \in {"page", "begin", "decoders", "return"} :
       Task(what, NoKey) \in Tasked /\ Task(what, NoKey).what = what
  /\ Page \in Tasked /\ Page.what = "page"
  /\ \A l \in 1 .. Layers : \A what \in {"built", "layer"} :
       Task(what, <<l, 0>>) \in Tasked /\ Task(what, <<l, 0>>).what = what
  /\ \A key \in Keys : \A what \in Work :
       /\ Task(what, key) \in Tasked
       /\ Task(what, key).what = what /\ Task(what, key).key = key
<1>1. 0 \in 0 .. Layers BY LayersIsNat
<1>2. NoKey \in (0 .. Layers) \X (Experts \union {0}) BY <1>1 DEF NoKey
<1>3. ASSUME NEW what \in {"page", "begin", "decoders", "return"}
      PROVE  Task(what, NoKey) \in Tasked /\ Task(what, NoKey).what = what
  BY <1>2 DEF Tasked, Task, Work, Kinds
<1>4. ASSUME NEW l \in 1 .. Layers, NEW what \in {"built", "layer"}
      PROVE  Task(what, <<l, 0>>) \in Tasked /\ Task(what, <<l, 0>>).what = what
  <2>1. <<l, 0>> \in (0 .. Layers) \X (Experts \union {0}) /\ <<l, 0>>[1] = l BY LayersIsNat
  <2> QED BY <2>1 DEF Tasked, Task, Work, Kinds
<1>5. ASSUME NEW key \in Keys, NEW what \in Work
      PROVE  /\ Task(what, key) \in Tasked
             /\ Task(what, key).what = what /\ Task(what, key).key = key
  <2>1. key \in (0 .. Layers) \X (Experts \union {0}) BY LayersIsNat DEF Keys
  <2> QED BY <2>1 DEF Tasked, Task, Work, Kinds
<1>6. Page \in Tasked /\ Page.what = "page" BY <1>3 DEF Page
<1> QED BY <1>3, <1>4, <1>5, <1>6

LEMMA LayerByLayerFacts ==
  ASSUME NEW what \in {"built", "layer"}
  PROVE  /\ LayerByLayer(what) \in Seq(Tasked) /\ Len(LayerByLayer(what)) = 2 * Layers
         /\ \A i \in 1 .. 2 * Layers :
              LayerByLayer(what)[i].what = IF i % 2 = 0 THEN what ELSE "page"
<1>1. ASSUME NEW i \in 1 .. 2 * Layers
      PROVE  /\ LayerByLayer(what)[i] \in Tasked
             /\ LayerByLayer(what)[i].what = IF i % 2 = 0 THEN what ELSE "page"
  <2>1. i \in Nat /\ i % 2 \in {0, 1} BY LayersIsNat
  <2>2. CASE i % 2 = 1
    <3>1. LayerByLayer(what)[i] = Page BY <2>2 DEF LayerByLayer
    <3> QED BY <2>2, <3>1, TaskFacts
  <2>3. CASE i % 2 = 0
    <3>1. LayerByLayer(what)[i] = Task(what, <<i \div 2, 0>>) BY <2>3 DEF LayerByLayer
    <3>2. i \div 2 \in 1 .. Layers BY <2>3, LayersIsNat
    <3> QED BY <2>3, <3>1, <3>2, TaskFacts
  <2> QED BY <2>1, <2>2, <2>3
<1>2. 2 * Layers \in Nat BY LayersIsNat
<1> DEFINE s == LayerByLayer(what)
           n == 2 * Layers
<1>3. s = [i \in 1 .. n |-> s[i]] BY DEF LayerByLayer
<1> HIDE DEF s, n
<1>4. s \in [1 .. n -> Tasked] BY <1>1, <1>3 DEF s, n
<1>5. s \in Seq(Tasked) /\ Len(s) = n BY <1>2, <1>4 DEF n
<1> QED BY <1>1, <1>5 DEF s, n

\* run without a resident backbone
LEMMA StreamedProgramFacts ==
  /\ StreamedProgram \in Seq(Tasked) /\ Len(StreamedProgram) = 2 * Layers + 4
  /\ Follows(StreamedProgram, 2 * Layers + 4, StreamedFromEnd)
<1> DEFINE s == LayerByLayer("layer")
           z == <<Page, Page, Task("return", NoKey)>>
           q == StreamedProgram
<1>1. /\ s \in Seq(Tasked) /\ Len(s) = 2 * Layers
      /\ \A i \in 1 .. 2 * Layers : s[i].what = IF i % 2 = 0 THEN "layer" ELSE "page"
  BY LayerByLayerFacts
<1>2. /\ z \in Seq(Tasked) /\ Len(z) = 3 /\ z[1].what = "page" /\ z[2].what = "page"
      /\ z[3].what = "return" /\ <<Page>> \in Seq(Tasked) /\ Len(<<Page>>) = 1
      /\ <<Page>>[1].what = "page"
  BY TaskFacts
<1>3. q = (<<Page>> \o s) \o z BY DEF StreamedProgram
<1> DEFINE y == <<Page>> \o s
<1> HIDE DEF s, z, q
<1>4. /\ y \in Seq(Tasked) /\ Len(y) = 2 * Layers + 1 /\ y[1].what = "page"
      /\ \A i \in 1 .. 2 * Layers : y[1 + i] = s[i]
  BY <1>1, <1>2, LayersIsNat, TaskJoin
<1> HIDE DEF y
<1>5. /\ q \in Seq(Tasked) /\ Len(q) = 2 * Layers + 4
      /\ \A i \in 1 .. 2 * Layers + 1 : q[i] = y[i]
      /\ \A i \in 1 .. 3 : q[2 * Layers + 1 + i] = z[i]
  <2>1. q = y \o z BY <1>3 DEF y
  <2>2. Layers \in Nat /\ Len(y) = 2 * Layers + 1 /\ Len(z) = 3 BY <1>2, <1>4, LayersIsNat
  <2>3. /\ q \in Seq(Tasked) /\ Len(q) = Len(y) + Len(z)
        /\ \A i \in 1 .. Len(y) : q[i] = y[i]
        /\ \A i \in 1 .. Len(z) : q[Len(y) + i] = z[i]
    <3>1. y \in Seq(Tasked) /\ z \in Seq(Tasked) BY <1>2, <1>4
    <3>2. Joins(Tasked, y \o z, y, z) BY <3>1, TaskJoined
    <3>3. Joins(Tasked, q, y, z) BY <2>1, <3>2
    <3> QED BY <3>3 DEF Joins
  <2> QED BY <2>2, <2>3
<1>6. ASSUME NEW j \in 1 .. 2 * Layers + 4
      PROVE  q[Len(q) + 1 - j].what = StreamedFromEnd[j]
  <2>0. Layers \in Nat \ {0} BY LayersIsNat
  <2>1. StreamedFromEnd[j] = IF j = 1 THEN "return"
          ELSE IF j % 2 = 0 /\ j \in 4 .. 2 * Layers + 2 THEN "layer" ELSE "page"
    BY DEF StreamedFromEnd
  <2>2. CASE j \in 1 .. 3
    <3>1. 4 - j \in 1 .. 3 /\ Len(q) + 1 - j = 2 * Layers + 1 + (4 - j) BY <2>0, <2>2, <1>5
    <3>2. q[Len(q) + 1 - j] = z[4 - j] BY <3>1, <1>5
    <3> QED BY <2>0, <2>1, <2>2, <3>2, <1>2
  <2>3. CASE j \in 4 .. 2 * Layers + 3
    <3> DEFINE i == 2 * Layers + 4 - j
    <3>1. i \in 1 .. 2 * Layers /\ 1 + i \in 1 .. 2 * Layers + 1 /\ Len(q) + 1 - j = 1 + i
      BY <2>0, <2>3, <1>5
    <3>2. i % 2 = 0 <=> j % 2 = 0 BY <2>0, <2>3
    <3>3. j = 2 * Layers + 3 => j % 2 # 0 BY <2>0
    <3>4. q[Len(q) + 1 - j] = s[i] BY <3>1, <1>4, <1>5
    <3> HIDE DEF i
    <3> QED BY <2>0, <2>1, <2>3, <3>1, <3>2, <3>3, <3>4, <1>1
  <2>4. CASE j = 2 * Layers + 4
    <3>1. Len(q) + 1 - j = 1 /\ 1 \in 1 .. 2 * Layers + 1 BY <2>0, <2>4, <1>5
    <3> QED BY <2>0, <2>1, <2>4, <3>1, <1>4, <1>5
  <2> QED BY <2>0, <2>2, <2>3, <2>4
<1>7. 2 * Layers + 4 \in 1 .. Len(q) /\ 2 * Layers + 4 \in DOMAIN StreamedFromEnd
  BY <1>5, LayersIsNat DEF StreamedFromEnd
<1>8. 1 .. Len(q) - (2 * Layers + 4) = {} BY <1>5, LayersIsNat
<1> QED BY <1>5, <1>6, <1>7, <1>8 DEF Follows, q

\* run with a resident backbone that is not there yet, and with one
LEMMA ResidentProgramFacts ==
  LET n == IF built = Unbuilt THEN 2 * Layers + 6 ELSE 2
  IN  /\ ResidentProgram \in Seq(Tasked) /\ Len(ResidentProgram) = n
      /\ Follows(ResidentProgram, n, BuildFromEnd)
<1> DEFINE s == LayerByLayer("built")
           b == <<Page, Page, Page, Task("begin", NoKey)>>
           z == <<Task("decoders", NoKey), Task("return", NoKey)>>
           q == ResidentProgram
           n == IF built = Unbuilt THEN 2 * Layers + 6 ELSE 2
<1>0. Layers \in Nat \ {0} BY LayersIsNat
<1>1. /\ s \in Seq(Tasked) /\ Len(s) = 2 * Layers
      /\ \A i \in 1 .. 2 * Layers : s[i].what = IF i % 2 = 0 THEN "built" ELSE "page"
  BY LayerByLayerFacts
<1>2. /\ z \in Seq(Tasked) /\ Len(z) = 2 /\ z[1].what = "decoders" /\ z[2].what = "return"
  BY TaskFacts
<1>3. /\ b \in Seq(Tasked) /\ Len(b) = 4 /\ b[1].what = "page" /\ b[2].what = "page"
      /\ b[3].what = "page" /\ b[4].what = "begin"
  BY TaskFacts
<1>4. q = (IF built = Unbuilt THEN b \o s ELSE <<>>) \o z BY DEF ResidentProgram, BuildProgram
<1> HIDE DEF s, b, z, q
<1>5. ASSUME NEW j \in 1 .. 2 * Layers + 6
      PROVE  BuildFromEnd[j] = (IF j = 1 THEN "return"
               ELSE IF j = 2 THEN "decoders"
               ELSE IF j = 2 * Layers + 3 THEN "begin"
               ELSE IF j % 2 = 1 /\ j < 2 * Layers + 3 THEN "built" ELSE "page")
  BY DEF BuildFromEnd
<1>6. CASE built = Unbuilt
  <2> DEFINE y == b \o s
  <2>1. /\ y \in Seq(Tasked) /\ Len(y) = 2 * Layers + 4
        /\ \A i \in 1 .. 4 : y[i] = b[i]
        /\ \A i \in 1 .. 2 * Layers : y[4 + i] = s[i]
    <3>1. y = b \o s OBVIOUS
    <3> HIDE DEF y
    <3>2. /\ y \in Seq(Tasked) /\ Len(y) = Len(b) + Len(s)
          /\ \A i \in 1 .. Len(b) : y[i] = b[i]
          /\ \A i \in 1 .. Len(s) : y[Len(b) + i] = s[i]
      <4>1. b \in Seq(Tasked) /\ s \in Seq(Tasked) BY <1>1, <1>3
      <4>2. Joins(Tasked, b \o s, b, s) BY <4>1, TaskJoined
      <4>3. Joins(Tasked, y, b, s) BY <3>1, <4>2
      <4> QED BY <4>3 DEF Joins
    <3> QED BY <1>0, <1>1, <1>3, <3>2
  <2> HIDE DEF y
  <2>2. /\ q \in Seq(Tasked) /\ Len(q) = 2 * Layers + 6
        /\ \A i \in 1 .. 2 * Layers + 4 : q[i] = y[i]
        /\ \A i \in 1 .. 2 : q[2 * Layers + 4 + i] = z[i]
    <3>1. q = y \o z BY <1>4, <1>6 DEF y
    <3>2. /\ q \in Seq(Tasked) /\ Len(q) = Len(y) + Len(z)
          /\ \A i \in 1 .. Len(y) : q[i] = y[i]
          /\ \A i \in 1 .. Len(z) : q[Len(y) + i] = z[i]
      <4>1. y \in Seq(Tasked) /\ z \in Seq(Tasked) BY <1>2, <2>1
      <4>2. Joins(Tasked, y \o z, y, z) BY <4>1, TaskJoined
      <4>3. Joins(Tasked, q, y, z) BY <3>1, <4>2
      <4> QED BY <4>3 DEF Joins
    <3> QED BY <1>0, <1>2, <2>1, <3>2
  <2>3. ASSUME NEW j \in 1 .. 2 * Layers + 6 PROVE q[Len(q) + 1 - j].what = BuildFromEnd[j]
    <3>1. CASE j \in 1 .. 2
      <4>1. 3 - j \in 1 .. 2 /\ Len(q) + 1 - j = 2 * Layers + 4 + (3 - j) BY <1>0, <2>2, <3>1
      <4>2. q[Len(q) + 1 - j] = z[3 - j] BY <4>1, <2>2
      <4> QED BY <1>0, <1>2, <1>5, <3>1, <4>2
    <3>2. CASE j \in 3 .. 2 * Layers + 2
      <4> DEFINE i == 2 * Layers + 3 - j
      <4>1. i \in 1 .. 2 * Layers /\ 4 + i \in 1 .. 2 * Layers + 4 /\ Len(q) + 1 - j = 4 + i
        BY <1>0, <2>2, <3>2
      <4>2. i % 2 = 0 <=> j % 2 = 1 BY <1>0, <3>2
      <4>3. q[Len(q) + 1 - j] = s[i] BY <4>1, <2>1, <2>2
      <4> HIDE DEF i
      <4> QED BY <1>0, <1>1, <1>5, <3>2, <4>1, <4>2, <4>3
    <3>3. CASE j \in 2 * Layers + 3 .. 2 * Layers + 6
      <4> DEFINE i == 2 * Layers + 7 - j
      <4>1. i \in 1 .. 4 /\ i \in 1 .. 2 * Layers + 4 /\ Len(q) + 1 - j = i
        BY <1>0, <2>2, <3>3
      <4>2. q[Len(q) + 1 - j] = b[i] BY <4>1, <2>1, <2>2
      <4>3. i = 4 <=> j = 2 * Layers + 3 BY <1>0, <3>3
      <4> HIDE DEF i
      <4> QED BY <1>0, <1>3, <1>5, <3>3, <4>1, <4>2, <4>3
    <3> QED BY <1>0, <3>1, <3>2, <3>3
  <2>4. n = 2 * Layers + 6 /\ n \in 1 .. Len(q) /\ n \in DOMAIN BuildFromEnd /\ 1 .. Len(q) - n = {}
    BY <1>0, <1>6, <2>2 DEF BuildFromEnd
  <2> QED BY <2>2, <2>3, <2>4 DEF Follows, q
<1>7. CASE built # Unbuilt
  <2>1. q = z BY <1>2, <1>4, <1>7
  <2>2. ASSUME NEW j \in 1 .. 2 PROVE q[Len(q) + 1 - j].what = BuildFromEnd[j]
    <3>1. j \in 1 .. 2 * Layers + 6 BY <1>0
    <3>2. Len(q) = 2 BY <1>2, <2>1
    <3>3. q[Len(q) + 1 - j] = z[3 - j] BY <2>1, <3>2
    <3>4. j = 1 \/ j = 2 OBVIOUS
    <3> QED BY <1>2, <1>5, <3>1, <3>3, <3>4
  <2>3. n = 2 /\ n \in 1 .. Len(q) /\ n \in DOMAIN BuildFromEnd /\ 1 .. Len(q) - n = {}
    <3>1. Len(q) = 2 /\ n = 2 BY <1>2, <1>7, <2>1
    <3>2. 2 \in DOMAIN BuildFromEnd BY <1>0 DEF BuildFromEnd
    <3> HIDE DEF n
    <3> QED BY <3>1, <3>2
  <2> QED BY <1>2, <2>1, <2>2, <2>3 DEF Follows, q
<1> QED BY <1>6, <1>7 DEF q

\* The loop over the resident layers, in front of the return.
LEMMA LoopFacts ==
  ASSUME built \in 0 .. Layers, NEW q \in Seq(Tasked), Len(q) = 1, q[1].what = "return"
  PROVE  /\ DecoderLoop \in Seq(Tasked) /\ Len(DecoderLoop) = built
         /\ \A l \in 1 .. built : DecoderLoop[l].what = "layer"
         /\ Follows(DecoderLoop \o q, built + 1, LoopFromEnd)
<1>0. Layers \in Nat \ {0} /\ built \in Nat BY LayersIsNat
<1> DEFINE d == DecoderLoop
<1>1. \A l \in 1 .. built : d[l] \in Tasked /\ d[l].what = "layer"
  <2> TAKE l \in 1 .. built
  <2>1. d[l] = Task("layer", <<l, 0>>) BY DEF DecoderLoop, Layer
  <2>2. l \in 1 .. Layers BY <1>0
  <2> HIDE DEF d
  <2> QED BY <2>1, <2>2, TaskFacts
<1>2. d = [l \in 1 .. built |-> d[l]] BY DEF DecoderLoop
<1> HIDE DEF d
<1>3. d \in [1 .. built -> Tasked] BY <1>1, <1>2
<1>4. d \in Seq(Tasked) /\ Len(d) = built BY <1>0, <1>3
<1> DEFINE r == d \o q
<1>10. r = d \o q OBVIOUS
<1> HIDE DEF r
<1>11. /\ Len(r) = Len(d) + Len(q) /\ \A i \in 1 .. Len(d) : r[i] = d[i]
       /\ \A i \in 1 .. Len(q) : r[Len(d) + i] = q[i]
  <2>1. d \in Seq(Tasked) /\ q \in Seq(Tasked) BY <1>4
  <2>2. Joins(Tasked, d \o q, d, q) BY <2>1, TaskJoined
  <2>3. Joins(Tasked, r, d, q) BY <1>10, <2>2
  <2> QED BY <2>3 DEF Joins
<1>5. Len(r) = built + 1 /\ \A i \in 1 .. built : r[i] = d[i] BY <1>0, <1>4, <1>11
<1>7. r[built + 1] = q[1]
  <2>1. 1 \in 1 .. Len(q) OBVIOUS
  <2> QED BY <2>1, <1>4, <1>11
<1>6. ASSUME NEW j \in 1 .. built + 1 PROVE r[Len(r) + 1 - j].what = LoopFromEnd[j]
  <2>1. LoopFromEnd[j] = IF j = 1 THEN "return" ELSE "layer" BY <1>0 DEF LoopFromEnd
  <2>2. CASE j = 1 BY <2>1, <2>2, <1>0, <1>5, <1>7
  <2>3. CASE j # 1
    <3>1. Len(r) + 1 - j \in 1 .. built BY <2>3, <1>0, <1>5
    <3>2. r[Len(r) + 1 - j] = d[Len(r) + 1 - j] BY <3>1, <1>5
    <3> QED BY <2>1, <2>3, <3>1, <3>2, <1>1
  <2> QED BY <2>2, <2>3
<1>8. /\ built + 1 \in 1 .. Len(r) /\ built + 1 \in DOMAIN LoopFromEnd
      /\ 1 .. Len(r) - (built + 1) = {}
  BY <1>0, <1>5 DEF LoopFromEnd
<1>9. Follows(r, built + 1, LoopFromEnd) BY <1>6, <1>8 DEF Follows
<1> QED BY <1>1, <1>4, <1>9 DEF d, r

-----------------------------------------------------------------------------
(***************************************************************************)
(* The routing of a layer.                                                 *)
(***************************************************************************)

\* A ranking has every expert in it.
LEMMA RankingFacts ==
  ASSUME NEW ranking \in Rankings
  PROVE  /\ ranking \in Distinct(Experts) /\ Len(ranking) = Cardinality(Experts)
         /\ DOMAIN ranking = 1 .. Cardinality(Experts)
         /\ \A e \in Experts : \E i \in DOMAIN ranking : ranking[i] = e
<1> DEFINE n == Cardinality(Experts)
<1>1. IsFiniteSet(Experts) /\ n \in Nat BY FastCacheAssumption, FS_CardinalityType
<1>2. ranking \in [1 .. n -> Experts] /\ IsInjective(ranking) BY DEF Rankings
<1>3. ranking \in Injection(1 .. n, Experts) BY <1>2 DEF IsInjective, Injection
<1>4. Cardinality(1 .. n) = n BY <1>1, FS_Interval
<1>5. ranking \in Surjection(1 .. n, Experts) BY <1>1, <1>3, <1>4, FS_Injection
<1>6. \A e \in Experts : \E i \in 1 .. n : ranking[i] = e BY <1>5 DEF Surjection
<1> HIDE DEF n
<1>7. ranking \in Seq(Experts) /\ Len(ranking) = n /\ DOMAIN ranking = 1 .. n BY <1>1, <1>2
<1> QED BY <1>2, <1>6, <1>7 DEF Distinct, n

LEMMA BestFacts ==
  ASSUME NEW ranking \in Rankings, NEW S, S \subseteq Experts, S # {}
  PROVE  Best(ranking, S) \in S
<1> DEFINE R == Ranks(ranking, S)
           i == CHOOSE k \in R : \A j \in R : k <= j
<1>1. /\ DOMAIN ranking = 1 .. Cardinality(Experts)
      /\ \A e \in Experts : \E k \in DOMAIN ranking : ranking[k] = e
  BY RankingFacts
<1>2. Cardinality(Experts) \in Nat BY FastCacheAssumption, FS_CardinalityType
<1>3. R \in SUBSET Nat /\ R # {} /\ \A k \in R : ranking[k] \in S BY <1>1, <1>2 DEF Ranks
<1> HIDE DEF R
<1>4. \E k \in R : \A j \in R : k <= j BY <1>3, LeastNumber
<1>5. i \in R BY <1>4
<1>6. Best(ranking, S) = ranking[i] BY DEF Best, R
<1> HIDE DEF i
<1> QED BY <1>3, <1>5, <1>6

\* The experts of a token are different ones, and commit routing keeps them so.
LEMMA ChosenFacts ==
  ASSUME topK \in 1 .. TopK, NEW l, NEW ranking \in Rankings, NEW commit, NEW near
  PROVE  Chosen(l, ranking, commit, near) \in Distinct(Experts)
<1> DEFINE t == TopOf(ranking)
           others == Available(l, t)
<1>0. topK \in 1 .. Cardinality(Experts)
  <2>1. Cardinality(Experts) \in Nat BY FastCacheAssumption, FS_CardinalityType
  <2> QED BY <2>1, RunnerAssumption
<1>1. ranking \in Distinct(Experts) /\ Len(ranking) = Cardinality(Experts) BY RankingFacts
<1>2. t \in Distinct(Experts) /\ t # <<>>
  <2>1. /\ ranking \in Seq(Experts) /\ Len(ranking) \in Nat /\ DOMAIN ranking = 1 .. Len(ranking)
        /\ IsInjective(ranking)
    BY <1>1 DEF Distinct
  <2>2. t = SubSeq(ranking, 1, topK) BY DEF TopOf
  <2> HIDE DEF t
  <2>3. t \in Seq(Experts) /\ Len(t) = topK /\ \A i \in 1 .. topK : t[i] = ranking[i]
    BY <2>1, <2>2, <1>0, <1>1
  <2>4. DOMAIN t = 1 .. topK /\ t # <<>> BY <2>3, <1>0
  <2>5. IsInjective(t) BY <2>1, <2>3, <2>4, <1>0, <1>1 DEF IsInjective
  <2> QED BY <2>3, <2>4, <2>5 DEF Distinct
<1> HIDE DEF t
<1>3. CASE Chosen(l, ranking, commit, near) = t BY <1>2, <1>3
<1>4. CASE /\ Chosen(l, ranking, commit, near) = Append(Front(t), Best(ranking, others))
           /\ others # {}
  <2>1. others \subseteq Experts /\ others \cap ToSet(t) = {} BY DEF Available
  <2> HIDE DEF others
  <2>2. Best(ranking, others) \in others BY <2>1, <1>4, BestFacts
  <2>3. Front(t) \in Distinct(Experts) /\ ToSet(Front(t)) \subseteq ToSet(t)
    BY <1>2, PoppedLast
  <2>4. Best(ranking, others) \in Experts /\ Best(ranking, others) \notin ToSet(Front(t))
    BY <2>1, <2>2, <2>3
  <2> QED BY <1>4, <2>3, <2>4, AppendFacts
<1>5. \/ Chosen(l, ranking, commit, near) = t
      \/ /\ Chosen(l, ranking, commit, near) = Append(Front(t), Best(ranking, others))
         /\ others # {}
  BY DEF Chosen, Committed, t
<1> QED BY <1>3, <1>4, <1>5

LEMMA TasksFacts ==
  ASSUME NEW what \in Work, NEW l \in 1 .. Layers, NEW chosen \in Distinct(Experts)
  PROVE  /\ Tasks(what, l, chosen) \in Seq(Tasked)
         /\ \A i \in 1 .. Len(Tasks(what, l, chosen)) : Tasks(what, l, chosen)[i].what = what
         /\ Distinctly(Tasks(what, l, chosen))
<1> DEFINE q == Tasks(what, l, chosen)
<1>1. /\ chosen \in Seq(Experts) /\ Len(chosen) \in Nat /\ DOMAIN chosen = 1 .. Len(chosen)
      /\ IsInjective(chosen)
  BY DEF Distinct
<1>2. ASSUME NEW i \in 1 .. Len(chosen)
      PROVE  q[i] \in Tasked /\ q[i].what = what /\ q[i].key = <<l, chosen[i]>>
  <2>1. q[i] = Task(what, <<l, chosen[i]>>) BY <1>1 DEF Tasks
  <2>2. chosen[i] \in Experts BY <1>1
  <2>3. <<l, chosen[i]>> \in Keys BY <2>2 DEF Keys
  <2> HIDE DEF q
  <2> QED BY <2>1, <2>3, TaskFacts
<1>3. q = [i \in 1 .. Len(chosen) |-> q[i]] BY <1>1 DEF Tasks
<1> HIDE DEF q
<1>4. q \in [1 .. Len(chosen) -> Tasked] BY <1>2, <1>3
<1>5. q \in Seq(Tasked) /\ Len(q) = Len(chosen) /\ DOMAIN q = 1 .. Len(chosen) BY <1>1, <1>4
<1>6. ASSUME NEW i \in DOMAIN q, NEW j \in DOMAIN q, q[i].key = q[j].key PROVE i = j
  <2>1. i \in DOMAIN chosen /\ j \in DOMAIN chosen BY <1>1, <1>5
  <2>2. <<l, chosen[i]>> = <<l, chosen[j]>> BY <1>2, <1>5, <1>6
  <2>3. chosen[i] = chosen[j] BY <2>2
  <2> QED BY <2>1, <2>3, <1>1 DEF IsInjective
<1>7. Distinctly(q) BY <1>6 DEF Distinctly
<1> QED BY <1>2, <1>5, <1>7 DEF q

LEMMA MoeTasksFacts ==
  ASSUME NEW l \in 1 .. Layers, NEW chosen \in Distinct(Experts)
  PROVE  /\ MoeTasks(l, chosen) \in Seq(Tasked)
         /\ \A i \in 1 .. Len(MoeTasks(l, chosen)) : MoeTasks(l, chosen)[i].what \in Work
         /\ Distinctly(MoeTasks(l, chosen))
<1>0. Layers \in Nat BY LayersIsNat
<1>1. CASE ~resident
  <2>1. MoeTasks(l, chosen) = Tasks("expert", l, chosen) BY <1>1 DEF MoeTasks
  <2> QED BY <2>1, TasksFacts DEF Work
<1>2. CASE resident
  <2> DEFINE a == IF OnGpu /\ l < Layers THEN Tasks("prefetch", l + 1, chosen) ELSE <<>>
             b == IF OnGpu THEN Tasks("prefetch", l, chosen) ELSE <<>>
             g == Tasks("get", l, chosen)
             y == a \o b
             q == MoeTasks(l, chosen)
  <2>1. q = y \o g BY <1>2 DEF MoeTasks
  <2>2. a \in Seq(Tasked) /\ \A i \in 1 .. Len(a) : a[i].what = "prefetch"
    <3>1. CASE OnGpu /\ l < Layers
      <4>1. l + 1 \in 1 .. Layers /\ "prefetch" \in Work BY <3>1, <1>0 DEF Work
      <4>2. a = Tasks("prefetch", l + 1, chosen) BY <3>1
      <4> HIDE DEF a
      <4> QED BY <4>1, <4>2, TasksFacts
    <3>2. CASE ~(OnGpu /\ l < Layers)
      <4>1. a = <<>> BY <3>2
      <4> HIDE DEF a
      <4> QED BY <4>1
    <3> QED BY <3>1, <3>2
  <2>3. b \in Seq(Tasked) /\ \A i \in 1 .. Len(b) : b[i].what = "prefetch"
    <3>1. CASE OnGpu
      <4>1. b = Tasks("prefetch", l, chosen) /\ "prefetch" \in Work BY <3>1 DEF Work
      <4> HIDE DEF b
      <4> QED BY <4>1, TasksFacts
    <3>2. CASE ~OnGpu
      <4>1. b = <<>> BY <3>2
      <4> HIDE DEF b
      <4> QED BY <4>1
    <3> QED BY <3>1, <3>2
  <2>4. g \in Seq(Tasked) /\ Distinctly(g) /\ \A i \in 1 .. Len(g) : g[i].what = "get"
    <3>1. "get" \in Work BY DEF Work
    <3> QED BY <3>1, TasksFacts
  <2>5. y = a \o b OBVIOUS
  <2> HIDE DEF a, b, g, q, y
  <2>6. Joins(Tasked, y, a, b)
    <3>1. Joins(Tasked, a \o b, a, b) BY <2>2, <2>3, TaskJoined
    <3> QED BY <3>1, <2>5
  <2>7. y \in Seq(Tasked) /\ \A i \in 1 .. Len(y) : y[i].what = "prefetch"
    <3>1. y \in Seq(Tasked) /\ Len(y) = Len(a) + Len(b) /\ Len(a) \in Nat /\ Len(b) \in Nat
      BY <2>2, <2>3, <2>6 DEF Joins
    <3>2. ASSUME NEW i \in 1 .. Len(y) PROVE y[i].what = "prefetch"
      <4>1. CASE i \in 1 .. Len(a) BY <4>1, <2>2, <2>6 DEF Joins
      <4>2. CASE i \notin 1 .. Len(a)
        <5>1. i - Len(a) \in 1 .. Len(b) /\ Len(a) + (i - Len(a)) = i BY <4>2, <3>1
        <5>2. y[i] = b[i - Len(a)] BY <5>1, <2>6 DEF Joins
        <5> QED BY <5>1, <5>2, <2>3
      <4> QED BY <4>1, <4>2
    <3> QED BY <3>1, <3>2
  <2>8. Joins(Tasked, q, y, g)
    <3>1. Joins(Tasked, y \o g, y, g) BY <2>4, <2>7, TaskJoined
    <3> QED BY <3>1, <2>1
  <2>9. q \in Seq(Tasked) /\ \A i \in 1 .. Len(q) : q[i].what \in Work
    <3>1. q \in Seq(Tasked) /\ Len(q) = Len(y) + Len(g) /\ Len(y) \in Nat /\ Len(g) \in Nat
      BY <2>4, <2>7, <2>8 DEF Joins
    <3>2. ASSUME NEW i \in 1 .. Len(q) PROVE q[i].what \in Work
      <4>1. CASE i \in 1 .. Len(y) BY <4>1, <2>7, <2>8 DEF Joins, Work
      <4>2. CASE i \notin 1 .. Len(y)
        <5>1. i - Len(y) \in 1 .. Len(g) /\ Len(y) + (i - Len(y)) = i BY <4>2, <3>1
        <5>2. q[i] = g[i - Len(y)] BY <5>1, <2>8 DEF Joins
        <5> QED BY <5>1, <5>2, <2>4 DEF Work
      <4> QED BY <4>1, <4>2
    <3> QED BY <3>1, <3>2
  <2>10. Distinctly(y \o g)
    <3>1. \A i \in 1 .. Len(y) : ~Executes(y[i]) BY <2>7 DEF Executes
    <3> QED BY <3>1, <2>4, <2>7, DistinctJoined
  <2> QED BY <2>1, <2>9, <2>10 DEF q
<1> QED BY <1>1, <1>2

-----------------------------------------------------------------------------
(***************************************************************************)
(* The steps of the runner.                                                *)
(***************************************************************************)

LEMMA ProgramFacts ==
  /\ DOMAIN StreamedFromEnd = 1 .. 2 * Layers + 4
  /\ DOMAIN BuildFromEnd = 1 .. 2 * Layers + 6
  /\ DOMAIN LoopFromEnd = 1 .. Layers + 1
  /\ \A j \in 1 .. 2 * Layers + 4 :
       StreamedFromEnd[j] = IF j = 1 THEN "return"
         ELSE IF j % 2 = 0 /\ j \in 4 .. 2 * Layers + 2 THEN "layer" ELSE "page"
  /\ \A j \in 1 .. 2 * Layers + 6 :
       BuildFromEnd[j] = IF j = 1 THEN "return"
         ELSE IF j = 2 THEN "decoders"
         ELSE IF j = 2 * Layers + 3 THEN "begin"
         ELSE IF j % 2 = 1 /\ j < 2 * Layers + 3 THEN "built" ELSE "page"
  /\ \A j \in 1 .. Layers + 1 : LoopFromEnd[j] = IF j = 1 THEN "return" ELSE "layer"
BY DEF StreamedFromEnd, BuildFromEnd, LoopFromEnd

LEMMA NoWorkInPrograms ==
  /\ \A j \in DOMAIN StreamedFromEnd : StreamedFromEnd[j] \notin Work
  /\ \A j \in DOMAIN BuildFromEnd : BuildFromEnd[j] \notin Work
  /\ \A j \in DOMAIN LoopFromEnd : LoopFromEnd[j] \notin Work
<1>1. ASSUME NEW j \in DOMAIN StreamedFromEnd PROVE StreamedFromEnd[j] \notin Work
  BY ProgramFacts DEF Work
<1>2. ASSUME NEW j \in DOMAIN BuildFromEnd PROVE BuildFromEnd[j] \notin Work
  BY ProgramFacts DEF Work
<1>3. ASSUME NEW j \in DOMAIN LoopFromEnd PROVE LoopFromEnd[j] \notin Work
  BY ProgramFacts DEF Work
<1> QED BY <1>1, <1>2, <1>3

\* The head of the list: its type, and that a page is held for it only.
LEMMA HeadFacts ==
  ASSUME RunnerInv, todo # <<>>
  PROVE  /\ todo \in Seq(Tasked) /\ Head(todo) = todo[1] /\ Head(todo) \in Tasked
         /\ Head(todo).what \in Work => Key \in Keys
         /\ Head(todo).what = "layer" => Key[1] \in 1 .. Layers
         /\ Head(todo).what \notin {"page", "expert", "get"} => lease = 0
         /\ ~Misses(Key) /\ Head(todo).what = "get" => lease = 0
<1>1. todo \in Seq(Tasked) BY DEF RunnerInv, RunnerTypes
<1>2. Head(todo) = todo[1] /\ Head(todo) \in Tasked BY <1>1, TaskTail
<1>3. lease \in {0, 1} /\ (lease = 1 => NeedsPage) BY DEF RunnerInv, RunnerTypes
<1>4. lease = 1 => \/ Head(todo).what \in {"page", "expert"}
                   \/ Head(todo).what = "get" /\ Misses(Key)
  BY <1>3 DEF NeedsPage, Doing
<1>5. Head(todo).what \in Work => Key \in Keys BY <1>2 DEF Tasked, Key
<1>6. Head(todo).what = "layer" => Key[1] \in 1 .. Layers BY <1>2 DEF Tasked, Key
<1> QED BY <1>1, <1>2, <1>3, <1>4, <1>5, <1>6

\* What every step that does the head of the list keeps.
LEMMA ListDone ==
  ASSUME RunnerInv, todo # <<>>, Done
  PROVE  todo' \in Seq(Tasked) /\ Distinctly(todo')
<1>1. todo \in Seq(Tasked) /\ Distinctly(todo)
  BY DEF RunnerInv, RunnerTypes, ExecutesDistinct, Distinctly
<1> QED BY <1>1, TaskTail, DistinctTail DEF Done

\* Work on an expert is done: the pass stands where it stood.
LEMMA WorkDone ==
  ASSUME RunnerInv, todo # <<>>, Head(todo).what \in Work, Done,
         UNCHANGED <<resident, built, ran, failures>>
  PROVE  todo' # <<>> /\ Progress'
<1>1. todo \in Seq(Tasked) /\ Head(todo) = todo[1] BY HeadFacts
<1>2. PICK m \in 1 .. Len(todo) : Streaming(m) \/ Building(m) \/ Looping(m)
  BY DEF RunnerInv, Progress
<1>3. ASSUME NEW f, Follows(todo, m, f), \A j \in DOMAIN f : f[j] \notin Work
      PROVE  Follows(todo', m, f)
  <2>1. Follows(Tail(todo), m, f) BY <1>1, <1>3, FollowsTail
  <2> QED BY <2>1 DEF Done
<1>4. ASSUME Streaming(m) PROVE Streaming(m)'
  <2>1. Follows(todo', m, StreamedFromEnd) BY <1>3, <1>4, NoWorkInPrograms DEF Streaming
  <2>2. Follows(todo, m, StreamedFromEnd)' = Follows(todo', m, StreamedFromEnd)
    BY DEF Follows, StreamedFromEnd
  <2> QED BY <2>1, <2>2, <1>4 DEF Streaming
<1>5. ASSUME Building(m) PROVE Building(m)'
  <2>1. Follows(todo', m, BuildFromEnd) BY <1>3, <1>5, NoWorkInPrograms DEF Building
  <2>2. Follows(todo, m, BuildFromEnd)' = Follows(todo', m, BuildFromEnd)
    BY DEF Follows, BuildFromEnd
  <2> QED BY <2>1, <2>2, <1>5 DEF Building
<1>6. ASSUME Looping(m) PROVE Looping(m)'
  <2>1. Follows(todo', m, LoopFromEnd) BY <1>3, <1>6, NoWorkInPrograms DEF Looping
  <2>2. Follows(todo, m, LoopFromEnd)' = Follows(todo', m, LoopFromEnd)
    BY DEF Follows, LoopFromEnd
  <2> QED BY <2>1, <2>2, <1>6 DEF Looping
<1>7. m \in 1 .. Len(todo')
  <2>1. \E f : Follows(todo', m, f)
    BY <1>2, <1>3, NoWorkInPrograms DEF Streaming, Building, Looping
  <2> QED BY <2>1 DEF Follows
<1>8. todo' # <<>> BY <1>7
<1> QED BY <1>2, <1>4, <1>5, <1>6, <1>7, <1>8 DEF Progress

\* The other tasks: m tasks of the program are left, the head is the first.
LEMMA ControlHead ==
  ASSUME RunnerInv, todo # <<>>, Head(todo).what \notin Work
  PROVE  LET m == Len(todo)
         IN  /\ m \in Nat \ {0} /\ (m = 1 => Tail(todo) = <<>>)
             /\ Streaming(m) \/ Building(m) \/ Looping(m)
             /\ Streaming(m) => /\ m \in 1 .. 2 * Layers + 4
                                /\ Head(todo).what = StreamedFromEnd[m]
                                /\ m > 1 => Follows(Tail(todo), m - 1, StreamedFromEnd)
             /\ Building(m) => /\ m \in 1 .. 2 * Layers + 6
                               /\ Head(todo).what = BuildFromEnd[m]
                               /\ m > 1 => Follows(Tail(todo), m - 1, BuildFromEnd)
             /\ Looping(m) => /\ m \in 1 .. Layers + 1
                              /\ Head(todo).what = LoopFromEnd[m]
                              /\ m > 1 => Follows(Tail(todo), m - 1, LoopFromEnd)
<1> DEFINE m == Len(todo)
<1>0. Layers \in Nat BY LayersIsNat
<1>1. todo \in Seq(Tasked) /\ Head(todo) = todo[1] BY HeadFacts
<1>2. PICK n \in 1 .. Len(todo) : Streaming(n) \/ Building(n) \/ Looping(n)
  BY DEF RunnerInv, Progress
<1>3. n = m
  <2>1. \E f : Follows(todo, n, f) /\ \A j \in DOMAIN f : f[j] \notin Work
    BY <1>2, NoWorkInPrograms DEF Streaming, Building, Looping
  <2> QED BY <2>1, <1>1, FollowsTail
<1>4. m \in Nat \ {0} /\ (m = 1 => Tail(todo) = <<>>)
  <2>1. m \in Nat \ {0} BY <1>1
  <2> QED BY <2>1, <1>1, TaskTail
<1>5. Streaming(m) => /\ m \in 1 .. 2 * Layers + 4
                      /\ Head(todo).what = StreamedFromEnd[m]
                      /\ m > 1 => Follows(Tail(todo), m - 1, StreamedFromEnd)
  <2> HAVE Streaming(m)
  <2>1. Follows(todo, m, StreamedFromEnd) BY DEF Streaming
  <2>2. m \in 1 .. 2 * Layers + 4 BY <2>1, ProgramFacts DEF Follows
  <2>3. m > 1 => m - 1 \in DOMAIN StreamedFromEnd BY <2>2, <1>0, ProgramFacts
  <2> QED BY <2>1, <2>2, <2>3, <1>1, NoWorkInPrograms, FollowsTail
<1>6. Building(m) => /\ m \in 1 .. 2 * Layers + 6
                     /\ Head(todo).what = BuildFromEnd[m]
                     /\ m > 1 => Follows(Tail(todo), m - 1, BuildFromEnd)
  <2> HAVE Building(m)
  <2>1. Follows(todo, m, BuildFromEnd) BY DEF Building
  <2>2. m \in 1 .. 2 * Layers + 6 BY <2>1, ProgramFacts DEF Follows
  <2>3. m > 1 => m - 1 \in DOMAIN BuildFromEnd BY <2>2, <1>0, ProgramFacts
  <2> QED BY <2>1, <2>2, <2>3, <1>1, NoWorkInPrograms, FollowsTail
<1>7. Looping(m) => /\ m \in 1 .. Layers + 1
                    /\ Head(todo).what = LoopFromEnd[m]
                    /\ m > 1 => Follows(Tail(todo), m - 1, LoopFromEnd)
  <2> HAVE Looping(m)
  <2>1. Follows(todo, m, LoopFromEnd) BY DEF Looping
  <2>2. m \in 1 .. Layers + 1 BY <2>1, ProgramFacts DEF Follows
  <2>3. m > 1 => m - 1 \in DOMAIN LoopFromEnd BY <2>2, <1>0, ProgramFacts
  <2> QED BY <2>1, <2>2, <2>3, <1>1, NoWorkInPrograms, FollowsTail
<1> QED BY <1>2, <1>3, <1>4, <1>5, <1>6, <1>7

\* How the formulas about the list read in the next state.
LEMMA NextState ==
  ASSUME NEW m
  PROVE  /\ Streaming(m)' <=>
              /\ ~resident' /\ Follows(todo', m, StreamedFromEnd)
              /\ m <= 2 * (Layers - ran') + 3 \/ (ran' = 0 /\ m = 2 * Layers + 4)
              /\ m >= 2 * (Layers - ran') + 2 \/ ran' = Layers
         /\ Building(m)' <=>
              /\ resident' /\ Follows(todo', m, BuildFromEnd) /\ m >= 2 /\ ran' = 0
              /\ m >= 2 * Layers + 3 => built' = Unbuilt
              /\ m < 2 * Layers + 3 => built' \in 0 .. Layers
              /\ 3 <= m /\ m < 2 * Layers + 3 =>
                   m \in 2 * (Layers - built') + 1 .. 2 * (Layers - built') + 2
              /\ m = 2 /\ failures' = 0 => built' = Layers
         /\ Looping(m)' <=>
              /\ resident' /\ Follows(todo', m, LoopFromEnd)
              /\ built' \in 0 .. Layers /\ m = built' - ran' + 1
              /\ failures' = 0 => built' = Layers
<1>1. /\ Follows(todo, m, StreamedFromEnd)' <=> Follows(todo', m, StreamedFromEnd)
      /\ Follows(todo, m, BuildFromEnd)' <=> Follows(todo', m, BuildFromEnd)
      /\ Follows(todo, m, LoopFromEnd)' <=> Follows(todo', m, LoopFromEnd)
  BY DEF Follows, StreamedFromEnd, BuildFromEnd, LoopFromEnd
<1>2. Unbuilt' = Unbuilt BY DEF Unbuilt
<1> QED BY <1>1, <1>2 DEF Streaming, Building, Looping

LEMMA Stands ==
  ASSUME NEW m, todo' \in Seq(Tasked), Streaming(m)' \/ Building(m)' \/ Looping(m)'
  PROVE  todo' # <<>> /\ Progress'
<1>1. \E f : Follows(todo', m, f) BY NextState
<1>2. m \in 1 .. Len(todo') BY <1>1 DEF Follows
<1>3. todo' # <<>> BY <1>2
<1> QED BY <1>2, <1>3 DEF Progress

\* Work on an expert, whatever it did to the cache.
LEMMA WorkKeeps ==
  ASSUME RunnerInv, todo # <<>>, Head(todo).what \in Work, Done, lease' = 0,
         UNCHANGED <<resident, topK, built, ran, output, failures>>
  PROVE  RunnerInv'
<1>1. todo' \in Seq(Tasked) /\ Distinctly(todo') BY ListDone
<1>2. todo' # <<>> /\ Progress' BY WorkDone
<1>3. RunnerTypes' BY <1>1 DEF RunnerInv, RunnerTypes
<1>4. ExecutesDistinct' BY <1>1 DEF Distinctly, ExecutesDistinct
<1>5. EveryLayerRuns' BY DEF RunnerInv, EveryLayerRuns
<1>6. (~resident => built = Unbuilt)' BY DEF RunnerInv, Unbuilt
<1> QED BY <1>2, <1>3, <1>4, <1>5, <1>6 DEF RunnerInv

\* What a step keeps that leaves the pass standing at another task.
LEMMA ControlKeeps ==
  ASSUME RunnerInv, NEW m, todo' \in Seq(Tasked), Distinctly(todo'),
         Streaming(m)' \/ Building(m)' \/ Looping(m)', lease' = 0,
         UNCHANGED <<resident, output, failures>>,
         topK' \in 1 .. TopK, built' \in Unbuilt .. Layers, ran' \in 0 .. Layers,
         ~resident => built' = Unbuilt
  PROVE  RunnerInv'
<1>1. todo' # <<>> /\ Progress' BY Stands
<1>2. Unbuilt' = Unbuilt /\ NoOutput' = NoOutput BY DEF Unbuilt, NoOutput
<1>3. RunnerTypes' BY <1>2 DEF RunnerInv, RunnerTypes
<1>4. ExecutesDistinct' BY DEF Distinctly, ExecutesDistinct
<1>5. EveryLayerRuns' BY <1>2 DEF RunnerInv, EveryLayerRuns
<1>6. (~resident => built = Unbuilt)' BY <1>2
<1> QED BY <1>1, <1>3, <1>4, <1>5, <1>6 DEF RunnerInv

LEMMA UsePageKeeps == ASSUME RunnerInv, UsePage PROVE RunnerInv'
<1>0. Layers \in Nat \ {0} BY LayersIsNat
<1>1. /\ todo # <<>> /\ Head(todo).what \in {"page", "expert"} /\ lease' = 0 /\ Done
      /\ UNCHANGED <<resident, topK, built, ran, output, failures>>
  BY DEF UsePage, Doing, Released
<1>2. CASE Head(todo).what = "expert"
  <2>1. Head(todo).what \in Work BY <1>2 DEF Work
  <2> QED BY <1>1, <2>1, WorkKeeps
<1>3. CASE Head(todo).what = "page"
  <2> DEFINE m == Len(todo)
  <2>1. Head(todo).what \notin Work BY <1>3 DEF Work
  <2>2. todo' \in Seq(Tasked) /\ Distinctly(todo') /\ todo' = Tail(todo)
    BY <1>1, ListDone DEF Done
  <2>3. m \in Nat \ {0} /\ (Streaming(m) \/ Building(m) \/ Looping(m)) BY <1>1, <2>1, ControlHead
  <2>4. /\ topK' \in 1 .. TopK /\ built' \in Unbuilt .. Layers /\ ran' \in 0 .. Layers
        /\ ~resident => built' = Unbuilt
    BY <1>1 DEF RunnerInv, RunnerTypes
  <2>8. PICK n \in Int : n = m - 1 BY <2>3
  <2> SUFFICES Streaming(n)' \/ Building(n)' \/ Looping(n)'
    BY <1>1, <2>2, <2>4, ControlKeeps
  <2>5. CASE Streaming(m)
    <3>1. /\ m \in 1 .. 2 * Layers + 4 /\ StreamedFromEnd[m] = "page"
          /\ m > 1 => Follows(todo', m - 1, StreamedFromEnd)
      BY <1>1, <1>3, <2>1, <2>2, <2>5, ControlHead
    <3>2. m # 1 /\ ~(m % 2 = 0 /\ m \in 4 .. 2 * Layers + 2) BY <3>1, ProgramFacts
    <3>3. /\ ~resident /\ ran \in 0 .. Layers
          /\ m <= 2 * (Layers - ran) + 3 \/ (ran = 0 /\ m = 2 * Layers + 4)
          /\ m >= 2 * (Layers - ran) + 2 \/ ran = Layers
      BY <2>5 DEF Streaming, RunnerInv, RunnerTypes
    <3> HIDE DEF m
    <3>4. /\ m - 1 <= 2 * (Layers - ran) + 3 \/ (ran = 0 /\ m - 1 = 2 * Layers + 4)
          /\ m - 1 >= 2 * (Layers - ran) + 2 \/ ran = Layers
      BY <1>0, <3>1, <3>2, <3>3
    <3>5. Follows(todo', m - 1, StreamedFromEnd) BY <3>1, <3>2
    <3>6. /\ n <= 2 * (Layers - ran) + 3 \/ (ran = 0 /\ n = 2 * Layers + 4)
          /\ n >= 2 * (Layers - ran) + 2 \/ ran = Layers
          /\ Follows(todo', n, StreamedFromEnd)
      BY <2>8, <3>4, <3>5
    <3>7. Streaming(n)' BY <1>1, <3>3, <3>6, NextState
    <3> QED BY <3>7
  <2>6. CASE Building(m)
    <3>1. /\ m \in 1 .. 2 * Layers + 6 /\ BuildFromEnd[m] = "page"
          /\ m > 1 => Follows(todo', m - 1, BuildFromEnd)
      BY <1>1, <1>3, <2>1, <2>2, <2>6, ControlHead
    <3>2. /\ m # 1 /\ m # 2 /\ m # 2 * Layers + 3
          /\ ~(m % 2 = 1 /\ m < 2 * Layers + 3)
      BY <3>1, ProgramFacts
    <3>3. /\ resident /\ ran = 0
          /\ m >= 2 * Layers + 3 => built = Unbuilt
          /\ m < 2 * Layers + 3 => built \in 0 .. Layers
          /\ 3 <= m /\ m < 2 * Layers + 3 =>
               m \in 2 * (Layers - built) + 1 .. 2 * (Layers - built) + 2
      BY <2>6 DEF Building
    <3> HIDE DEF m
    <3>4. /\ m - 1 >= 2 /\ (m - 1 >= 2 * Layers + 3 => built = Unbuilt)
          /\ m - 1 < 2 * Layers + 3 => built \in 0 .. Layers
          /\ 3 <= m - 1 /\ m - 1 < 2 * Layers + 3 =>
               m - 1 \in 2 * (Layers - built) + 1 .. 2 * (Layers - built) + 2
          /\ m - 1 # 2
      BY <1>0, <3>1, <3>2, <3>3
    <3>5. Follows(todo', m - 1, BuildFromEnd) BY <3>1, <3>2
    <3>6. /\ n >= 2 /\ (n >= 2 * Layers + 3 => built = Unbuilt)
          /\ n < 2 * Layers + 3 => built \in 0 .. Layers
          /\ 3 <= n /\ n < 2 * Layers + 3 =>
               n \in 2 * (Layers - built) + 1 .. 2 * (Layers - built) + 2
          /\ n # 2 /\ Follows(todo', n, BuildFromEnd)
      BY <2>8, <3>4, <3>5
    <3>7. Building(n)' BY <1>1, <3>3, <3>6, NextState
    <3> QED BY <3>7
  <2>7. CASE Looping(m)
    <3>1. m \in 1 .. Layers + 1 /\ LoopFromEnd[m] = "page" BY <1>1, <1>3, <2>1, <2>7, ControlHead
    <3> QED BY <3>1, ProgramFacts
  <2> QED BY <2>3, <2>5, <2>6, <2>7
<1> QED BY <1>1, <1>2, <1>3

LEMMA BeginLayersKeeps == ASSUME RunnerInv, BeginLayers PROVE RunnerInv'
<1> DEFINE m == Len(todo)
<1>0. Layers \in Nat \ {0} BY LayersIsNat
<1>1. /\ todo # <<>> /\ Head(todo).what = "begin" /\ built' = 0 /\ Done
      /\ UNCHANGED <<resident, topK, lease, ran, output, failures>>
  BY DEF BeginLayers, Doing
<1>2. Head(todo).what \notin Work BY <1>1 DEF Work
<1>3. todo' \in Seq(Tasked) /\ Distinctly(todo') /\ todo' = Tail(todo) BY <1>1, ListDone DEF Done
<1>4. lease' = 0 BY <1>1, HeadFacts
<1>5. Building(m) /\ m = 2 * Layers + 3
  <2>1. Streaming(m) \/ Building(m) \/ Looping(m) BY <1>1, <1>2, ControlHead
  <2>2. ~Streaming(m) BY <1>1, <1>2, ControlHead, ProgramFacts
  <2>3. ~Looping(m) BY <1>1, <1>2, ControlHead, ProgramFacts
  <2>4. m \in 1 .. 2 * Layers + 6 /\ BuildFromEnd[m] = "begin"
    BY <1>1, <1>2, <2>1, <2>2, <2>3, ControlHead
  <2>5. m = 2 * Layers + 3 BY <2>4, ProgramFacts
  <2> QED BY <2>1, <2>2, <2>3, <2>5
<1>6. Follows(todo', m - 1, BuildFromEnd)
  <2>1. m > 1 BY <1>0, <1>5
  <2> QED BY <2>1, <1>1, <1>2, <1>3, <1>5, ControlHead
<1>7. resident /\ ran = 0 BY <1>5 DEF Building
<1> HIDE DEF m
<1>8. /\ m - 1 = 2 * Layers + 2 /\ m - 1 >= 2 /\ ~(m - 1 >= 2 * Layers + 3) /\ m - 1 # 2
      /\ m - 1 \in 2 * (Layers - 0) + 1 .. 2 * (Layers - 0) + 2 /\ 0 \in 0 .. Layers
  BY <1>0, <1>5
<1>11. PICK n \in Int : n = m - 1 BY <1>0, <1>5
<1>9. Building(n)'
  <2>1. /\ n >= 2 /\ ~(n >= 2 * Layers + 3) /\ n # 2 /\ Follows(todo', n, BuildFromEnd)
        /\ n \in 2 * (Layers - 0) + 1 .. 2 * (Layers - 0) + 2
    BY <1>6, <1>8, <1>11
  <2> QED BY <1>1, <1>7, <1>8, <2>1, NextState
<1>10. /\ topK' \in 1 .. TopK /\ built' \in Unbuilt .. Layers /\ ran' \in 0 .. Layers
  BY <1>0, <1>1 DEF RunnerInv, RunnerTypes, Unbuilt
<1> QED BY <1>1, <1>3, <1>4, <1>7, <1>9, <1>10, ControlKeeps

LEMMA AppendLayerKeeps == ASSUME RunnerInv, AppendLayer PROVE RunnerInv'
<1> DEFINE m == Len(todo)
<1>0. Layers \in Nat \ {0} BY LayersIsNat
<1>1. /\ todo # <<>> /\ Head(todo).what = "built" /\ built' = built + 1 /\ Done
      /\ UNCHANGED <<resident, topK, lease, ran, output, failures>>
  BY DEF AppendLayer, Doing
<1>2. Head(todo).what \notin Work BY <1>1 DEF Work
<1>3. todo' \in Seq(Tasked) /\ Distinctly(todo') /\ todo' = Tail(todo) BY <1>1, ListDone DEF Done
<1>4. lease' = 0 BY <1>1, HeadFacts
<1>5. Building(m) /\ m \in 3 .. 2 * Layers + 2 /\ m % 2 = 1
  <2>1. Streaming(m) \/ Building(m) \/ Looping(m) BY <1>1, <1>2, ControlHead
  <2>2. ~Streaming(m) BY <1>1, <1>2, ControlHead, ProgramFacts
  <2>3. ~Looping(m) BY <1>1, <1>2, ControlHead, ProgramFacts
  <2>4. m \in 1 .. 2 * Layers + 6 /\ BuildFromEnd[m] = "built"
    BY <1>1, <1>2, <2>1, <2>2, <2>3, ControlHead
  <2> HIDE DEF m
  <2>5. m # 1 /\ m # 2 /\ m % 2 = 1 /\ m < 2 * Layers + 3 BY <2>4, ProgramFacts
  <2>6. m \in 3 .. 2 * Layers + 2 BY <1>0, <2>4, <2>5
  <2> QED BY <2>1, <2>2, <2>3, <2>5, <2>6
<1>6. Follows(todo', m - 1, BuildFromEnd)
  <2>1. m > 1 BY <1>0, <1>5
  <2> QED BY <2>1, <1>1, <1>2, <1>3, <1>5, ControlHead
<1>7. /\ resident /\ ran = 0 /\ built \in 0 .. Layers
      /\ m \in 2 * (Layers - built) + 1 .. 2 * (Layers - built) + 2
  BY <1>0, <1>5 DEF Building
<1> HIDE DEF m
<1>8. m = 2 * (Layers - built) + 1 /\ built + 1 \in 0 .. Layers BY <1>0, <1>5, <1>7
<1>9. /\ m - 1 >= 2 /\ ~(m - 1 >= 2 * Layers + 3) /\ m - 1 < 2 * Layers + 3
      /\ m - 1 = 2 => built + 1 = Layers
      /\ m - 1 \in 2 * (Layers - (built + 1)) + 1 .. 2 * (Layers - (built + 1)) + 2
  BY <1>0, <1>5, <1>7, <1>8
<1>12. PICK n \in Int : n = m - 1 BY <1>0, <1>5
<1>13. PICK b \in Int : b = built + 1 BY <1>7
<1>10. Building(n)'
  <2>1. /\ n >= 2 /\ ~(n >= 2 * Layers + 3) /\ n < 2 * Layers + 3
        /\ n = 2 => b = Layers
        /\ n \in 2 * (Layers - b) + 1 .. 2 * (Layers - b) + 2
        /\ Follows(todo', n, BuildFromEnd) /\ b \in 0 .. Layers /\ built' = b
    BY <1>1, <1>6, <1>8, <1>9, <1>12, <1>13
  <2> QED BY <1>1, <1>7, <2>1, NextState
<1>11. topK' \in 1 .. TopK /\ built' \in Unbuilt .. Layers /\ ran' \in 0 .. Layers
  BY <1>0, <1>1, <1>8 DEF RunnerInv, RunnerTypes, Unbuilt
<1> QED BY <1>1, <1>3, <1>4, <1>7, <1>10, <1>11, ControlKeeps

LEMMA RunDecodersKeeps == ASSUME RunnerInv, RunDecoders PROVE RunnerInv'
<1> DEFINE m == Len(todo)
           q == Tail(todo)
<1>0. Layers \in Nat \ {0} BY LayersIsNat
<1>1. /\ todo # <<>> /\ Head(todo).what = "decoders" /\ todo' = DecoderLoop \o q
      /\ UNCHANGED <<resident, topK, built, lease, ran, output, failures>>
  BY DEF RunDecoders, Doing
<1>2. Head(todo).what \notin Work BY <1>1 DEF Work
<1>3. todo \in Seq(Tasked) /\ lease' = 0 BY <1>1, HeadFacts
<1>4. Building(m) /\ m = 2
  <2>1. Streaming(m) \/ Building(m) \/ Looping(m) BY <1>1, <1>2, ControlHead
  <2>2. ~Streaming(m) BY <1>1, <1>2, ControlHead, ProgramFacts
  <2>3. ~Looping(m) BY <1>1, <1>2, ControlHead, ProgramFacts
  <2>4. m \in 1 .. 2 * Layers + 6 /\ BuildFromEnd[m] = "decoders"
    BY <1>1, <1>2, <2>1, <2>2, <2>3, ControlHead
  <2>5. m = 2 BY <2>4, ProgramFacts
  <2> QED BY <2>1, <2>2, <2>3, <2>5
<1>5. q \in Seq(Tasked) /\ Len(q) = 1
  <2>1. q \in Seq(Tasked) /\ m = Len(q) + 1 /\ Len(q) \in Nat BY <1>1, <1>3, TaskTail
  <2> QED BY <2>1, <1>4
<1>6. q[1].what = "return"
  <2>1. Follows(q, 1, BuildFromEnd) BY <1>1, <1>2, <1>4, ControlHead
  <2> HIDE DEF q
  <2>2. q[Len(q) + 1 - 1].what = BuildFromEnd[1] /\ Len(q) + 1 - 1 = 1 BY <2>1, <1>5 DEF Follows
  <2>3. 1 \in 1 .. 2 * Layers + 6 BY <1>0
  <2>4. BuildFromEnd[1] = "return" BY <2>3, ProgramFacts
  <2> QED BY <2>2, <2>4
<1>7. /\ resident /\ ran = 0 /\ built \in 0 .. Layers /\ (failures = 0 => built = Layers)
  BY <1>0, <1>4 DEF Building
<1>8. /\ DecoderLoop \in Seq(Tasked) /\ \A l \in 1 .. Len(DecoderLoop) : DecoderLoop[l].what = "layer"
      /\ Follows(DecoderLoop \o q, built + 1, LoopFromEnd)
  BY <1>5, <1>6, <1>7, LoopFacts
<1>9. todo' \in Seq(Tasked) BY <1>1, <1>5, <1>8, TaskJoin
<1>10. Distinctly(todo')
  <2>1. Distinctly(q)
    <3>1. Distinctly(todo) BY DEF RunnerInv, ExecutesDistinct, Distinctly
    <3> QED BY <3>1, <1>1, <1>3, DistinctTail
  <2>2. \A l \in 1 .. Len(DecoderLoop) : ~Executes(DecoderLoop[l]) BY <1>8 DEF Executes
  <2> HIDE DEF q
  <2>3. Distinctly(DecoderLoop \o q) BY <2>1, <2>2, <1>5, <1>8, DistinctJoined
  <2> QED BY <2>3, <1>1
<1>11. Follows(todo', built + 1, LoopFromEnd) BY <1>1, <1>8
<1>14. PICK n \in Int : n = built + 1 BY <1>7
<1>12. Looping(n)'
  <2>1. n = built - 0 + 1 /\ Follows(todo', n, LoopFromEnd) BY <1>7, <1>11, <1>14
  <2> QED BY <2>1, <1>1, <1>7, NextState
<1>13. topK' \in 1 .. TopK /\ built' \in Unbuilt .. Layers /\ ran' \in 0 .. Layers
  BY <1>1 DEF RunnerInv, RunnerTypes
<1> QED BY <1>1, <1>3, <1>7, <1>9, <1>10, <1>12, <1>13, ControlKeeps

LEMMA RouteKeeps == ASSUME RunnerInv, Route PROVE RunnerInv'
<1> DEFINE m == Len(todo)
           q == Tail(todo)
<1>0. Layers \in Nat \ {0} BY LayersIsNat
<1>1. /\ todo # <<>> /\ Head(todo).what = "layer" /\ ran' = ran + 1
      /\ UNCHANGED <<resident, topK, built, lease, output, failures>>
  BY DEF Route, Doing
<1>2. PICK ranking \in Rankings, commit \in BOOLEAN, near \in BOOLEAN :
        todo' = MoeTasks(Key[1], Chosen(Key[1], ranking, commit, near)) \o q
  BY DEF Route
<1>3. Head(todo).what \notin Work BY <1>1 DEF Work
<1>4. todo \in Seq(Tasked) /\ lease' = 0 /\ Key[1] \in 1 .. Layers BY <1>1, HeadFacts
<1>5. /\ topK \in 1 .. TopK /\ ran \in 0 .. Layers /\ built \in Unbuilt .. Layers
      /\ ~resident => built = Unbuilt
  BY DEF RunnerInv, RunnerTypes
<1> DEFINE x == MoeTasks(Key[1], Chosen(Key[1], ranking, commit, near))
<1>6. /\ x \in Seq(Tasked) /\ \A i \in 1 .. Len(x) : x[i].what \in Work
      /\ Distinctly(x)
  <2>1. Chosen(Key[1], ranking, commit, near) \in Distinct(Experts) BY <1>5, ChosenFacts
  <2> QED BY <2>1, <1>4, MoeTasksFacts
<1>7. /\ q \in Seq(Tasked) /\ Len(q) \in Nat /\ m = Len(q) + 1 BY <1>1, <1>4, TaskTail
<1>8. todo' = x \o q BY <1>2
<1> HIDE DEF x
<1>9. todo' \in Seq(Tasked) BY <1>6, <1>7, <1>8, TaskJoin
<1>10. Streaming(m) \/ Looping(m)
  <2>1. ~Building(m) BY <1>1, <1>3, ControlHead, ProgramFacts
  <2> QED BY <2>1, <1>1, <1>3, ControlHead
<1>11. PICK n \in Int : n = m - 1
  <2> HIDE DEF q, m
  <2>1. m - 1 \in Int BY <1>7
  <2> QED BY <2>1
<1>12. CASE Streaming(m)
  <2>1. /\ m \in 1 .. 2 * Layers + 4 /\ StreamedFromEnd[m] = "layer"
        /\ m > 1 => Follows(q, m - 1, StreamedFromEnd)
    BY <1>1, <1>3, <1>12, ControlHead
  <2>2. /\ ~resident
        /\ m <= 2 * (Layers - ran) + 3 \/ (ran = 0 /\ m = 2 * Layers + 4)
        /\ m >= 2 * (Layers - ran) + 2 \/ ran = Layers
    BY <1>12 DEF Streaming
  <2> HIDE DEF m, q
  <2>3. m % 2 = 0 /\ m \in 4 .. 2 * Layers + 2 BY <2>1, ProgramFacts
  <2>4. m = 2 * (Layers - ran) + 2 /\ ran < Layers BY <1>0, <1>5, <2>2, <2>3
  <2>5. PICK r \in Int : r = ran + 1 BY <1>5
  <2>6. n <= 2 * (Layers - r) + 3 /\ n >= 2 * (Layers - r) + 2
    BY <1>0, <1>5, <1>11, <2>4, <2>5
  <2>7. Follows(q, n, StreamedFromEnd) BY <1>11, <2>1, <2>3
  <2>8. Follows(todo', n, StreamedFromEnd) BY <1>6, <1>7, <1>8, <1>11, <2>7, FollowsJoined
  <2>9. Streaming(n)' BY <1>1, <2>2, <2>5, <2>6, <2>8, NextState
  <2>10. \A j \in 1 .. Len(q) : ~Executes(q[j])
    <3> TAKE j \in 1 .. Len(q)
    <3>1. n = Len(q) /\ n + 1 - j \in 1 .. n /\ Len(q) + 1 - (n + 1 - j) = j BY <1>7, <1>11
    <3>2. q[j].what = StreamedFromEnd[n + 1 - j] /\ n + 1 - j \in DOMAIN StreamedFromEnd
      <4>1. n \in DOMAIN StreamedFromEnd
        /\ \A k \in 1 .. n : q[Len(q) + 1 - k].what = StreamedFromEnd[k]
        BY <2>7 DEF Follows
      <4>2. n + 1 - j \in DOMAIN StreamedFromEnd BY <1>0, <3>1, <4>1, ProgramFacts
      <4> QED BY <3>1, <4>1, <4>2
    <3> QED BY <3>2, NoWorkInPrograms DEF Executes, Work
  <2>11. Distinctly(todo') BY <1>6, <1>7, <1>8, <2>10, DistinctJoined
  <2>12. topK' \in 1 .. TopK /\ built' \in Unbuilt .. Layers /\ ran' \in 0 .. Layers
    BY <1>0, <1>1, <1>5, <2>4
  <2> QED BY <1>1, <1>4, <1>5, <1>9, <2>9, <2>11, <2>12, ControlKeeps
<1>13. CASE Looping(m)
  <2>1. /\ m \in 1 .. Layers + 1 /\ LoopFromEnd[m] = "layer"
        /\ m > 1 => Follows(q, m - 1, LoopFromEnd)
    BY <1>1, <1>3, <1>13, ControlHead
  <2>2. /\ resident /\ built \in 0 .. Layers /\ m = built - ran + 1
        /\ failures = 0 => built = Layers
    BY <1>13 DEF Looping
  <2> HIDE DEF m, q
  <2>3. m # 1 BY <2>1, ProgramFacts
  <2>4. ran < built BY <1>5, <2>1, <2>2, <2>3
  <2>5. PICK r \in Int : r = ran + 1 BY <1>5
  <2>6. n = built - r + 1 BY <1>0, <1>5, <1>11, <2>2, <2>5
  <2>7. Follows(q, n, LoopFromEnd) BY <1>11, <2>1, <2>3
  <2>8. Follows(todo', n, LoopFromEnd) BY <1>6, <1>7, <1>8, <1>11, <2>7, FollowsJoined
  <2>9. Looping(n)' BY <1>1, <2>2, <2>5, <2>6, <2>8, NextState
  <2>10. \A j \in 1 .. Len(q) : ~Executes(q[j])
    <3> TAKE j \in 1 .. Len(q)
    <3>1. n = Len(q) /\ n + 1 - j \in 1 .. n /\ Len(q) + 1 - (n + 1 - j) = j BY <1>7, <1>11
    <3>2. q[j].what = LoopFromEnd[n + 1 - j] /\ n + 1 - j \in DOMAIN LoopFromEnd
      <4>1. n \in DOMAIN LoopFromEnd
        /\ \A k \in 1 .. n : q[Len(q) + 1 - k].what = LoopFromEnd[k]
        BY <2>7 DEF Follows
      <4>2. n + 1 - j \in DOMAIN LoopFromEnd BY <1>0, <3>1, <4>1, ProgramFacts
      <4> QED BY <3>1, <4>1, <4>2
    <3> QED BY <3>2, NoWorkInPrograms DEF Executes, Work
  <2>11. Distinctly(todo') BY <1>6, <1>7, <1>8, <2>10, DistinctJoined
  <2>12. topK' \in 1 .. TopK /\ built' \in Unbuilt .. Layers /\ ran' \in 0 .. Layers
    BY <1>0, <1>1, <1>5, <2>2, <2>4
  <2> QED BY <1>1, <1>4, <1>5, <1>9, <2>9, <2>11, <2>12, ControlKeeps
<1> QED BY <1>10, <1>12, <1>13

\* The pass is over: it ran all layers, unless it lacked some.
LEMMA ReturnKeeps == ASSUME RunnerInv, Return PROVE RunnerInv'
<1> DEFINE m == Len(todo)
<1>0. Layers \in Nat \ {0} BY LayersIsNat
<1>1. /\ todo # <<>> /\ Head(todo).what = "return" /\ output' = ran /\ todo' = Tail(todo)
      /\ UNCHANGED <<resident, topK, built, lease, ran, failures>>
  BY DEF Return, Doing, Done
<1>2. Head(todo).what \notin Work BY <1>1 DEF Work
<1>3. lease' = 0 BY <1>1, HeadFacts
<1>4. /\ topK \in 1 .. TopK /\ ran \in 0 .. Layers /\ built \in Unbuilt .. Layers
      /\ (~resident => built = Unbuilt) /\ resident \in BOOLEAN
      /\ failures \in 0 .. MaxFailures
  BY DEF RunnerInv, RunnerTypes
<1>5. m = 1
  <2>1. CASE Streaming(m)
    <3>1. m \in 1 .. 2 * Layers + 4 /\ StreamedFromEnd[m] = "return"
      BY <1>1, <1>2, <2>1, ControlHead
    <3> HIDE DEF m
    <3> QED BY <3>1, ProgramFacts
  <2>2. CASE Building(m)
    <3>1. m \in 1 .. 2 * Layers + 6 /\ BuildFromEnd[m] = "return"
      BY <1>1, <1>2, <2>2, ControlHead
    <3> HIDE DEF m
    <3> QED BY <3>1, ProgramFacts
  <2>3. CASE Looping(m)
    <3>1. m \in 1 .. Layers + 1 /\ LoopFromEnd[m] = "return" BY <1>1, <1>2, <2>3, ControlHead
    <3> HIDE DEF m
    <3> QED BY <3>1, ProgramFacts
  <2> QED BY <1>1, <1>2, <2>1, <2>2, <2>3, ControlHead
<1>6. todo' = <<>> BY <1>1, <1>2, <1>5, ControlHead
<1>7. /\ ~resident => ran = Layers
      /\ resident /\ failures = 0 => ran = Layers /\ built = Layers
  <2>1. Streaming(m) \/ Building(m) \/ Looping(m) BY <1>1, <1>2, ControlHead
  <2>2. ~Building(m) BY <1>5 DEF Building
  <2>3. CASE Streaming(m)
    <3>1. ~resident /\ (m >= 2 * (Layers - ran) + 2 \/ ran = Layers) BY <2>3 DEF Streaming
    <3> HIDE DEF m
    <3> QED BY <1>0, <1>4, <1>5, <3>1
  <2>4. CASE Looping(m)
    <3>1. resident /\ m = built - ran + 1 /\ (failures = 0 => built = Layers) /\ built \in 0 .. Layers
      BY <2>4 DEF Looping
    <3> HIDE DEF m
    <3> QED BY <1>0, <1>4, <1>5, <3>1
  <2> QED BY <2>1, <2>2, <2>3, <2>4
<1>8. EveryLayerRuns' BY <1>1, <1>7 DEF EveryLayerRuns
<1>9. RunnerTypes'
  <2>1. <<>> \in Seq(Tasked) OBVIOUS
  <2>2. ran \in NoOutput .. Layers BY <1>0, <1>4 DEF NoOutput
  <2> QED BY <2>1, <2>2, <1>1, <1>4, <1>3, <1>6 DEF RunnerTypes, NoOutput, Unbuilt
<1>10. ExecutesDistinct' BY <1>6 DEF ExecutesDistinct
<1>11. (~resident => built = Unbuilt)' BY <1>1, <1>4 DEF Unbuilt
<1>12. (failures = 0 => built \in {Unbuilt, Layers})' BY <1>1, <1>4, <1>7 DEF Unbuilt
<1> QED BY <1>3, <1>6, <1>8, <1>9, <1>10, <1>11, <1>12 DEF RunnerInv

LEMMA StartPassKeeps == ASSUME RunnerInv, StartPass PROVE RunnerInv'
<1>0. Layers \in Nat \ {0} /\ TopK \in Nat \ {0} BY LayersIsNat
<1>1. /\ todo = <<>> /\ todo' = (IF resident THEN ResidentProgram ELSE StreamedProgram)
      /\ topK' \in (IF resident /\ built # Unbuilt THEN 1 .. TopK ELSE {TopK}) /\ ran' = 0
      /\ UNCHANGED <<resident, built, lease, output, failures>>
  BY DEF StartPass
<1>2. /\ built \in Unbuilt .. Layers /\ (~resident => built = Unbuilt) /\ resident \in BOOLEAN
      /\ failures = 0 => built \in {Unbuilt, Layers}
      /\ lease = 0
  BY <1>1 DEF RunnerInv, RunnerTypes, NeedsPage, Doing
<1>3. topK' \in 1 .. TopK /\ built' \in Unbuilt .. Layers /\ ran' \in 0 .. Layers
  BY <1>0, <1>1, <1>2
<1>4. PICK n \in Int : n = IF ~resident THEN 2 * Layers + 4
                           ELSE IF built = Unbuilt THEN 2 * Layers + 6 ELSE 2
  BY <1>0
<1>5. /\ todo' \in Seq(Tasked) /\ Len(todo') = n
      /\ ~resident => Follows(todo', n, StreamedFromEnd)
      /\ resident => Follows(todo', n, BuildFromEnd)
  BY <1>1, <1>2, <1>4, StreamedProgramFacts, ResidentProgramFacts
<1>6. Distinctly(todo')
  <2>1. ASSUME NEW j \in DOMAIN todo' PROVE ~Executes(todo'[j])
    <3>1. n \in Int /\ n = Len(todo') /\ j \in 1 .. n /\ n + 1 - j \in 1 .. n
          /\ Len(todo') + 1 - (n + 1 - j) = j
      BY <1>5
    <3>2. \E f : /\ Follows(todo', n, f) /\ f \in {StreamedFromEnd, BuildFromEnd} BY <1>5
    <3>3. PICK f \in {StreamedFromEnd, BuildFromEnd} : Follows(todo', n, f) BY <3>2
    <3>4. n \in DOMAIN f /\ \A k \in 1 .. n : todo'[Len(todo') + 1 - k].what = f[k]
      BY <3>3 DEF Follows
    <3>5. n + 1 - j \in DOMAIN f
      <4>1. 2 * Layers + 4 \in Int /\ 2 * Layers + 6 \in Int BY <1>0
      <4>2. PICK m \in Int : DOMAIN f = 1 .. m
        <5>1. DOMAIN StreamedFromEnd = 1 .. 2 * Layers + 4 /\ DOMAIN BuildFromEnd = 1 .. 2 * Layers + 6
          BY ProgramFacts
        <5> QED BY <5>1, <4>1
      <4> QED BY <3>1, <3>4, <4>2
    <3>6. todo'[j].what = f[n + 1 - j] BY <3>1, <3>4
    <3> QED BY <3>5, <3>6, NoWorkInPrograms DEF Executes, Work
  <2> QED BY <2>1 DEF Distinctly
<1>7. Streaming(n)' \/ Building(n)'
  <2>1. CASE ~resident
    <3>1. n <= 2 * (Layers - 0) + 3 \/ (0 = 0 /\ n = 2 * Layers + 4) BY <1>4, <2>1
    <3>2. n >= 2 * (Layers - 0) + 2 BY <1>0, <1>4, <2>1
    <3> QED BY <3>1, <3>2, <2>1, <1>1, <1>4, <1>5, NextState
  <2>2. CASE resident /\ built = Unbuilt
    <3>1. n >= 2 /\ ~(n < 2 * Layers + 3) /\ n # 2 BY <1>0, <1>4, <2>2
    <3> QED BY <3>1, <2>2, <1>1, <1>5, NextState
  <2>3. CASE resident /\ built # Unbuilt
    <3>1. n = 2 /\ ~(n >= 2 * Layers + 3) /\ ~(3 <= n) BY <1>0, <1>4, <2>3
    <3>2. built \in 0 .. Layers BY <1>0, <1>2, <2>3 DEF Unbuilt
    <3>3. failures = 0 => built = Layers BY <1>2, <2>3
    <3> QED BY <3>1, <3>2, <3>3, <2>3, <1>1, <1>5, NextState
  <2> QED BY <1>2, <2>1, <2>2, <2>3
<1> QED BY <1>1, <1>2, <1>3, <1>5, <1>6, <1>7, ControlKeeps

\* The pass is dropped, and what it held is released.
LEMMA FailKeeps == ASSUME RunnerInv, Fail PROVE RunnerInv'
<1>1. /\ failures < MaxFailures /\ failures' = failures + 1 /\ lease' = 0 /\ todo' = <<>>
      /\ UNCHANGED <<resident, topK, built, ran, output>>
  BY DEF Fail, Unwound
<1>2. RunnerTypes
  BY DEF RunnerInv
<1>3. failures \in 0 .. MaxFailures /\ MaxFailures \in Nat BY <1>2, LayersIsNat DEF RunnerTypes
<1>4. failures' \in 0 .. MaxFailures /\ failures' # 0 BY <1>1, <1>3
<1>5. RunnerTypes'
  <2>1. <<>> \in Seq(Tasked) OBVIOUS
  <2> QED BY <2>1, <1>1, <1>2, <1>4 DEF RunnerTypes, Unbuilt, NoOutput
<1>6. EveryLayerRuns'
  <2>1. EveryLayerRuns BY DEF RunnerInv
  <2> QED BY <2>1, <1>1, <1>4 DEF EveryLayerRuns, NoOutput
<1>7. ExecutesDistinct' BY <1>1 DEF ExecutesDistinct
<1>8. (~resident => built = Unbuilt)' BY <1>1 DEF RunnerInv, Unbuilt
<1> QED BY <1>1, <1>4, <1>5, <1>6, <1>7, <1>8 DEF RunnerInv

\* The list is as it was: a page is leased, the cache or the device moves on.
LEMMA ListKept ==
  ASSUME RunnerInv, lease' \in {0, 1}, lease' = 1 => NeedsPage',
         UNCHANGED <<resident, topK, built, todo, ran, output, failures>>
  PROVE  RunnerInv'
<1>1. RunnerTypes' BY DEF RunnerInv, RunnerTypes
<1>2. EveryLayerRuns' /\ ExecutesDistinct'
  BY DEF RunnerInv, EveryLayerRuns, ExecutesDistinct
<1>3. (~resident => built = Unbuilt)' BY DEF RunnerInv, Unbuilt
<1>4. Progress <=> Progress'
  BY DEF Progress, Streaming, Building, Looping, Follows, StreamedFromEnd, BuildFromEnd,
         LoopFromEnd, Unbuilt
<1>5. (failures = 0 => built \in {Unbuilt, Layers}) <=> (failures = 0 => built \in {Unbuilt, Layers})'
  BY DEF Unbuilt
<1> QED BY <1>1, <1>2, <1>3, <1>4, <1>5 DEF RunnerInv

-----------------------------------------------------------------------------
(***************************************************************************)
(* The runner and its cache.                                               *)
(***************************************************************************)

PagedInv == CacheInv /\ RunnerInv

LEMMA InitHolds == Init => PagedInv
<1> SUFFICES ASSUME Init PROVE PagedInv OBVIOUS
<1>0. Layers \in Nat \ {0} /\ TopK \in Nat \ {0} /\ MaxFailures \in Nat BY LayersIsNat
<1>1. CacheInv BY CacheInvInit DEF Init
<1>2. /\ resident \in BOOLEAN /\ topK = TopK /\ built = Unbuilt /\ todo = <<>> /\ lease = 0
      /\ ran = 0 /\ output = NoOutput /\ failures = 0
  BY DEF Init
<1>3. RunnerTypes
  <2>1. <<>> \in Seq(Tasked) OBVIOUS
  <2> QED BY <2>1, <1>0, <1>2 DEF RunnerTypes, Unbuilt, NoOutput
<1>4. EveryLayerRuns /\ ExecutesDistinct BY <1>2 DEF EveryLayerRuns, ExecutesDistinct
<1>5. RunnerInv BY <1>2, <1>3, <1>4 DEF RunnerInv
<1> QED BY <1>1, <1>5 DEF PagedInv

\* What the device does shows in no table the host decides by.
LEMMA DeviceHidden ==
  ASSUME RunnerInv, UNCHANGED <<vramCap, ram, vram, runnerVars>>
  PROVE  RunnerInv'
<1>1. /\ UNCHANGED <<resident, topK, built, todo, ran, output, failures>> /\ lease' = lease
      /\ vramCap' = vramCap /\ ram' = ram /\ vram' = vram
  BY DEF runnerVars
<1>2. NeedsPage' <=> NeedsPage
  BY <1>1 DEF NeedsPage, Doing, Misses, OnGpu, InVram, InRam, Key
<1>3. lease \in {0, 1} /\ (lease = 1 => NeedsPage) BY DEF RunnerInv, RunnerTypes
<1> QED BY <1>1, <1>2, <1>3, ListKept

LEMMA StepKeeps == PagedInv /\ [Next]_vars => PagedInv'
<1> SUFFICES ASSUME PagedInv, [Next]_vars PROVE PagedInv' OBVIOUS
<1>0. CacheInv /\ RunnerInv BY DEF PagedInv
<1> USE DEF PagedInv
<1>1. CASE UNCHANGED vars
  <2>1. UNCHANGED cacheVars /\ UNCHANGED <<vramCap, ram, vram, runnerVars>>
    BY <1>1 DEF vars, cacheVars, tiers
  <2> QED BY <1>0, <2>1, CacheInvSame, DeviceHidden
<1>2. CASE StartPass
  <2>1. UNCHANGED cacheVars BY <1>2 DEF StartPass
  <2> QED BY <1>0, <1>2, <2>1, CacheInvSame, StartPassKeeps
<1>3. CASE Lease
  <2>1. /\ UNCHANGED cacheVars /\ lease' = 1 /\ NeedsPage
        /\ UNCHANGED <<resident, topK, built, todo, ran, output, failures>>
    BY <1>3 DEF Lease
  <2>2. NeedsPage'
    BY <2>1 DEF NeedsPage, Doing, Misses, OnGpu, InVram, InRam, Key, cacheVars, tiers
  <2> QED BY <1>0, <2>1, <2>2, CacheInvSame, ListKept
<1>4. CASE UsePage
  <2>1. UNCHANGED cacheVars BY <1>4 DEF UsePage
  <2> QED BY <1>0, <1>4, <2>1, CacheInvSame, UsePageKeeps
<1>5. CASE BeginLayers
  <2>1. UNCHANGED cacheVars BY <1>5 DEF BeginLayers
  <2> QED BY <1>0, <1>5, <2>1, CacheInvSame, BeginLayersKeeps
<1>6. CASE AppendLayer
  <2>1. UNCHANGED cacheVars BY <1>6 DEF AppendLayer
  <2> QED BY <1>0, <1>6, <2>1, CacheInvSame, AppendLayerKeeps
<1>7. CASE RunDecoders
  <2>1. UNCHANGED cacheVars BY <1>7 DEF RunDecoders
  <2> QED BY <1>0, <1>7, <2>1, CacheInvSame, RunDecodersKeeps
<1>8. CASE Route
  <2>1. UNCHANGED cacheVars BY <1>8 DEF Route
  <2> QED BY <1>0, <1>8, <2>1, CacheInvSame, RouteKeeps
<1>9. CASE RunPrefetch
  <2>1. /\ todo # <<>> /\ Head(todo).what = "prefetch" /\ Prefetch(Key) /\ Done
        /\ UNCHANGED <<resident, topK, built, lease, ran, output, failures>>
    BY <1>9 DEF RunPrefetch, Doing
  <2>2. Head(todo).what \in Work /\ Key \in Keys /\ lease' = 0
    BY <1>0, <2>1, HeadFacts DEF Work
  <2>3. CacheInv' BY <1>0, <2>1, <2>2, PrefetchKeeps
  <2>4. RunnerInv' BY <1>0, <2>1, <2>2, WorkKeeps
  <2> QED BY <2>3, <2>4
<1>10. CASE GetFromVram
  <2>1. /\ todo # <<>> /\ Head(todo).what = "get" /\ VramHit(Key) /\ Done
        /\ UNCHANGED <<resident, topK, built, lease, ran, output, failures>>
    BY <1>10 DEF GetFromVram, Doing
  <2>2. ~Misses(Key) BY <2>1 DEF VramHit, Misses
  <2>3. Head(todo).what \in Work /\ Key \in Keys /\ lease' = 0
    BY <1>0, <2>1, <2>2, HeadFacts DEF Work
  <2>4. CacheInv' BY <1>0, <2>1, <2>3, VramHitKeeps
  <2>5. RunnerInv' BY <1>0, <2>1, <2>3, WorkKeeps
  <2> QED BY <2>4, <2>5
<1>11. CASE GetFromRam
  <2>1. /\ todo # <<>> /\ Head(todo).what = "get" /\ RamHit(Key) /\ Done
        /\ UNCHANGED <<resident, topK, built, lease, ran, output, failures>>
    BY <1>11 DEF GetFromRam, Doing
  <2>2. ~Misses(Key) BY <2>1 DEF RamHit, Misses
  <2>3. Head(todo).what \in Work /\ Key \in Keys /\ lease' = 0
    BY <1>0, <2>1, <2>2, HeadFacts DEF Work
  <2>4. CacheInv' BY <1>0, <2>1, <2>3, RamHitKeeps
  <2>5. RunnerInv' BY <1>0, <2>1, <2>3, WorkKeeps
  <2> QED BY <2>4, <2>5
<1>12. CASE GetFromStore
  <2>1. /\ todo # <<>> /\ Head(todo).what = "get" /\ LoadFromPage(Key) /\ Done /\ lease' = 0
        /\ UNCHANGED <<resident, topK, built, ran, output, failures>>
    BY <1>12 DEF GetFromStore, Doing, Released
  <2>2. Head(todo).what \in Work /\ Key \in Keys
    BY <1>0, <2>1, HeadFacts DEF Work
  <2>3. CacheInv' BY <1>0, <2>1, <2>2, LoadFromPageKeeps
  <2>4. RunnerInv' BY <1>0, <2>1, <2>2, WorkKeeps
  <2> QED BY <2>3, <2>4
<1>13. CASE Return
  <2>1. UNCHANGED cacheVars BY <1>13 DEF Return
  <2> QED BY <1>0, <1>13, <2>1, CacheInvSame, ReturnKeeps
<1>14. CASE Fail
  <2>1. UNCHANGED cacheVars BY <1>14 DEF Fail
  <2> QED BY <1>0, <1>14, <2>1, CacheInvSame, FailKeeps
<1>15. CASE ClearCache
  <2>1. /\ todo = <<>> /\ current = <<>> /\ prefetch = <<>> /\ Clear
        /\ UNCHANGED <<resident, topK, built, todo, ran, output, failures>> /\ lease' = lease
    BY <1>15 DEF ClearCache, runnerVars
  <2>2. lease = 0 BY <1>0, <2>1 DEF RunnerInv, RunnerTypes, NeedsPage, Doing
  <2>3. CacheInv' BY <1>0, <2>1, ClearKeeps
  <2>4. RunnerInv' BY <1>0, <2>1, <2>2, ListKept
  <2> QED BY <2>3, <2>4
<1>16. CASE RunCurrent
  <2>1. DeviceCurrent /\ UNCHANGED <<vramCap, ram, vram, runnerVars>>
    BY <1>16 DEF RunCurrent, DeviceCurrent, tiers
  <2> QED BY <1>0, <2>1, DeviceCurrentKeeps, DeviceHidden
<1>17. CASE RunPrefetched
  <2>1. DevicePrefetch /\ UNCHANGED <<vramCap, ram, vram, runnerVars>>
    BY <1>17 DEF RunPrefetched, DevicePrefetch, tiers
  <2> QED BY <1>0, <2>1, DevicePrefetchKeeps, DeviceHidden
<1> QED
  BY <1>1, <1>2, <1>3, <1>4, <1>5, <1>6, <1>7, <1>8, <1>9, <1>10, <1>11, <1>12, <1>13, <1>14,
     <1>15, <1>16, <1>17 DEF Next

\* The invariant holds in every state of the runner.
LEMMA PagedInvHolds == Spec => []PagedInv
BY InitHolds, StepKeeps, PTL DEF Spec

\* What the invariant of the tables says of the types, the bounds and the slots.
LEMMA CacheIsTyped == CacheInv => CacheTypeOK
<1> SUFFICES ASSUME CacheInv PROVE CacheTypeOK OBVIOUS
<1>0. vramCap \in Nat BY FastCacheAssumption DEF CacheInv
<1>1. /\ vramCap \in VramCaps /\ arena \in {"unset", "ready", "refused"}
      /\ overtaken \in BOOLEAN /\ misread \in BOOLEAN
  BY DEF CacheInv, TablesGood
<1>2. ToSet(ram) \subseteq Keys BY ElementOf DEF CacheInv
<1>3. /\ ToSet(vram) \subseteq EntryType /\ ToSet(keySlot) \subseteq EntryType
      /\ ToSet(free) \subseteq AllSlots
  BY ElementOf, ShelfEntries DEF CacheInv, TablesGood, AllSlots
<1>4. KeysOf(vram) \union KeysOf(keySlot) \subseteq Keys BY <1>3 DEF KeysOf, EntryType
<1>5. \A e \in ToSet(vram) \union ToSet(keySlot) : e.slot \in AllSlots \union {NoSlot}
  <2>1. CASE arena = "ready"
    <3>1. Divided(vram, keySlot, free, vramCap) BY <2>1 DEF CacheInv, TablesGood
    <3> QED BY <3>1 DEF Divided, AllSlots
  <2>2. CASE arena # "ready"
    <3>1. Unslotted(vram, keySlot, free) BY <2>2 DEF CacheInv, TablesGood
    <3>2. ToSet(keySlot) = {} BY <3>1, EmptyShelf DEF Unslotted
    <3> QED BY <3>1, <3>2 DEF Unslotted
  <2> QED BY <2>1, <2>2
<1>6. SlotsOf(vram) \union SlotsOf(keySlot) \subseteq AllSlots BY <1>5 DEF SlotsOf
<1>7. \A op \in ToSet(current) \union ToSet(prefetch) :
        op.op \in {"copy", "read", "wait"} /\ op.slot \in AllSlots \union {NoSlot}
  <2>1. ASSUME NEW i \in DOMAIN current
        PROVE  /\ current[i].op \in {"copy", "read", "wait"}
               /\ current[i].slot \in AllSlots \union {NoSlot}
    <3>1. /\ i \in 1 .. Len(current) /\ current[i] \in OpType
          /\ IF current[i].op = "wait" THEN current[i].slot = NoSlot
                                       ELSE current[i].slot \in 1 .. vramCap
      BY DEF CacheInv, StreamsGood
    <3> QED BY <3>1 DEF OpType, AllSlots
  <2>2. ASSUME NEW i \in DOMAIN prefetch
        PROVE  /\ prefetch[i].op \in {"copy", "read", "wait"}
               /\ prefetch[i].slot \in AllSlots \union {NoSlot}
    BY DEF CacheInv, StreamsGood, OpType, AllSlots
  <2> QED BY <2>1, <2>2 DEF ToSet
<1>8. pool \in [AllSlots -> Keys \union {NoKey}] BY DEF CacheInv, StreamsGood, AllSlots
<1> QED BY <1>1, <1>2, <1>3, <1>4, <1>6, <1>7, <1>8 DEF CacheTypeOK

LEMMA CacheIsBounded == CacheInv => TiersAreBounded
<1> SUFFICES ASSUME CacheInv PROVE TiersAreBounded OBVIOUS
<1>1. vram \in Shelf /\ Len(vram) <= vramCap /\ ram \in Distinct(Keys) /\ Len(ram) <= RamCap
  BY DEF CacheInv, TablesGood
<1> QED BY <1>1, KeysCount DEF TiersAreBounded, Distinct

LEMMA CacheIsDivided == CacheInv => SlotsAreDivided
<1> SUFFICES ASSUME CacheInv, arena = "ready" PROVE SlotsAreDivided BY DEF SlotsAreDivided
<1>1. vram \in Shelf /\ Divided(vram, keySlot, free, vramCap) /\ free \in Distinct(1..vramCap)
  BY DEF CacheInv, TablesGood
<1>2. vramCap \in Nat BY FastCacheAssumption DEF CacheInv
<1>3. SlotsOf(vram) = {e.slot : e \in ToSet(vram)}
  BY <1>1, <1>2 DEF Divided, SlotsOf, NoSlot
<1>4. Cardinality(SlotsOf(vram)) = Len(vram)
  <2>1. \A e, g \in ToSet(vram) : e.slot = g.slot => e = g BY <1>1 DEF Divided
  <2> QED BY <1>1, <1>3, <2>1, SlotsCount
<1>5. ToSet(free) \subseteq AllSlots /\ IsInjective(free)
  BY <1>1, ElementOf DEF Distinct, AllSlots
<1>6. SlotsOf(vram) \union ToSet(free) = AllSlots /\ SlotsOf(vram) \cap ToSet(free) = {}
  <2>1. SlotsOf(vram) \subseteq AllSlots BY <1>1, <1>3 DEF Divided, AllSlots
  <2>2. \A s \in AllSlots : s \in SlotsOf(vram) \/ s \in ToSet(free)
    BY <1>1, <1>3 DEF Divided, AllSlots
  <2>3. \A s \in SlotsOf(vram) : s \notin ToSet(free) BY <1>1, <1>3 DEF Divided
  <2> QED BY <2>1, <2>2, <2>3, <1>5
<1>7. ToSet(vram) = ToSet(keySlot) BY <1>1 DEF Divided
<1> QED BY <1>4, <1>5, <1>6, <1>7 DEF SlotsAreDivided

\* The two tiers hold no more than they may and no expert twice, and with an
\* arena its slots are exactly divided between the experts in VRAM and the free
\* ones: whatever prefetches, hits, loads, failed uses and resets come between,
\* _evict_oldest_vram, allocate_slot and free_slot keep their tables agreeing.
THEOREM TiersAreSound == Spec => []TiersSound
<1>1. PagedInv => TiersSound
  <2> SUFFICES ASSUME PagedInv PROVE TiersSound OBVIOUS
  <2>1. CacheInv /\ RunnerInv BY DEF PagedInv
  <2>2. TypeOK BY <2>1, CacheIsTyped DEF TypeOK, RunnerInv, RunnerTypes
  <2> QED BY <2>1, <2>2, CacheIsBounded, CacheIsDivided DEF TiersSound
<1> QED BY <1>1, PagedInvHolds, PTL

\* A kernel reads the weights of another expert only after one stream took a
\* slot the other still had work on: for tokens through any number of layers
\* and experts, tiers of any size and streams of any length, the waits of
\* get_or_load and the order within a stream are enough otherwise.
THEOREM TheReadsAreRight == Spec => []ReadsAreRight
<1>1. PagedInv => ReadsAreRight BY DEF PagedInv, CacheInv, InStep, ReadsAreRight
<1> QED BY <1>1, PagedInvHolds, PTL

\* The part of PassesAreWhole that is not about the end of a pass: no lease
\* outlives its pass, returned or raised (the finally blocks); logits come from
\* all layers unless a runner with a resident backbone failed before; and the
\* experts a layer executes are different ones, with commit routing too.
THEOREM PassesAreWholeSoFar ==
  Spec => [](NoLeaseOutlivesPass /\ EveryLayerRuns /\ ExecutesDistinct)
<1>1. PagedInv => NoLeaseOutlivesPass /\ EveryLayerRuns /\ ExecutesDistinct
  <2> SUFFICES ASSUME PagedInv PROVE NoLeaseOutlivesPass /\ EveryLayerRuns /\ ExecutesDistinct
    OBVIOUS
  <2>1. RunnerInv BY DEF PagedInv
  <2>2. EveryLayerRuns /\ ExecutesDistinct BY <2>1 DEF RunnerInv
  <2>3. lease \in {0, 1} /\ (lease = 1 => NeedsPage) BY <2>1 DEF RunnerInv, RunnerTypes
  <2>4. NoLeaseOutlivesPass BY <2>3 DEF NoLeaseOutlivesPass, NeedsPage, Doing
  <2> QED BY <2>2, <2>4
<1> QED BY <1>1, PagedInvHolds, PTL

-----------------------------------------------------------------------------
(***************************************************************************)
(* Text generation, for every vocabulary, prompt, length of drafts and     *)
(* limit: what is generated is what greedy decoding generates.             *)
(***************************************************************************)

Entries == [token : Tokens, full : BOOLEAN]

Types ==
  /\ speculative \in BOOLEAN /\ specK \in SpecKs /\ maxNew \in MaxNews
  /\ goal \in [1 .. Horizon -> Tokens] /\ fullTopK \in BOOLEAN
  /\ phase \in {"prefill", "plain", "first", "round", "draft", "verify", "stream",
                "returned", "crashed", "raised"}
  /\ kv \in Seq(Entries) /\ out \in Seq(Tokens \ EosIds)
  /\ draft \in Seq(Tokens) /\ accepted \in Seq(Tokens) /\ next \in Tokens

\* The cache begins with the prompt and n tokens of the goal, all of them
\* computed by the full model.
Begins(cache, n) ==
  /\ \A i \in 1 .. Len(Prompt) : cache[i] = KvEntry(Prompt[i], TRUE)
  /\ \A i \in 1 .. n : cache[Len(Prompt) + i] = KvEntry(goal[i], TRUE)

\* It holds nothing else.
Is(cache, n) == Len(cache) = Len(Prompt) + n /\ Begins(cache, n)

\* Of the n tokens of text that follow what was streamed, all are the goal's.
FollowsGoal(tokens) == \A i \in 1 .. Len(tokens) : tokens[i] = goal[Len(out) + i]

-----------------------------------------------------------------------------
(***************************************************************************)
(* What a run of the model does to the cache and wants next.               *)
(***************************************************************************)
\* The numbers that stand for lengths, and the goal's horizon beyond them.
LEMMA Numbers ==
  ASSUME Types
  PROVE  /\ specK \in Nat \ {0} /\ maxNew \in Nat /\ Horizon \in Nat
         /\ maxNew + specK + 1 <= Horizon
         /\ Len(Prompt) \in Nat \ {0} /\ Prompt \in Seq(Tokens)
         /\ Len(kv) \in Nat /\ Len(out) \in Nat
         /\ Len(draft) \in Nat /\ Len(accepted) \in Nat
         /\ goal \in Seq(Tokens) /\ Len(goal) = Horizon
BY DecodeAssumption, EmptySeq DEF Types

\* The sequence of exact entries of a text, place by place.
LEMMA ExactFacts ==
  ASSUME NEW tokens \in Seq(Tokens)
  PROVE  /\ Exact(tokens) \in Seq(Entries) /\ Len(Exact(tokens)) = Len(tokens)
         /\ \A i \in 1 .. Len(tokens) : Exact(tokens)[i] = KvEntry(tokens[i], TRUE)
<1>1. Len(tokens) \in Nat /\ DOMAIN tokens = 1 .. Len(tokens)
      /\ \A i \in 1 .. Len(tokens) : tokens[i] \in Tokens
  OBVIOUS
<1>2. Exact(tokens) = [i \in 1 .. Len(tokens) |-> KvEntry(tokens[i], TRUE)]
  BY <1>1 DEF Exact
<1>3. \A i \in 1 .. Len(tokens) : KvEntry(tokens[i], TRUE) \in Entries
  BY <1>1 DEF KvEntry, Entries
<1>4. Exact(tokens) \in [1 .. Len(tokens) -> Entries]
  BY <1>2, <1>3
<1>5. \A i \in 1 .. Len(tokens) : Exact(tokens)[i] = KvEntry(tokens[i], TRUE)
  BY <1>2
<1> HIDE DEF Exact
<1>6. Exact(tokens) \in Seq(Entries) /\ Len(Exact(tokens)) = Len(tokens)
  BY <1>1, <1>4, SeqDef, LenProperties
<1> QED BY <1>5, <1>6

\* A text of the goal's first n tokens after the prompt, place by place.
LEMMA TextFacts ==
  ASSUME Types, NEW n \in 0 .. Horizon
  PROVE  /\ Prompt \o SubSeq(goal, 1, n) \in Seq(Tokens)
         /\ Len(Prompt \o SubSeq(goal, 1, n)) = Len(Prompt) + n
         /\ \A i \in 1 .. Len(Prompt) : (Prompt \o SubSeq(goal, 1, n))[i] = Prompt[i]
         /\ \A i \in 1 .. n : (Prompt \o SubSeq(goal, 1, n))[Len(Prompt) + i] = goal[i]
<1>1. SubSeq(goal, 1, n) \in Seq(Tokens) /\ Len(SubSeq(goal, 1, n)) = n
      /\ \A i \in 1 .. n : SubSeq(goal, 1, n)[i] = goal[i]
  BY Numbers
<1>2. Prompt \in Seq(Tokens) /\ Len(Prompt) \in Nat
  BY Numbers
<1> QED BY <1>1, <1>2, ConcatProperties

\* A cache that is the prompt and n tokens of the goal is the exact one.
LEMMA IsExact ==
  ASSUME Types, NEW cache \in Seq(Entries), NEW n \in 0 .. Horizon, Is(cache, n)
  PROVE  cache = Exact(Prompt \o SubSeq(goal, 1, n))
<1> DEFINE text == Prompt \o SubSeq(goal, 1, n)
<1>1. text \in Seq(Tokens) /\ Len(text) = Len(Prompt) + n
  BY TextFacts
<1>2. Exact(text) \in Seq(Entries) /\ Len(Exact(text)) = Len(cache)
  BY <1>1, ExactFacts DEF Is
<1>3. ASSUME NEW i \in 1 .. Len(cache)
      PROVE  cache[i] = Exact(text)[i]
  <2>1. i \in 1 .. Len(text) BY <1>1 DEF Is
  <2>2. Exact(text)[i] = KvEntry(text[i], TRUE) BY <1>1, <2>1, ExactFacts
  <2>3. CASE i \in 1 .. Len(Prompt)
    BY <2>2, <2>3, TextFacts DEF Is, Begins
  <2>4. CASE i \notin 1 .. Len(Prompt)
    <3>1. PICK j \in 1 .. n : i = Len(Prompt) + j
      <4>1. Len(Prompt) \in Nat /\ i \in Nat BY <2>1, Numbers
      <4>2. i - Len(Prompt) \in 1 .. n BY <1>1, <2>1, <2>4, Numbers
      <4>3. i = Len(Prompt) + (i - Len(Prompt)) BY <4>1
      <4> QED BY <4>2, <4>3
    <3> HIDE DEF text
    <3>2. text[i] = goal[j] BY <3>1, TextFacts DEF text
    <3> QED BY <2>2, <3>1, <3>2 DEF Is, Begins
  <2> QED BY <2>3, <2>4
<1> HIDE DEF text
<1>4. cache = Exact(text) BY <1>2, <1>3, SeqEqual
<1> QED BY <1>4 DEF text

\* After such a cache the model wants the goal's next token.
LEMMA WantsGoal ==
  ASSUME Types, NEW cache \in Seq(Entries), NEW n \in Nat, n < Horizon, Is(cache, n)
  PROVE  Wants(cache) = {goal[n + 1]}
<1>1. Len(cache) - Len(Prompt) = n BY Numbers DEF Is
<1>2. cache = Exact(Prompt \o SubSeq(goal, 1, n)) BY IsExact, Numbers
<1> QED BY <1>1, <1>2 DEF Wants

\* Whatever is in the cache behind the prompt, a token is wanted.
LEMMA WantsToken ==
  ASSUME Types, NEW cache \in Seq(Entries), Len(cache) >= Len(Prompt)
  PROVE  Wants(cache) \subseteq Tokens
<1> DEFINE n == Len(cache) - Len(Prompt)
<1>1. n \in Nat BY Numbers
<1>2. n < Horizon => goal[n + 1] \in Tokens BY <1>1, Numbers DEF Types
<1> QED BY <1>2 DEF Wants

\* A run appends one entry and leaves the others.
LEMMA RunFacts ==
  ASSUME Types, NEW token \in Tokens, Len(kv) >= Len(Prompt), Run(token)
  PROVE  /\ kv' \in Seq(Entries) /\ Len(kv') = Len(kv) + 1
         /\ \A i \in 1 .. Len(kv) : kv'[i] = kv[i]
         /\ kv'[Len(kv) + 1] = KvEntry(token, fullTopK)
         /\ next' \in Tokens
<1>1. KvEntry(token, fullTopK) \in Entries BY DEF KvEntry, Entries, Types
<1>2. kv \in Seq(Entries) BY DEF Types
<1>3. kv' = Append(kv, KvEntry(token, fullTopK)) BY DEF Run, Cached
<1>4. kv' \in Seq(Entries) /\ Len(kv') = Len(kv) + 1 BY <1>1, <1>2, <1>3
<1>5. next' \in Wants(kv') BY DEF Run
<1>6. next' \in Tokens
  <2>1. Len(kv) \in Nat /\ Len(Prompt) \in Nat BY <1>2, Numbers
  <2>2. Len(kv') >= Len(Prompt) BY <1>4, <2>1
  <2> DEFINE c == kv'
  <2>3. c \in Seq(Entries) /\ Len(c) >= Len(Prompt) BY <1>4, <2>2
  <2> HIDE DEF c
  <2>4. Wants(c) \subseteq Tokens BY <2>3, WantsToken
  <2> QED BY <1>5, <2>4 DEF c
<1> QED BY <1>1, <1>2, <1>3, <1>4, <1>6

\* A run of the full model for the goal's next token makes the cache that of a
\* longer text, and wants the token after it.
LEMMA RunGoal ==
  ASSUME Types, NEW n \in Nat, n + 1 < Horizon, fullTopK = TRUE,
         Is(kv, n), Run(goal[n + 1])
  PROVE  Is(kv', n + 1) /\ next' = goal[n + 2]
<1>1. goal[n + 1] \in Tokens BY Numbers DEF Types
<1>2. Len(kv) >= Len(Prompt) BY Numbers DEF Is
<1>3. /\ kv' \in Seq(Entries) /\ Len(kv') = Len(kv) + 1
      /\ \A i \in 1 .. Len(kv) : kv'[i] = kv[i]
      /\ kv'[Len(kv) + 1] = KvEntry(goal[n + 1], TRUE)
  BY <1>1, <1>2, RunFacts
<1>4. Len(kv) = Len(Prompt) + n /\ Len(Prompt) \in Nat
  BY Numbers DEF Is
<1>5. \A i \in 1 .. Len(Prompt) : kv'[i] = KvEntry(Prompt[i], TRUE)
  BY <1>3, <1>4 DEF Is, Begins, KvEntry
<1>6. ASSUME NEW i \in 1 .. n + 1
      PROVE  kv'[Len(Prompt) + i] = KvEntry(goal[i], TRUE)
  <2>1. CASE i = n + 1
    <3>1. Len(Prompt) + i = Len(kv) + 1 BY <2>1, <1>4
    <3> QED BY <2>1, <3>1, <1>3 DEF KvEntry
  <2>2. CASE i # n + 1
    <3>1. i \in 1 .. n /\ Len(Prompt) + i \in 1 .. Len(kv) BY <2>2, <1>4
    <3> QED BY <3>1, <1>3 DEF Is, Begins, KvEntry
  <2> QED BY <2>1, <2>2
<1>7. Is(kv', n + 1) BY <1>3, <1>4, <1>5, <1>6 DEF Is, Begins, KvEntry
<1>8. next' \in Wants(kv') BY DEF Run
<1>9. Wants(kv') = {goal[(n + 1) + 1]} BY <1>3, <1>7, WantsGoal
<1>10. (n + 1) + 1 = n + 2 OBVIOUS
<1> QED BY <1>7, <1>8, <1>9, <1>10

-----------------------------------------------------------------------------
(***************************************************************************)
(* The inductive invariant: what each phase knows of the cache and of the  *)
(* tokens it holds.                                                        *)
(***************************************************************************)
\* What is streamed is the goal's, and stays below the limit.
Streamed == \A i \in 1 .. Len(out) : out[i] = goal[i]
Bounded ==
  \/ Len(out) <= maxNew
  \/ speculative /\ maxNew = 0 /\ Len(out) <= 1

AtPrefill == out = <<>> /\ fullTopK = TRUE /\ Len(kv) < Len(Prompt)

AtPlain ==
  /\ fullTopK = TRUE /\ Len(out) <= maxNew
  /\ Len(out) < maxNew => Is(kv, Len(out)) /\ next = goal[Len(out) + 1]

AtFirst == speculative = TRUE /\ out = <<>> /\ fullTopK = TRUE /\ Is(kv, 0) /\ next = goal[1]

AtRound == fullTopK = TRUE /\ (Len(out) < maxNew /\ out # <<>> => Is(kv, Len(out) - 1))

Rounding == out # <<>> /\ Len(out) < maxNew

\* While the draft runs, the exact cache lies below its entries.
AtDraft ==
  /\ Rounding /\ Len(draft) <= specK
  /\ Len(kv) = Pos + Len(draft) /\ Begins(kv, Len(out) - 1)

AtVerify ==
  /\ Rounding /\ fullTopK = TRUE /\ Len(draft) = specK
  /\ Len(accepted) <= Len(draft)
  /\ FollowsGoal(accepted) /\ Is(kv, Len(out) - 1 + Len(accepted))

\* The cache is ahead of the stream by the tokens not yet streamed.
AtStream ==
  /\ Rounding /\ fullTopK = TRUE /\ accepted # <<>>
  /\ Len(out) + Len(accepted) <= maxNew + specK
  /\ FollowsGoal(accepted) /\ Is(kv, Len(out) + Len(accepted) - 1)

Phases ==
  /\ phase = "prefill" => AtPrefill
  /\ phase = "plain" => AtPlain
  /\ phase = "first" => AtFirst
  /\ phase = "round" => AtRound
  /\ phase = "draft" => AtDraft
  /\ phase = "verify" => AtVerify
  /\ phase = "stream" => AtStream

DecodeInv == Types /\ Streamed /\ Bounded /\ Phases

\* Streaming the goal's next token keeps the text the goal's.
LEMMA StreamOne ==
  ASSUME Types, Streamed, UNCHANGED inputs,
         NEW token \in Tokens \ EosIds, token = goal[Len(out) + 1],
         out' = Append(out, token)
  PROVE  /\ out' \in Seq(Tokens \ EosIds) /\ Len(out') = Len(out) + 1
         /\ Streamed' /\ out' # <<>>
<1>1. out \in Seq(Tokens \ EosIds) /\ Len(out) \in Nat BY Numbers DEF Types
<1>2. /\ out' \in Seq(Tokens \ EosIds) /\ Len(out') = Len(out) + 1
      /\ out'[Len(out) + 1] = token
      /\ \A i \in 1 .. Len(out) : out'[i] = out[i]
  BY <1>1
<1>3. ASSUME NEW i \in 1 .. Len(out')
      PROVE  out'[i] = goal[i]
  <2>1. CASE i = Len(out) + 1 BY <2>1, <1>2
  <2>2. CASE i # Len(out) + 1
    <3>1. i \in 1 .. Len(out) BY <2>2, <1>1, <1>2
    <3> QED BY <3>1, <1>2 DEF Streamed
  <2> QED BY <2>1, <2>2
<1>4. out' # <<>> BY <1>1, <1>2
<1> QED BY <1>2, <1>3, <1>4 DEF Streamed, inputs

\* The initial states have nothing but the goal.
LEMMA DecodeInitHolds ==
  DecodeInit => DecodeInv
<1> SUFFICES ASSUME DecodeInit PROVE DecodeInv
  OBVIOUS
<1>1. Prompt \in Seq(Tokens) /\ Prompt # <<>> /\ Len(Prompt) \in Nat \ {0}
  BY DecodeAssumption, EmptySeq
<1>2. Prompt[1] \in Tokens BY <1>1
<1>3. <<>> \in Seq(Entries) /\ <<>> \in Seq(Tokens) /\ <<>> \in Seq(Tokens \ EosIds)
      /\ Len(<<>>) = 0
  BY EmptySeq
<1>4. Types BY <1>2, <1>3 DEF DecodeInit, Types
<1>5. maxNew \in Nat BY <1>4, Numbers
<1>6. Streamed /\ Bounded BY <1>3, <1>5 DEF DecodeInit, Streamed, Bounded
<1>7. Phases BY <1>1, <1>3 DEF DecodeInit, Phases, AtPrefill
<1> QED BY <1>4, <1>6, <1>7 DEF DecodeInv

LEMMA PrefillKeeps ==
  ASSUME DecodeInv, Prefill
  PROVE  DecodeInv'
<1> USE DEF DecodeInv
<1> DEFINE n == Len(kv) + 1
           text == SubSeq(Prompt, 1, n)
<1>1. n \in 1 .. Len(Prompt) /\ out = <<>> /\ fullTopK = TRUE
  BY Numbers DEF Prefill, Phases, AtPrefill
<1>2. text \in Seq(Tokens) /\ Len(text) = n
      /\ \A i \in 1 .. n : text[i] = Prompt[i]
  BY <1>1, Numbers
<1>3. kv' = Exact(text) BY DEF Prefill
<1> HIDE DEF text
<1>4. /\ kv' \in Seq(Entries) /\ Len(kv') = n
      /\ \A i \in 1 .. n : kv'[i] = KvEntry(Prompt[i], TRUE)
  BY <1>1, <1>2, <1>3, ExactFacts
<1>5. /\ next' = IF n = Len(Prompt) THEN goal[1] ELSE next
      /\ phase' = IF n # Len(Prompt) THEN "prefill" ELSE IF speculative THEN "first" ELSE "plain"
      /\ UNCHANGED <<speculative, specK, maxNew, goal, fullTopK, out, draft, accepted>>
  BY <1>3, <1>4 DEF Prefill, text, inputs
<1>6. goal[1] \in Tokens BY Numbers DEF Types
<1>7. Types' BY <1>4, <1>5, <1>6 DEF Types
<1>8. Streamed' /\ Bounded' BY <1>5 DEF Streamed, Bounded
<1>9. ASSUME n = Len(Prompt) PROVE Is(kv, 0)'
  <2>1. Len(kv') = Len(Prompt) + 0 BY <1>9, <1>4, Numbers
  <2>2. \A i \in 1 .. Len(Prompt) : kv'[i] = KvEntry(Prompt[i], TRUE) BY <1>9, <1>4
  <2>3. 1 .. 0 = {} OBVIOUS
  <2> QED BY <2>1, <2>2, <2>3 DEF Is, Begins
<1>10. Phases'
  <2>1. CASE n # Len(Prompt)
    BY <2>1, <1>1, <1>4, <1>5 DEF Phases, AtPrefill
  <2>2. CASE n = Len(Prompt) /\ speculative = TRUE
    BY <2>2, <1>1, <1>5, <1>9 DEF Phases, AtFirst
  <2>3. CASE n = Len(Prompt) /\ speculative = FALSE
    <3>1. Len(out') = 0 /\ maxNew' \in Nat BY <1>1, <1>5, Numbers
    <3> QED BY <2>3, <3>1, <1>1, <1>5, <1>9 DEF Phases, AtPlain
  <2> QED BY <2>1, <2>2, <2>3 DEF Types
<1> QED BY <1>7, <1>8, <1>10

LEMMA PlainKeeps ==
  ASSUME DecodeInv, PlainStep
  PROVE  DecodeInv'
<1> USE DEF DecodeInv
<1>1. AtPlain /\ phase = "plain"
  BY DEF PlainStep, Phases
<1>2. UNCHANGED <<speculative, specK, maxNew, goal, fullTopK, draft, accepted>>
  BY DEF PlainStep, inputs
<1>3. CASE Len(out) >= maxNew \/ next \in EosIds
  <2>1. phase' = "returned" /\ UNCHANGED <<kv, next, out>>
    BY <1>3 DEF PlainStep
  <2>2. Types' BY <2>1, <1>2 DEF Types
  <2>3. Streamed' /\ Bounded' BY <2>1, <1>2 DEF Streamed, Bounded
  <2> QED BY <2>1, <2>2, <2>3 DEF Phases
<1>4. CASE ~(Len(out) >= maxNew \/ next \in EosIds)
  <2>1. /\ phase' = phase /\ out' = Append(out, next)
        /\ IF Len(out') = maxNew THEN UNCHANGED <<kv, next>> ELSE Run(next)
    BY <1>4 DEF PlainStep
  <2>2. Len(out) < maxNew /\ next \in Tokens \ EosIds
        /\ Is(kv, Len(out)) /\ next = goal[Len(out) + 1]
    BY <1>1, <1>4, Numbers DEF AtPlain, Types
  <2>3. out' \in Seq(Tokens \ EosIds) /\ Len(out') = Len(out) + 1 /\ Streamed'
    BY <2>1, <2>2, <1>2, StreamOne DEF inputs
  <2>4. Bounded' BY <2>2, <2>3, <1>2, Numbers DEF Bounded
  <2>5. CASE Len(out') = maxNew
    <3>1. UNCHANGED <<kv, next>> BY <2>5, <2>1
    <3>2. Types' BY <3>1, <2>1, <2>3, <1>2 DEF Types
    <3>3. AtPlain' BY <2>3, <2>5, <1>1, <1>2, Numbers DEF AtPlain
    <3> QED BY <3>2, <3>3, <2>1, <2>3, <2>4, <1>1 DEF Phases
  <2>6. CASE Len(out') # maxNew
    <3>1. Run(goal[Len(out) + 1]) BY <2>6, <2>1, <2>2
    <3>2. Len(out) + 1 < Horizon BY <2>2, Numbers
    <3>3. fullTopK = TRUE BY <1>1 DEF AtPlain
    <3>4. Is(kv', Len(out) + 1) /\ next' = goal[Len(out) + 2]
      BY <3>1, <3>2, <3>3, <2>2, RunGoal, Numbers
    <3>5. kv' \in Seq(Entries) /\ next' \in Tokens
      <4>1. Len(kv) >= Len(Prompt) BY <2>2, Numbers DEF Is
      <4>2. Run(next) /\ next \in Tokens BY <2>1, <2>2, <2>6
      <4> QED BY <4>1, <4>2, RunFacts
    <3>6. Types' BY <3>5, <2>1, <2>3, <1>2 DEF Types
    <3>7. Is(kv, Len(out))' BY <3>4, <2>3, <1>2 DEF Is, Begins
    <3>8. next' = goal'[Len(out') + 1]
      <4>1. Len(out') + 1 = Len(out) + 2 BY <2>3, Numbers
      <4> QED BY <4>1, <3>4, <1>2
    <3>9. AtPlain' BY <3>7, <3>8, <2>2, <2>3, <1>1, <1>2, Numbers DEF AtPlain
    <3> QED BY <3>6, <3>9, <2>1, <2>3, <2>4, <1>1 DEF Phases
  <2> QED BY <2>5, <2>6
<1> QED BY <1>3, <1>4

LEMMA FirstKeeps ==
  ASSUME DecodeInv, First
  PROVE  DecodeInv'
<1> USE DEF DecodeInv
<1>1. AtFirst /\ phase = "first"
  BY DEF First, Phases
<1>2. /\ UNCHANGED <<speculative, specK, maxNew, goal, kv, fullTopK, next, draft, accepted>>
      /\ phase' = "round" /\ out' = FirstText
  BY DEF First, inputs
<1>3. Len(out) = 0 BY <1>1 DEF AtFirst
<1>4. CASE next \in EosIds
  <2>1. out' = out BY <1>2, <1>4 DEF FirstText
  <2>2. Types' BY <2>1, <1>2 DEF Types
  <2>3. Streamed' /\ Bounded' BY <2>1, <1>2 DEF Streamed, Bounded
  <2>4. AtRound' BY <2>1, <1>1, <1>2 DEF AtRound, AtFirst
  <2> QED BY <2>2, <2>3, <2>4, <1>2 DEF Phases
<1>5. CASE next \notin EosIds
  <2>1. out' = Append(out, next) BY <1>2, <1>5 DEF FirstText
  <2>2. next \in Tokens \ EosIds /\ next = goal[Len(out) + 1]
    BY <1>1, <1>3, <1>5 DEF AtFirst, Types
  <2>3. out' \in Seq(Tokens \ EosIds) /\ Len(out') = 1 /\ Streamed'
    BY <2>1, <2>2, <1>2, <1>3, StreamOne DEF inputs
  <2>4. Types' BY <2>3, <1>2 DEF Types
  <2>5. Bounded' BY <2>3, <1>1, <1>2, Numbers DEF Bounded, AtFirst
  <2>6. Is(kv, 0)' BY <1>1, <1>2 DEF AtFirst, Is, Begins
  <2>7. Len(out') - 1 = 0 BY <2>3
  <2>8. AtRound' BY <2>6, <2>7, <1>1, <1>2 DEF AtRound, AtFirst
  <2> QED BY <2>3, <2>4, <2>5, <2>8, <1>2 DEF Phases
<1> QED BY <1>4, <1>5

LEMMA RoundKeeps ==
  ASSUME DecodeInv, Round
  PROVE  DecodeInv'
<1> USE DEF DecodeInv
<1>1. AtRound /\ phase = "round"
  BY DEF Round, Phases
<1>2. /\ UNCHANGED <<speculative, specK, maxNew, goal, kv, out, next, accepted>>
      /\ draft' = <<>> /\ fullTopK' = (phase' # "draft")
      /\ phase' = IF Len(out) >= maxNew THEN "returned"
                  ELSE IF out = <<>> THEN "crashed" ELSE "draft"
  BY DEF Round, inputs, Full, AfterLoop
<1>3. draft' \in Seq(Tokens) /\ Len(draft') = 0 BY <1>2, EmptySeq
<1>4. Types' BY <1>2, <1>3 DEF Types
<1>5. Streamed' /\ Bounded' BY <1>2 DEF Streamed, Bounded
<1>6. ASSUME phase' = "draft" PROVE AtDraft'
  <2>1. Rounding' /\ Rounding BY <1>6, <1>2, Numbers DEF Rounding
  <2>2. Is(kv, Len(out) - 1) BY <2>1, <1>1 DEF AtRound, Rounding
  <2>3. Len(kv') = Pos' + Len(draft')
    BY <2>2, <1>2, <1>3, Numbers DEF Is, Pos
  <2>4. Begins(kv, Len(out) - 1)' BY <2>2, <1>2 DEF Is, Begins
  <2> QED BY <2>1, <2>3, <2>4, <1>2, <1>3, Numbers DEF AtDraft
<1>7. phase' \in {"returned", "crashed", "draft"} BY <1>2
<1> QED BY <1>4, <1>5, <1>6, <1>7 DEF Phases

LEMMA DraftKeeps ==
  ASSUME DecodeInv, DraftStep
  PROVE  DecodeInv'
<1> USE DEF DecodeInv
<1> DEFINE token == IF draft = <<>> THEN Last(out) ELSE Last(draft)
<1>1. AtDraft /\ phase = "draft" /\ Len(draft) < specK
  BY DEF DraftStep, Phases
<1>2. /\ UNCHANGED <<speculative, specK, maxNew, goal, phase, fullTopK, out, accepted>>
      /\ Run(token) /\ draft' = Append(draft, next')
  BY DEF DraftStep, inputs
<1>3. Rounding /\ Len(kv) = Pos + Len(draft) /\ Begins(kv, Len(out) - 1)
  BY <1>1 DEF AtDraft
<1>4. Len(out) \in Nat \ {0} /\ out \in Seq(Tokens \ EosIds) /\ draft \in Seq(Tokens)
  BY <1>3, EmptySeq DEF Rounding, Types
<1>5. token \in Tokens
  <2>1. Last(out) \in Tokens BY <1>4 DEF Last
  <2>2. draft # <<>> => Last(draft) \in Tokens BY <1>4, EmptySeq DEF Last
  <2> QED BY <2>1, <2>2
<1> HIDE DEF token
<1>6. Len(kv) >= Len(Prompt) BY <1>3, <1>4, Numbers DEF Pos
<1>7. /\ kv' \in Seq(Entries) /\ Len(kv') = Len(kv) + 1
      /\ \A i \in 1 .. Len(kv) : kv'[i] = kv[i]
      /\ next' \in Tokens
  BY <1>2, <1>5, <1>6, RunFacts
<1>8. draft' \in Seq(Tokens) /\ Len(draft') = Len(draft) + 1 BY <1>2, <1>4, <1>7
<1>9. Types' BY <1>2, <1>7, <1>8 DEF Types
<1>10. Streamed' /\ Bounded' BY <1>2 DEF Streamed, Bounded
<1>11. AtDraft'
  <2>1. Rounding' BY <1>2, <1>3 DEF Rounding
  <2>2. Len(kv') = Pos' + Len(draft')
    BY <1>2, <1>3, <1>7, <1>8, Numbers DEF Pos
  <2>3. Begins(kv', Len(out) - 1)
    <3>1. \A i \in 1 .. Len(Prompt) : i \in 1 .. Len(kv) BY <1>6, Numbers
    <3>2. \A i \in 1 .. Len(out) - 1 : Len(Prompt) + i \in 1 .. Len(kv)
      BY <1>3, Numbers DEF Pos
    <3> QED BY <3>1, <3>2, <1>3, <1>7 DEF Begins, KvEntry
  <2>4. Begins(kv, Len(out) - 1)' BY <2>3, <1>2 DEF Begins
  <2> QED BY <2>1, <2>2, <2>4, <1>1, <1>2, <1>8, Numbers DEF AtDraft
<1> QED BY <1>1, <1>2, <1>9, <1>10, <1>11 DEF Phases

\* Cropping the draft's entries leaves the exact cache.
LEMMA CropGivesExact ==
  ASSUME Types, AtDraft
  PROVE  Cropped \in Seq(Entries) /\ Is(Cropped, Len(out) - 1)
<1> DEFINE n == Len(kv) - Len(draft)
<1>1. Len(out) \in Nat \ {0} /\ kv \in Seq(Entries)
  BY EmptySeq DEF AtDraft, Rounding, Types
<1>2. n = Len(Prompt) + (Len(out) - 1) /\ n \in 0 .. Len(kv)
  BY <1>1, Numbers DEF AtDraft, Pos
<1>3. Cropped = SubSeq(kv, 1, n) BY DEF Cropped
<1> HIDE DEF n
<1>4. Cropped \in Seq(Entries) /\ Len(Cropped) = n
      /\ \A i \in 1 .. n : Cropped[i] = kv[i]
  BY <1>1, <1>2, <1>3
<1>5. \A i \in 1 .. Len(Prompt) : i \in 1 .. n BY <1>1, <1>2, Numbers
<1>6. \A i \in 1 .. Len(out) - 1 : Len(Prompt) + i \in 1 .. n BY <1>1, <1>2, Numbers
<1>7. Begins(kv, Len(out) - 1) BY DEF AtDraft
<1> QED BY <1>2, <1>4, <1>5, <1>6, <1>7 DEF Is, Begins, KvEntry

LEMMA EndDraftKeeps ==
  ASSUME DecodeInv, EndDraft
  PROVE  DecodeInv'
<1> USE DEF DecodeInv
<1>1. AtDraft /\ phase = "draft" /\ Len(draft) = specK
  BY DEF EndDraft, Phases
<1>2. /\ UNCHANGED <<speculative, specK, maxNew, goal, out, next, draft>>
      /\ kv' = Cropped /\ fullTopK' = TRUE /\ phase' = "verify" /\ accepted' = <<>>
  BY DEF EndDraft, inputs
<1>3. kv' \in Seq(Entries) /\ Is(kv', Len(out) - 1)
  BY <1>1, <1>2, CropGivesExact
<1>4. accepted' \in Seq(Tokens) /\ Len(accepted') = 0 BY <1>2, EmptySeq
<1>5. Types' BY <1>2, <1>3, <1>4 DEF Types
<1>6. Streamed' /\ Bounded' BY <1>2 DEF Streamed, Bounded
<1>7. AtVerify'
  <2>1. Rounding' BY <1>1, <1>2 DEF AtDraft, Rounding
  <2>2. Len(out') - 1 + Len(accepted') = Len(out) - 1 BY <1>2, <1>4, Numbers
  <2>3. Is(kv, Len(out) - 1)' BY <1>2, <1>3 DEF Is, Begins
  <2>4. Is(kv, Len(out) - 1 + Len(accepted))' BY <2>2, <2>3, <1>2
  <2>5. FollowsGoal(accepted)' BY <1>4 DEF FollowsGoal
  <2>6. Len(draft') = specK' /\ Len(accepted') <= Len(draft') BY <1>1, <1>2, <1>4, Numbers
  <2> QED BY <2>1, <2>4, <2>5, <2>6, <1>2 DEF AtVerify
<1> QED BY <1>2, <1>5, <1>6, <1>7 DEF Phases

\* The token the verification runs next is the goal's, and so is what it gets.
LEMMA VerifyRun ==
  ASSUME DecodeInv, AtVerify,
         Run(IF Verified = 0 THEN Last(out) ELSE Last(accepted)),
         accepted' = Append(accepted, next'),
         UNCHANGED <<speculative, specK, maxNew, goal, fullTopK, out, draft>>
  PROVE  /\ kv' \in Seq(Entries) /\ accepted' \in Seq(Tokens) /\ next' \in Tokens
         /\ Len(accepted') = Len(accepted) + 1
         /\ FollowsGoal(accepted)' /\ Is(kv, Len(out) - 1 + Len(accepted))'
<1> USE DEF DecodeInv
<1> DEFINE n == Len(out) - 1 + Len(accepted)
<1>1. /\ Len(out) \in Nat \ {0} /\ Len(accepted) \in Nat /\ Len(out) < maxNew
      /\ Len(accepted) <= specK /\ fullTopK = TRUE /\ FollowsGoal(accepted) /\ Is(kv, n)
  BY EmptySeq, Numbers DEF AtVerify, Rounding, Types
<1>2. n \in Nat /\ n + 1 = Len(out) + Len(accepted) /\ n + 1 < Horizon
  BY <1>1, Numbers
<1>3. (IF Verified = 0 THEN Last(out) ELSE Last(accepted)) = goal[n + 1]
  <2>1. CASE Len(accepted) = 0
    <3>1. out[Len(out)] = goal[Len(out)] BY <1>1 DEF Streamed
    <3>2. n + 1 = Len(out) BY <2>1, <1>1
    <3> QED BY <2>1, <3>1, <3>2 DEF Verified, Last
  <2>2. CASE Len(accepted) # 0
    <3>1. Len(accepted) \in 1 .. Len(accepted) BY <2>2, <1>1
    <3>2. accepted[Len(accepted)] = goal[Len(out) + Len(accepted)]
      BY <3>1, <1>1 DEF FollowsGoal
    <3> QED BY <2>2, <3>2, <1>2 DEF Verified, Last
  <2> QED BY <2>1, <2>2
<1>4. Run(goal[n + 1]) BY <1>3
<1>5. Is(kv', n + 1) /\ next' = goal[n + 2] BY <1>1, <1>2, <1>4, RunGoal
<1>6. kv' \in Seq(Entries) /\ next' \in Tokens
  <2>1. Len(kv) >= Len(Prompt) BY <1>1, <1>2, Numbers DEF Is
  <2>2. goal[n + 1] \in Tokens BY <1>2, Numbers DEF Types
  <2> QED BY <2>1, <2>2, <1>4, RunFacts
<1>7. /\ accepted' \in Seq(Tokens) /\ Len(accepted') = Len(accepted) + 1
      /\ accepted'[Len(accepted) + 1] = next'
      /\ \A i \in 1 .. Len(accepted) : accepted'[i] = accepted[i]
  BY <1>6 DEF Types
<1>8. ASSUME NEW i \in 1 .. Len(accepted')
      PROVE  accepted'[i] = goal'[Len(out') + i]
  <2>1. CASE i = Len(accepted) + 1
    <3>1. Len(out') + i = n + 2 BY <2>1, <1>1, <1>2
    <3> QED BY <2>1, <3>1, <1>5, <1>7
  <2>2. CASE i # Len(accepted) + 1
    <3>1. i \in 1 .. Len(accepted) BY <2>2, <1>1, <1>7
    <3> QED BY <3>1, <1>1, <1>7 DEF FollowsGoal
  <2> QED BY <2>1, <2>2
<1>9. Len(out') - 1 + Len(accepted') = n + 1 BY <1>1, <1>2, <1>7
<1>10. Is(kv, Len(out) - 1 + Len(accepted))' BY <1>5, <1>9 DEF Is, Begins
<1> QED BY <1>6, <1>7, <1>8, <1>10 DEF FollowsGoal

LEMMA VerifyKeeps ==
  ASSUME DecodeInv, VerifyStep
  PROVE  DecodeInv'
<1> USE DEF DecodeInv
<1>1. AtVerify /\ phase = "verify" /\ Len(accepted) < Len(draft)
  BY DEF VerifyStep, Phases, Verified
<1>2. /\ UNCHANGED <<speculative, specK, maxNew, goal, fullTopK, out, draft>>
      /\ accepted' = Append(accepted, next')
      /\ Run(IF Verified = 0 THEN Last(out) ELSE Last(accepted))
      /\ phase' \in {"verify", "stream"}
  BY DEF VerifyStep, inputs, Correction
<1>3. /\ kv' \in Seq(Entries) /\ accepted' \in Seq(Tokens) /\ next' \in Tokens
      /\ Len(accepted') = Len(accepted) + 1
      /\ FollowsGoal(accepted)' /\ Is(kv, Len(out) - 1 + Len(accepted))'
  BY <1>1, <1>2, VerifyRun
<1>4. Types' BY <1>2, <1>3 DEF Types
<1>5. Streamed' /\ Bounded' BY <1>2 DEF Streamed, Bounded
<1>6. Rounding' /\ fullTopK' = TRUE /\ Len(draft') = specK'
  BY <1>1, <1>2 DEF AtVerify, Rounding
<1>11. /\ Len(accepted) \in Nat /\ Len(draft) \in Nat /\ Len(out) \in Nat
      /\ specK \in Nat /\ maxNew \in Nat /\ Len(draft) = specK /\ Len(out) < maxNew
  BY <1>1, Numbers DEF AtVerify, Rounding
<1>7. Len(accepted') <= Len(draft')
      /\ Len(out') + Len(accepted') <= maxNew' + specK'
      /\ Len(out') - 1 + Len(accepted') = Len(out') + Len(accepted') - 1
  BY <1>1, <1>2, <1>3, <1>11
<1>12. accepted' # <<>> BY <1>3, <1>11, EmptySeq
<1>8. AtVerify' BY <1>3, <1>6, <1>7 DEF AtVerify
<1>9. AtStream' BY <1>3, <1>6, <1>7, <1>12 DEF AtStream
<1> QED BY <1>2, <1>4, <1>5, <1>8, <1>9 DEF Phases

LEMMA BonusKeeps ==
  ASSUME DecodeInv, Bonus
  PROVE  DecodeInv'
<1> USE DEF DecodeInv
<1>1. AtVerify /\ phase = "verify" /\ Len(accepted) = Len(draft) /\ Len(accepted) # 0
  BY Numbers DEF Bonus, Phases, Verified, AtVerify
<1>2. /\ UNCHANGED <<speculative, specK, maxNew, goal, fullTopK, out, draft>>
      /\ accepted' = Append(accepted, next')
      /\ Run(Last(accepted)) /\ phase' = "stream"
  BY DEF Bonus, inputs
<1>3. Run(IF Verified = 0 THEN Last(out) ELSE Last(accepted))
  BY <1>1, <1>2 DEF Verified
<1>4. /\ kv' \in Seq(Entries) /\ accepted' \in Seq(Tokens) /\ next' \in Tokens
      /\ Len(accepted') = Len(accepted) + 1
      /\ FollowsGoal(accepted)' /\ Is(kv, Len(out) - 1 + Len(accepted))'
  BY <1>1, <1>2, <1>3, VerifyRun
<1>5. Types' BY <1>2, <1>4 DEF Types
<1>6. Streamed' /\ Bounded' BY <1>2 DEF Streamed, Bounded
<1>7. Rounding' /\ fullTopK' = TRUE
  BY <1>1, <1>2 DEF AtVerify, Rounding
<1>8. Len(accepted) = specK BY <1>1 DEF AtVerify
<1>11. /\ Len(accepted) \in Nat /\ Len(out) \in Nat
      /\ specK \in Nat /\ maxNew \in Nat /\ Len(out) < maxNew
  BY <1>1, Numbers DEF AtVerify, Rounding
<1>9. Len(out') + Len(accepted') <= maxNew' + specK'
      /\ Len(out') - 1 + Len(accepted') = Len(out') + Len(accepted') - 1
  BY <1>2, <1>4, <1>8, <1>11
<1>12. accepted' # <<>> BY <1>4, <1>11, EmptySeq
<1>10. AtStream' BY <1>4, <1>7, <1>9, <1>12 DEF AtStream
<1> QED BY <1>2, <1>5, <1>6, <1>10 DEF Phases

LEMMA StreamKeeps ==
  ASSUME DecodeInv, Stream
  PROVE  DecodeInv'
<1> USE DEF DecodeInv
<1>1. AtStream /\ phase = "stream"
  BY DEF Stream, Phases
<1>2. UNCHANGED <<speculative, specK, maxNew, goal, kv, fullTopK, next, draft>>
  BY DEF Stream, inputs
<1>3. /\ Len(accepted) \in Nat \ {0} /\ accepted \in Seq(Tokens)
      /\ Len(out) \in Nat /\ Len(out) < maxNew /\ out # <<>>
  BY <1>1, EmptySeq, Numbers DEF AtStream, Rounding, Types
<1>4. Head(accepted) \in Tokens /\ Head(accepted) = goal[Len(out) + 1]
  <2>1. Head(accepted) = accepted[1] /\ accepted[1] \in Tokens BY <1>3
  <2>2. accepted[1] = goal[Len(out) + 1] BY <1>1, <1>3 DEF AtStream, FollowsGoal
  <2> QED BY <2>1, <2>2
<1>5. CASE Head(accepted) \in EosIds
  <2>1. phase' = "returned" /\ accepted' = <<>> /\ out' = out
    BY <1>5 DEF Stream
  <2>2. Types' BY <2>1, <1>2, EmptySeq DEF Types
  <2>3. Streamed' /\ Bounded' BY <2>1, <1>2 DEF Streamed, Bounded
  <2> QED BY <2>1, <2>2, <2>3 DEF Phases
<1>6. CASE Head(accepted) \notin EosIds
  <2>1. /\ out' = Append(out, Head(accepted))
        /\ accepted' = IF Len(out) + 1 >= maxNew THEN <<>> ELSE Tail(accepted)
        /\ phase' = IF accepted' = <<>> THEN "round" ELSE "stream"
    BY <1>6 DEF Stream, LimitReached
  <2>2. out' \in Seq(Tokens \ EosIds) /\ Len(out') = Len(out) + 1 /\ Streamed' /\ out' # <<>>
    BY <2>1, <1>2, <1>4, <1>6, StreamOne DEF inputs
  <2>3. /\ Tail(accepted) \in Seq(Tokens) /\ Len(Tail(accepted)) = Len(accepted) - 1
        /\ \A i \in 1 .. Len(Tail(accepted)) : Tail(accepted)[i] = accepted[i + 1]
    BY <1>3, HeadTailProperties
  <2>4. Types' BY <2>1, <2>2, <2>3, <1>2, EmptySeq DEF Types
  <2>5. Bounded' BY <2>2, <1>2, <1>3, Numbers DEF Bounded
  <2>6. Is(kv, Len(out) + Len(accepted) - 1) /\ fullTopK = TRUE BY <1>1 DEF AtStream
  <2>7. CASE accepted' = <<>>
    <3>1. ASSUME Len(out') < maxNew' PROVE Is(kv, Len(out) - 1)'
      <4>1. Tail(accepted) = <<>> BY <3>1, <2>1, <2>2, <2>7, <1>2, Numbers
      <4>2. Len(Tail(accepted)) = 0 BY <4>1, EmptySeq
      <4>3. Len(accepted) = 1 BY <4>2, <2>3, <1>3
      <4>4. Len(out) + Len(accepted) - 1 = Len(out') - 1 BY <4>3, <2>2, <1>3
      <4> QED BY <4>4, <2>6, <1>2 DEF Is, Begins
    <3>2. AtRound' BY <3>1, <2>6, <1>2 DEF AtRound
    <3> QED BY <3>2, <2>1, <2>2, <2>4, <2>5, <2>7 DEF Phases
  <2>8. CASE accepted' # <<>>
    <3>1. accepted' = Tail(accepted) /\ Len(out') < maxNew'
      BY <2>1, <2>2, <2>8, <1>2, <1>3, Numbers
    <3>2. Len(out') + Len(accepted') = Len(out) + Len(accepted)
      BY <3>1, <2>2, <2>3, <1>3
    <3>3. Rounding' BY <3>1, <2>2 DEF Rounding
    <3>4. Is(kv, Len(out) + Len(accepted) - 1)'
      <4>1. Len(out') + Len(accepted') - 1 = Len(out) + Len(accepted) - 1 BY <3>2
      <4> QED BY <4>1, <2>6, <1>2 DEF Is, Begins
    <3>5. ASSUME NEW i \in 1 .. Len(accepted')
          PROVE  accepted'[i] = goal'[Len(out') + i]
      <4>1. i + 1 \in 1 .. Len(accepted) BY <3>1, <2>3, <1>3
      <4>2. accepted[i + 1] = goal[Len(out) + (i + 1)] BY <4>1, <1>1 DEF AtStream, FollowsGoal
      <4>3. Len(out) + (i + 1) = Len(out') + i BY <2>2, <1>3
      <4> QED BY <4>2, <4>3, <3>1, <2>3, <1>2
    <3>6. FollowsGoal(accepted)' BY <3>5 DEF FollowsGoal
    <3>7. Len(out') + Len(accepted') <= maxNew' + specK'
      BY <3>2, <1>1, <1>2 DEF AtStream
    <3>8. AtStream' BY <3>3, <3>4, <3>6, <3>7, <2>6, <2>8, <1>2 DEF AtStream
    <3> QED BY <3>8, <2>1, <2>2, <2>4, <2>5, <2>8 DEF Phases
  <2> QED BY <2>7, <2>8
<1> QED BY <1>5, <1>6

LEMMA RaiseKeeps ==
  ASSUME DecodeInv, Raise
  PROVE  DecodeInv'
<1> USE DEF DecodeInv
<1>1. /\ UNCHANGED <<speculative, specK, maxNew, goal, out, next, draft, accepted>>
      /\ fullTopK' = TRUE /\ phase' = "raised"
      /\ kv' = IF phase = "draft" THEN Cropped ELSE kv
  BY DEF Raise, inputs
<1>2. kv' \in Seq(Entries)
  <2>1. phase = "draft" => AtDraft BY DEF Phases
  <2> QED BY <2>1, <1>1, CropGivesExact DEF Types
<1>3. Types' BY <1>1, <1>2 DEF Types
<1>4. Streamed' /\ Bounded' BY <1>1 DEF Streamed, Bounded
<1> QED BY <1>1, <1>3, <1>4 DEF Phases

LEMMA StutterKeeps ==
  ASSUME DecodeInv, UNCHANGED decodeVars
  PROVE  DecodeInv'
<1>1. UNCHANGED <<speculative, specK, maxNew, goal, phase, kv, fullTopK, out, next,
                  draft, accepted>>
  BY DEF decodeVars
<1>2. Types' BY <1>1 DEF DecodeInv, Types
<1>3. Streamed' /\ Bounded' BY <1>1 DEF DecodeInv, Streamed, Bounded
<1>4. Phases'
  BY <1>1 DEF DecodeInv, Phases, AtPrefill, AtPlain, AtFirst, AtRound, AtDraft, AtVerify,
              AtStream, Rounding, Pos, FollowsGoal, Is, Begins
<1> QED BY <1>2, <1>3, <1>4 DEF DecodeInv

\* Every step keeps the invariant.
THEOREM NextKeeps ==
  DecodeInv /\ [DecodeNext]_decodeVars => DecodeInv'
BY PrefillKeeps, PlainKeeps, FirstKeeps, RoundKeeps, DraftKeeps, EndDraftKeeps, VerifyKeeps,
   BonusKeeps, StreamKeeps, RaiseKeeps, StutterKeeps
   DEF DecodeNext, DecodeStopped

LEMMA Invariance ==
  DecodeSpec => []DecodeInv
<1>1. DecodeInit => DecodeInv BY DecodeInitHolds
<1>2. DecodeInv /\ [DecodeNext]_decodeVars => DecodeInv' BY NextKeeps
<1> QED BY <1>1, <1>2, PTL DEF DecodeSpec

-----------------------------------------------------------------------------
(***************************************************************************)
(* The theorems.                                                           *)
(***************************************************************************)
\* The first places of a sequence.
LEMMA SubSeqFacts ==
  ASSUME NEW S, NEW s \in Seq(S), NEW n \in 0 .. Len(s)
  PROVE  /\ SubSeq(s, 1, n) \in Seq(S) /\ Len(SubSeq(s, 1, n)) = n
         /\ \A i \in 1 .. n : SubSeq(s, 1, n)[i] = s[i]
OBVIOUS

\* The invariant says what CacheIsExact does.
LEMMA ExactAtRounds ==
  DecodeInv => CacheIsExact
<1> SUFFICES ASSUME DecodeInv, phase \in {"round", "draft"}, draft = <<>>, out # <<>>,
                    Len(out) < maxNew
             PROVE  Len(kv) = Pos /\ kv = Exact(Prompt \o Front(out))
  BY DEF CacheIsExact
<1> USE DEF DecodeInv
<1> DEFINE n == Len(out) - 1
<1>1. /\ Len(out) \in Nat \ {0} /\ out \in Seq(Tokens)
      /\ n \in 0 .. Horizon /\ n \in 0 .. Len(out)
  <2>1. Len(out) \in Nat \ {0} /\ out \in Seq(Tokens) BY EmptySeq, SeqMonotonic DEF Types
  <2> QED BY <2>1, Numbers
<1>2. Is(kv, n) /\ Len(kv) = Pos
  <2>1. CASE phase = "round"
    BY <2>1, <1>1, Numbers DEF Phases, AtRound, Is, Pos
  <2>2. CASE phase = "draft"
    <3>1. Len(kv) = Pos + Len(draft) /\ Begins(kv, n) BY <2>2 DEF Phases, AtDraft
    <3>2. Len(draft) = 0 BY EmptySeq
    <3> QED BY <3>1, <3>2, <1>1, Numbers DEF Is, Pos
  <2> QED BY <2>1, <2>2
<1>3. kv = Exact(Prompt \o SubSeq(goal, 1, n))
  BY <1>1, <1>2, IsExact DEF Types
<1>4. Front(out) = SubSeq(goal, 1, n)
  <2>1. Front(out) = SubSeq(out, 1, n) BY DEF Front
  <2>2. SubSeq(out, 1, n) \in Seq(Tokens) /\ Len(SubSeq(out, 1, n)) = n
        /\ \A i \in 1 .. n : SubSeq(out, 1, n)[i] = out[i]
    BY <1>1, SubSeqFacts
  <2>3. SubSeq(goal, 1, n) \in Seq(Tokens) /\ Len(SubSeq(goal, 1, n)) = n
        /\ \A i \in 1 .. n : SubSeq(goal, 1, n)[i] = goal[i]
    <3>1. goal \in Seq(Tokens) /\ n \in 0 .. Len(goal) BY <1>1, Numbers
    <3> HIDE DEF n
    <3> QED BY <3>1, SubSeqFacts
  <2>4. \A i \in 1 .. n : out[i] = goal[i] BY <1>1 DEF Streamed
  <2>5. \A i \in 1 .. Len(SubSeq(out, 1, n)) : SubSeq(out, 1, n)[i] = SubSeq(goal, 1, n)[i]
    BY <2>2, <2>3, <2>4
  <2>6. SubSeq(out, 1, n) = SubSeq(goal, 1, n) BY <2>2, <2>3, <2>5, SeqEqual
  <2> QED BY <2>1, <2>6
<1> QED BY <1>2, <1>3, <1>4

\* At the head of every round, for drafts of any length, the KV cache is that
\* of the prompt and the text without its last token, computed by the full
\* model: crop(-len(draft_tokens)) takes away what the draft added, no more.
THEOREM TheCacheIsExact ==
  DecodeSpec => []CacheIsExact
BY Invariance, ExactAtRounds, PTL

\* What is streamed is a prefix of the goal, before its eos and within the limit.
LEMMA TextIsPrefix ==
  DecodeInv => StreamsGoal
<1> SUFFICES ASSUME DecodeInv PROVE StreamsGoal
  OBVIOUS
<1> USE DEF DecodeInv
<1>1. /\ Len(out) \in Nat /\ maxNew \in Nat /\ Len(goal) = Horizon /\ goal \in Seq(Tokens)
      /\ out \in Seq(Tokens \ EosIds) /\ out \in Seq(Tokens)
  BY Numbers, SeqMonotonic DEF Types
<1>2. Limit \in Nat /\ Len(out) <= Limit
  BY <1>1 DEF Bounded, Limit, Types
<1>3. \A i \in 1 .. Len(out) : goal[i] \notin EosIds
  BY <1>1 DEF Streamed
<1>4. Len(out) \in Wanted BY <1>1, <1>2, <1>3 DEF Wanted
<1>5. Len(out) <= Horizon
  BY <1>1, Numbers DEF Bounded
<1>6. SubSeq(goal, 1, Len(out)) = out
  <2>1. SubSeq(goal, 1, Len(out)) \in Seq(Tokens) /\ Len(SubSeq(goal, 1, Len(out))) = Len(out)
        /\ \A i \in 1 .. Len(out) : SubSeq(goal, 1, Len(out))[i] = goal[i]
    BY <1>1, <1>5
  <2> QED BY <2>1, <1>1, SeqEqual DEF Streamed
<1>7. IsPrefix(out, goal) BY <1>1, <1>5, <1>6, SubSeqFull DEF IsPrefix
<1> QED BY <1>4, <1>7 DEF StreamsGoal

\* At every moment the streamed text is what the full model alone generates.
THEOREM TheTextIsTheGoal ==
  DecodeSpec => []StreamsGoal
BY Invariance, TextIsPrefix, PTL

-----------------------------------------------------------------------------
(***************************************************************************)
(* Speculative decoding implements greedy decoding.                        *)
(***************************************************************************)
Ended == phase = "returned"
GreedyVars == <<goal, maxNew, out, Ended>>

LEMMA InitMaps ==
  DecodeInit => Greedy!Init
BY DEF DecodeInit, Greedy!Init

\* A step that streams nothing and does not return is a stutter of the greedy one.
LEMMA Quiet ==
  ASSUME phase # "returned", phase' # "returned", UNCHANGED <<goal, maxNew, out>>
  PROVE  UNCHANGED GreedyVars
<1>1. Ended' = Ended
  <2>1. Ended = FALSE BY DEF Ended
  <2>2. Ended' = FALSE BY DEF Ended
  <2> QED BY <2>1, <2>2
<1> QED BY <1>1 DEF GreedyVars

\* A streamed token is a step Grow.
LEMMA Grows ==
  ASSUME DecodeInv, NEW token, token \notin EosIds, token = goal[Len(out) + 1],
         Len(out) < maxNew \/ out = <<>>, out' = Append(out, token),
         phase # "returned", phase' # "returned", UNCHANGED <<goal, maxNew>>
  PROVE  Greedy!Grow /\ UNCHANGED <<goal, maxNew>>
<1>1. ~(phase = "returned") /\ (phase' = "returned") = (phase = "returned")
  OBVIOUS
<1> QED BY <1>1 DEF Greedy!Grow

\* A return is a step End.
LEMMA Returns ==
  ASSUME DecodeInv, Len(out) >= maxNew \/ goal[Len(out) + 1] \in EosIds,
         phase # "returned", phase' = "returned", UNCHANGED <<goal, maxNew, out>>
  PROVE  Greedy!End /\ UNCHANGED <<goal, maxNew>>
<1>1. ~(phase = "returned") /\ (phase' = "returned") = TRUE
  OBVIOUS
<1> QED BY <1>1 DEF Greedy!End

GreedyStep == (Greedy!Grow \/ Greedy!End) /\ UNCHANGED <<goal, maxNew>>

LEMMA PlainMaps ==
  ASSUME DecodeInv, PlainStep
  PROVE  GreedyStep
<1>1. AtPlain /\ phase = "plain" /\ UNCHANGED <<goal, maxNew>>
  BY DEF DecodeInv, PlainStep, Phases, inputs
<1>2. Len(out) < maxNew => next = goal[Len(out) + 1]
  BY <1>1 DEF AtPlain
<1>3. Len(out) \in Nat /\ maxNew \in Nat BY Numbers DEF DecodeInv
<1>4. CASE Len(out) >= maxNew \/ next \in EosIds
  <2>1. phase' = "returned" /\ out' = out BY <1>4 DEF PlainStep
  <2>2. Len(out) >= maxNew \/ goal[Len(out) + 1] \in EosIds BY <1>2, <1>3, <1>4
  <2> QED BY <2>1, <2>2, <1>1, Returns DEF GreedyStep
<1>5. CASE ~(Len(out) >= maxNew \/ next \in EosIds)
  <2>1. phase' = phase /\ out' = Append(out, next) BY <1>5 DEF PlainStep
  <2> QED BY <2>1, <1>1, <1>2, <1>3, <1>5, Grows DEF GreedyStep
<1> QED BY <1>4, <1>5

LEMMA FirstMaps ==
  ASSUME DecodeInv, First
  PROVE  GreedyStep \/ UNCHANGED GreedyVars
<1>1. AtFirst /\ phase = "first" /\ phase' = "round" /\ UNCHANGED <<goal, maxNew>>
      /\ out' = FirstText
  BY DEF DecodeInv, First, Phases, inputs
<1>2. CASE next \in EosIds
  BY <1>1, <1>2, Quiet DEF FirstText
<1>3. CASE next \notin EosIds
  <2>1. out' = Append(out, next) BY <1>1, <1>3 DEF FirstText
  <2>2. out = <<>> /\ next = goal[Len(out) + 1]
    <3>1. out = <<>> /\ next = goal[1] BY <1>1 DEF AtFirst
    <3>2. Len(out) + 1 = 1 BY <3>1, EmptySeq
    <3> QED BY <3>1, <3>2
  <2> QED BY <2>1, <2>2, <1>1, <1>3, Grows DEF GreedyStep
<1> QED BY <1>2, <1>3

LEMMA RoundMaps ==
  ASSUME DecodeInv, Round
  PROVE  GreedyStep \/ UNCHANGED GreedyVars
<1>1. phase = "round" /\ UNCHANGED <<goal, maxNew, out>>
      /\ phase' = IF Len(out) >= maxNew THEN "returned"
                  ELSE IF out = <<>> THEN "crashed" ELSE "draft"
  BY DEF Round, inputs, Full, AfterLoop
<1>2. CASE Len(out) >= maxNew
  BY <1>1, <1>2, Returns DEF GreedyStep
<1>3. CASE ~(Len(out) >= maxNew)
  BY <1>1, <1>3, Quiet
<1> QED BY <1>2, <1>3

LEMMA StreamMaps ==
  ASSUME DecodeInv, Stream
  PROVE  GreedyStep
<1>1. AtStream /\ phase = "stream" /\ UNCHANGED <<goal, maxNew>>
  BY DEF DecodeInv, Stream, Phases, inputs
<1>2. Len(accepted) \in Nat \ {0} /\ accepted \in Seq(Tokens) /\ Len(out) < maxNew
  BY <1>1, EmptySeq DEF AtStream, Rounding, DecodeInv, Types
<1>3. Head(accepted) = goal[Len(out) + 1]
  <2>1. Head(accepted) = accepted[1] BY <1>2
  <2>2. accepted[1] = goal[Len(out) + 1] BY <1>1, <1>2 DEF AtStream, FollowsGoal
  <2> QED BY <2>1, <2>2
<1>4. CASE Head(accepted) \in EosIds
  <2>1. phase' = "returned" /\ out' = out BY <1>4 DEF Stream
  <2> QED BY <2>1, <1>1, <1>3, <1>4, Returns DEF GreedyStep
<1>5. CASE Head(accepted) \notin EosIds
  <2>1. out' = Append(out, Head(accepted)) /\ phase' # "returned" BY <1>5 DEF Stream
  <2> QED BY <2>1, <1>1, <1>2, <1>3, <1>5, Grows DEF GreedyStep
<1> QED BY <1>4, <1>5

\* The steps of the other phases stream nothing.
LEMMA OthersMap ==
  ASSUME Prefill \/ DraftStep \/ EndDraft \/ VerifyStep \/ Bonus \/ Raise \/ UNCHANGED decodeVars
  PROVE  UNCHANGED GreedyVars
<1>1. CASE Prefill
  BY <1>1, Quiet DEF Prefill, inputs
<1>2. CASE DraftStep
  BY <1>2, Quiet DEF DraftStep, inputs
<1>3. CASE EndDraft
  BY <1>3, Quiet DEF EndDraft, inputs
<1>4. CASE VerifyStep
  BY <1>4, Quiet DEF VerifyStep, inputs
<1>5. CASE Bonus
  BY <1>5, Quiet DEF Bonus, inputs
<1>6. CASE Raise
  BY <1>6, Quiet DEF Raise, inputs
<1>7. CASE UNCHANGED decodeVars
  BY <1>7 DEF decodeVars, GreedyVars, Ended
<1> QED BY <1>1, <1>2, <1>3, <1>4, <1>5, <1>6, <1>7

LEMMA StepMaps ==
  ASSUME DecodeInv, [DecodeNext]_decodeVars
  PROVE  GreedyStep \/ UNCHANGED GreedyVars
BY PlainMaps, FirstMaps, RoundMaps, StreamMaps, OthersMap DEF DecodeNext, DecodeStopped

\* With or without speculation, whatever the draft model proposes and whatever
\* the lengths of rounds and the limit are, generation is greedy decoding: the
\* text grows by the goal's tokens alone and ends where the plain loop ends.
THEOREM SpeculationIsGreedy ==
  DecodeSpec => ImplementsGreedy
<1>1. DecodeInit => Greedy!Init BY InitMaps
<1>2. DecodeInv /\ [DecodeNext]_decodeVars
      => [(Greedy!Grow \/ Greedy!End) /\ UNCHANGED <<goal, maxNew>>]_<<goal, maxNew, out, phase = "returned">>
  BY StepMaps DEF GreedyStep, GreedyVars, Ended
<1> QED BY <1>1, <1>2, Invariance, PTL DEF DecodeSpec, ImplementsGreedy, Greedy!Spec
=============================================================================
