----------------------------- MODULE FastCache -----------------------------
(***************************************************************************)
(* The two-tier expert cache of DomainSlice (domainslice/fast_cache.py):   *)
(* an LRU tier in VRAM whose experts live in the slots of a preallocated   *)
(* arena, an LRU tier in host RAM, and the page store below.  The host     *)
(* only enqueues work: copies into slots go to the current stream, or to   *)
(* the prefetch stream when prefetch_batch makes them, and the kernels     *)
(* that read a slot go to the current stream.  The device works the two    *)
(* streams off independently, so a slot's content lags behind the tables.  *)
(*                                                                         *)
(* Without an arena every expert has a tensor of its own: such entries     *)
(* have the slot NoSlot and no race on a slot.  The model does not follow  *)
(* the allocator's reuse of their memory.                                  *)
(***************************************************************************)
EXTENDS Integers, Sequences, FiniteSets, SequencesExt

CONSTANTS Layers,     \* the number of decoder layers
          Experts,    \* the experts of a layer
          VramCaps,   \* vram_capacity: 0 for execution on the CPU
          RamCap,     \* ram_capacity
          MaxQueue    \* bound: operations waiting in a stream

Keys == (1 .. Layers) \X Experts
NoKey == <<0, 0>>
NoSlot == 0

ASSUME FastCacheAssumption ==
  /\ Layers \in Nat \ {0} /\ RamCap \in Nat \ {0} /\ MaxQueue \in Nat
  /\ IsFiniteSet(Experts) /\ VramCaps \subseteq Nat
  /\ NoKey \notin Keys

VARIABLES vramCap,    \* the capacity of this cache
          arena,      \* "unset", "ready" or "refused" (out of memory)
          ram,        \* _ram_cache: the keys, oldest first
          vram,       \* _vram_cache: [key, slot], oldest first
          free,       \* free_slots, a stack
          keySlot,    \* key_to_slot, oldest first: [key, slot]
          pool,       \* the key whose weights a slot holds
          current,    \* the operations waiting in the current stream
          prefetch,   \* the operations waiting in the prefetch stream
          overtaken,  \* history: has one stream taken a slot that the other
                      \* stream still had work on?
          misread     \* has a kernel read the weights of another expert?

tiers == <<arena, ram, vram, free, keySlot>>
device == <<pool, current, prefetch, overtaken, misread>>
cacheVars == <<vramCap, tiers, device>>

OnGpu == vramCap > 0
AllSlots == 1 .. vramCap

InVram(key) == \E i \in DOMAIN vram : vram[i].key = key
InRam(key) == Contains(ram, key)
Position(entries, key) == CHOOSE i \in DOMAIN entries : entries[i].key = key
Entry(entries, key) == entries[Position(entries, key)]
Without(entries, key) == RemoveAt(entries, Position(entries, key))

\* ExpertVRAMArena.__init__: the stack hands out the slots from the lowest.
FreshStack == [i \in AllSlots |-> vramCap + 1 - i]

CacheInit ==
  /\ vramCap \in VramCaps
  /\ arena = "unset"
  /\ ram = <<>> /\ vram = <<>> /\ free = <<>> /\ keySlot = <<>>
  /\ pool = [s \in AllSlots |-> NoKey]
  /\ current = <<>> /\ prefetch = <<>>
  /\ overtaken = FALSE /\ misread = FALSE

-----------------------------------------------------------------------------
\* The tables of the VRAM tier as one value, for the operators that follow.
Tables == [vram |-> vram, free |-> free, keySlot |-> keySlot]

\* free_slot
FreeSlot(t, key) ==
  IF \E e \in ToSet(t.keySlot) : e.key = key
  THEN [t EXCEPT !.keySlot = Without(@, key),
                 !.free = Append(@, Entry(t.keySlot, key).slot)]
  ELSE t

\* Mutant: the slot of an evicted expert is not returned.
EvictLeaks(t) == IF Len(t.vram) < vramCap THEN t ELSE [t EXCEPT !.vram = Tail(@)]

\* _evict_oldest_vram
EvictOldest(t) ==
  IF Len(t.vram) < vramCap THEN t
  ELSE LET old == Head(t.vram)
           u == [t EXCEPT !.vram = Tail(@)]
       IN  IF old.slot = NoSlot THEN u ELSE FreeSlot(u, old.key)

\* Recycle the slot given out first when none is free (allocate_slot).
Recycled(t) == IF t.free = <<>> THEN FreeSlot(t, Head(t.keySlot).key) ELSE t

\* allocate_slot, and the entry of the VRAM tier for the slot.
Allocate(t, key) ==
  LET u == Recycled(t)
      slot == Last(u.free)
  IN  [vram |-> Append(u.vram, [key |-> key, slot |-> slot]),
       free |-> Front(u.free),
       keySlot |-> Append(u.keySlot, [key |-> key, slot |-> slot])]

\* An entry with a tensor of its own, when there is no arena.
Own(t, key) == [t EXCEPT !.vram = Append(@, [key |-> key, slot |-> NoSlot])]

\* The tables after the oldest expert made room and key moved in, and the
\* state of the arena: _ensure_arena creates it once, or finds that it does
\* not fit and never tries again.
Places(key, how) ==
  LET t == EvictOldest(Tables)
      u == IF arena = "unset" /\ how = "ready" THEN [t EXCEPT !.free = FreshStack] ELSE t
      placed == IF how = "ready" THEN Allocate(u, key) ELSE Own(t, key)
  IN  /\ how \in IF arena = "unset" THEN {"ready", "refused"} ELSE {arena}
      /\ arena' = how
      /\ vram' = placed.vram /\ free' = placed.free /\ keySlot' = placed.keySlot

NewSlot(key) == Entry(vram', key).slot

Copy(key) ==
  IF NewSlot(key) = NoSlot THEN <<>>
  ELSE <<[op |-> "copy", slot |-> NewSlot(key), key |-> key, after |-> 0]>>
Read(slot, key) ==
  IF slot = NoSlot THEN <<>>
  ELSE <<[op |-> "read", slot |-> slot, key |-> key, after |-> 0]>>

\* Mutant: a hit does not wait for the prefetch stream.
NoWait == <<>>

\* wait_stream: nothing later in the current stream runs before what the
\* prefetch stream holds now.
WaitPrefetch == <<[op |-> "wait", slot |-> NoSlot, key |-> NoKey, after |-> Len(prefetch)]>>

Room(queue) == Len(queue) < MaxQueue

\* The new slot of key is still in use by the other stream.
Overtakes(key, other) ==
  overtaken' = (overtaken \/ NewSlot(key) \in {op.slot : op \in ToSet(other)} \ {NoSlot})

-----------------------------------------------------------------------------
\* prefetch_batch, for one of its experts: one that is in RAM and not in VRAM
\* is copied on the prefetch stream; any other is left alone.
Prefetch(key) ==
  IF OnGpu /\ ~InVram(key) /\ InRam(key)
  THEN /\ Room(prefetch)
       /\ \E how \in {"ready", "refused"} : Places(key, how)
       /\ prefetch' = prefetch \o Copy(key)
       /\ Overtakes(key, current)
       /\ UNCHANGED <<vramCap, ram, pool, current, misread>>
  ELSE UNCHANGED cacheVars

Touched(queue, key) ==
  Append(RemoveAt(queue, CHOOSE i \in DOMAIN queue : queue[i] = key), key)

\* get_or_load finds the expert in VRAM, and the caller's kernels read it.
VramHit(key) ==
  LET e == Entry(vram, key)
  IN  /\ OnGpu /\ InVram(key)
      /\ Room(current)
      /\ vram' = Append(Without(vram, key), e)
      /\ current' = current \o WaitPrefetch \o Read(e.slot, key)
      /\ UNCHANGED <<vramCap, arena, ram, free, keySlot, pool, prefetch, overtaken, misread>>

\* The expert, now in RAM, is copied into VRAM on the current stream and read;
\* on the CPU it is used as it is.
Promote(key) ==
  \/ /\ OnGpu
     /\ Room(current)
     /\ \E how \in {"ready", "refused"} : Places(key, how)
     /\ current' = current \o Copy(key) \o Read(NewSlot(key), key)
     /\ Overtakes(key, prefetch)
     /\ UNCHANGED <<vramCap, pool, prefetch, misread>>
  \/ /\ ~OnGpu
     /\ UNCHANGED <<vramCap, arena, vram, free, keySlot, device>>

RamHit(key) ==
  /\ ~(OnGpu /\ InVram(key)) /\ InRam(key)
  /\ ram' = Touched(ram, key)
  /\ Promote(key)

\* The RAM tier makes room for an expert read from the store.
Staged(key) == Append(IF Len(ram) >= RamCap THEN Tail(ram) ELSE ram, key)

Misses(key) == ~(OnGpu /\ InVram(key)) /\ ~InRam(key)

\* The expert's page, which the caller of this action holds, is staged in RAM
\* (quantized or not) and promoted.
LoadFromPage(key) ==
  /\ Misses(key)
  /\ ram' = Staged(key)
  /\ Promote(key)

\* clear: the tables and the arena are emptied; the streams are not waited for.
Clear ==
  /\ ram' = <<>> /\ vram' = <<>> /\ keySlot' = <<>>
  /\ free' = IF arena = "ready" THEN FreshStack ELSE free
  /\ UNCHANGED <<vramCap, arena, device>>

-----------------------------------------------------------------------------
\* The device runs the head of a stream.
RunCopy(op) == pool' = [pool EXCEPT ![op.slot] = op.key]

DeviceCurrent ==
  /\ current # <<>>
  /\ LET op == Head(current)
     IN  \/ op.op = "copy" /\ RunCopy(op) /\ UNCHANGED misread
         \/ /\ op.op = "read"
            /\ misread' = (misread \/ pool[op.slot] # op.key)
            /\ UNCHANGED pool
         \/ op.op = "wait" /\ op.after = 0 /\ UNCHANGED <<pool, misread>>
  /\ current' = Tail(current)
  /\ UNCHANGED <<vramCap, tiers, prefetch, overtaken>>

\* One operation fewer that a wait in the current stream is waiting for.
OneFewer(op) == [op EXCEPT !.after = IF @ > 0 THEN @ - 1 ELSE 0]

DevicePrefetch ==
  /\ prefetch # <<>>
  /\ RunCopy(Head(prefetch))
  /\ prefetch' = Tail(prefetch)
  /\ current' = [i \in DOMAIN current |-> OneFewer(current[i])]
  /\ UNCHANGED <<vramCap, tiers, overtaken, misread>>

-----------------------------------------------------------------------------
KeysOf(entries) == {e.key : e \in ToSet(entries)}
SlotsOf(entries) == {e.slot : e \in ToSet(entries)} \ {NoSlot}

\* Types of the cache's variables.
CacheTypeOK ==
  /\ vramCap \in VramCaps
  /\ arena \in {"unset", "ready", "refused"}
  /\ ToSet(ram) \subseteq Keys
  /\ KeysOf(vram) \cup KeysOf(keySlot) \subseteq Keys
  /\ SlotsOf(vram) \cup SlotsOf(keySlot) \cup ToSet(free) \subseteq AllSlots
  /\ pool \in [AllSlots -> Keys \cup {NoKey}]
  /\ \A op \in ToSet(current) \cup ToSet(prefetch) :
       op.op \in {"copy", "read", "wait"} /\ op.slot \in AllSlots \cup {NoSlot}
  /\ overtaken \in BOOLEAN /\ misread \in BOOLEAN

\* Neither tier ever holds more experts than its capacity or one expert twice,
\* whatever prefetches, hits and loads come between (_evict_oldest_vram and
\* the RAM tier's popitem run before each insertion).
TiersAreBounded ==
  /\ Len(vram) <= vramCap /\ Cardinality(KeysOf(vram)) = Len(vram)
  /\ Len(ram) <= RamCap /\ IsInjective(ram)

\* With an arena the slots are exactly divided: those of the experts in VRAM,
\* each with its own, and the free ones.  So allocate_slot never recycles the
\* slot of an expert the VRAM tier still serves, and no slot is lost.
SlotsAreDivided ==
  arena = "ready" =>
    /\ ToSet(vram) = ToSet(keySlot)
    /\ Cardinality(SlotsOf(vram)) = Len(vram)
    /\ SlotsOf(vram) \cup ToSet(free) = AllSlots
    /\ SlotsOf(vram) \cap ToSet(free) = {}
    /\ IsInjective(free)

\* A kernel reads the weights of another expert only after one stream took a
\* slot on which the other still had work: a hit waits for the prefetch that
\* filled the slot, and within a stream the order of the host is kept.  (An
\* eviction does not wait for the other stream, so the race does happen.)
ReadsAreRight == misread => overtaken
=============================================================================
