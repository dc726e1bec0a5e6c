---------------------------- MODULE PagedRunner ----------------------------
(***************************************************************************)
(* The one-token runner of DomainSlice over its pages                      *)
(* (runtime/hf/olmoe_model.py, olmoe_layer.py, olmoe_paged.py): it builds  *)
(* its backbone, runs a token through every layer, and each layer routes   *)
(* the token to experts that come from the memory cache (FastCache) or,    *)
(* without a resident backbone, straight from pages.  Every page is leased *)
(* from the store, used and released; any use may raise.                   *)
(*                                                                         *)
(* A pass is a list of tasks that the routing of a layer extends; an       *)
(* exception drops the rest of the list.                                   *)
(***************************************************************************)
EXTENDS FastCache

CONSTANTS TopK,        \* num_experts_per_tok
          MaxFailures  \* bound: uses of pages that raise

ASSUME RunnerAssumption == TopK \in 1 .. Cardinality(Experts) /\ MaxFailures \in Nat

VARIABLES resident,    \* resident_backbone
          topK,        \* how many experts the gates choose in this pass
          built,       \* Len(_resident_layers), Unbuilt when it is None
          todo,        \* the tasks left of the pass; empty between passes
          lease,       \* the page handles held
          ran,         \* how many layers this pass has run
          output,      \* the layers behind the last logits returned, or NoOutput
          failures

runnerVars == <<resident, topK, built, todo, lease, ran, output, failures>>
vars == <<cacheVars, runnerVars>>

Unbuilt == -1
NoOutput == -1

\* The tasks: lease one page for a tensor of the backbone; start or extend the
\* list of resident layers; run all resident layers; run one layer; route;
\* prefetch or get an expert through the cache; use an expert's page; return.
Task(what, key) == [what |-> what, key |-> key]
Page == Task("page", NoKey)
Layer(l) == Task("layer", <<l, 0>>)

\* For each layer its page and a task.
LayerByLayer(what) ==
  [i \in 1 .. 2 * Layers |-> IF i % 2 = 1 THEN Page ELSE Task(what, <<i \div 2, 0>>)]

\* _init_resident_backbone: embedding, norm and head, then layer by layer.
BuildProgram == <<Page, Page, Page, Task("begin", NoKey)>> \o LayerByLayer("built")

\* run with a resident backbone: build it unless there is one, run the layers.
ResidentProgram ==
  (IF built = Unbuilt THEN BuildProgram ELSE <<>>)
    \o <<Task("decoders", NoKey), Task("return", NoKey)>>

\* run without: each layer's backbone is leased for that layer alone.
StreamedProgram ==
  <<Page>> \o LayerByLayer("layer") \o <<Page, Page, Task("return", NoKey)>>

Init ==
  /\ CacheInit
  /\ resident \in BOOLEAN /\ topK = TopK
  /\ built = Unbuilt /\ todo = <<>> /\ lease = 0
  /\ ran = 0 /\ output = NoOutput /\ failures = 0

\* A caller runs one token; a draft pass of speculative decoding sets the gates
\* of the resident layers to fewer experts (_set_model_top_k).
StartPass ==
  /\ todo = <<>>
  /\ todo' = IF resident THEN ResidentProgram ELSE StreamedProgram
  /\ topK' \in IF resident /\ built # Unbuilt THEN 1 .. TopK ELSE {TopK}
  /\ ran' = 0
  /\ UNCHANGED <<cacheVars, resident, built, lease, output, failures>>

Doing(what) == todo # <<>> /\ Head(todo).what = what
Key == Head(todo).key
Done == todo' = Tail(todo)

-----------------------------------------------------------------------------
\* materialize: the head task needs a page, and leases it.
NeedsPage ==
  \/ Doing("page") \/ Doing("expert")
  \/ Doing("get") /\ Misses(Key)

Lease ==
  /\ NeedsPage /\ lease = 0
  /\ lease' = 1
  /\ UNCHANGED <<cacheVars, resident, topK, built, todo, ran, output, failures>>

\* The handles held after an exception: release runs in the finally of a use.
Unwound == 0

Released == 0

\* A tensor of the backbone, or an expert without a cache, is used and its
\* page released.
UsePage ==
  /\ Doing("page") \/ Doing("expert")
  /\ lease = 1
  /\ lease' = Released
  /\ Done
  /\ UNCHANGED <<cacheVars, resident, topK, built, ran, output, failures>>

\* The list of resident layers is created, and extended by a layer.
BeginLayers ==
  /\ Doing("begin")
  /\ built' = 0
  /\ Done
  /\ UNCHANGED <<cacheVars, resident, topK, lease, ran, output, failures>>

AppendLayer ==
  /\ Doing("built")
  /\ built' = built + 1
  /\ Done
  /\ UNCHANGED <<cacheVars, resident, topK, lease, ran, output, failures>>

\* Mutant: the first layer is taken for the embedding.
SkipsFirst == [l \in 1 .. built - 1 |-> Layer(l + 1)]

\* The loop over the resident layers, those there are.
DecoderLoop == [l \in 1 .. built |-> Layer(l)]

RunDecoders ==
  /\ Doing("decoders")
  /\ todo' = DecoderLoop \o Tail(todo)
  /\ UNCHANGED <<cacheVars, resident, topK, built, lease, ran, output, failures>>

-----------------------------------------------------------------------------
\* The indices of the chosen experts come to the host by tolist, which waits for
\* the current stream, and for it only.
Synchronized == current = <<>>

\* Does the VRAM tier hold this expert of the layer?
Resident(l, e) == InVram(<<l, e>>)
Ranks(ranking, S) == {i \in DOMAIN ranking : ranking[i] \in S}
Best(ranking, S) == ranking[CHOOSE i \in Ranks(ranking, S) : \A j \in Ranks(ranking, S) : i <= j]
TopOf(ranking) == SubSeq(ranking, 1, topK)

\* The experts commit routing may bring in.
Available(l, chosen) == {e \in Experts : Resident(l, e)} \ ToSet(chosen)

\* _apply_commit_routing: the weakest expert chosen is replaced by the best
\* resident one not chosen, if it is not resident itself and the two are near.
Committed(l, ranking, near) ==
  LET chosen == TopOf(ranking)
      others == Available(l, chosen)
      swap == others # {} /\ near /\ ~Resident(l, Last(chosen))
  IN  IF swap THEN Append(Front(chosen), Best(ranking, others)) ELSE chosen

Tasks(what, l, chosen) == [i \in DOMAIN chosen |-> Task(what, <<l, chosen[i]>>)]

\* PagedOlmoeSparseMoeBlock.forward: the router ranks the experts, commit
\* routing may replace one, the same experts of the next layer and then the
\* chosen ones are prefetched, and each is got and executed.
Chosen(l, ranking, commit, near) ==
  IF commit /\ OnGpu THEN Committed(l, ranking, near) ELSE TopOf(ranking)

MoeTasks(l, chosen) ==
  IF ~resident THEN Tasks("expert", l, chosen)
  ELSE (IF OnGpu /\ l < Layers THEN Tasks("prefetch", l + 1, chosen) ELSE <<>>)
         \o (IF OnGpu THEN Tasks("prefetch", l, chosen) ELSE <<>>)
         \o Tasks("get", l, chosen)

Rankings == {r \in [1 .. Cardinality(Experts) -> Experts] : IsInjective(r)}

Route ==
  /\ Doing("layer")
  /\ Synchronized
  /\ \E ranking \in Rankings, commit, near \in BOOLEAN :
       todo' = MoeTasks(Key[1], Chosen(Key[1], ranking, commit, near)) \o Tail(todo)
  /\ ran' = ran + 1
  /\ UNCHANGED <<cacheVars, resident, topK, built, lease, output, failures>>

RunPrefetch ==
  /\ Doing("prefetch")
  /\ Prefetch(Key)
  /\ Done
  /\ UNCHANGED <<resident, topK, built, lease, ran, output, failures>>

GetFromVram ==
  /\ Doing("get")
  /\ VramHit(Key)
  /\ Done
  /\ UNCHANGED <<resident, topK, built, lease, ran, output, failures>>

GetFromRam ==
  /\ Doing("get")
  /\ RamHit(Key)
  /\ Done
  /\ UNCHANGED <<resident, topK, built, lease, ran, output, failures>>

GetFromStore ==
  /\ Doing("get") /\ lease = 1
  /\ LoadFromPage(Key)
  /\ lease' = Released
  /\ Done
  /\ UNCHANGED <<resident, topK, built, ran, output, failures>>

\* The logits of the pass are returned.
Return ==
  /\ Doing("return")
  /\ output' = ran
  /\ Done
  /\ UNCHANGED <<cacheVars, resident, topK, built, lease, ran, failures>>

\* Materializing or using a page raises: the page is released and the pass
\* abandoned, with whatever the runner has built so far.
Fail ==
  /\ NeedsPage
  /\ failures < MaxFailures
  /\ failures' = failures + 1
  /\ lease' = Unwound
  /\ todo' = <<>>
  /\ UNCHANGED <<cacheVars, resident, topK, built, ran, output>>

\* Between passes, on an idle device, the owner of the cache may clear it (only
\* the tests do).
ClearCache ==
  /\ todo = <<>> /\ ram # <<>>
  /\ current = <<>> /\ prefetch = <<>>
  /\ Clear
  /\ UNCHANGED runnerVars

RunCurrent == DeviceCurrent /\ UNCHANGED runnerVars
RunPrefetched == DevicePrefetch /\ UNCHANGED runnerVars

Host ==
  \/ Lease \/ UsePage \/ BeginLayers \/ AppendLayer \/ RunDecoders \/ Route
  \/ RunPrefetch \/ GetFromVram \/ GetFromRam \/ GetFromStore \/ Return

Next ==
  \/ StartPass
  \/ Lease \/ UsePage \/ BeginLayers \/ AppendLayer \/ RunDecoders \/ Route
  \/ RunPrefetch \/ GetFromVram \/ GetFromRam \/ GetFromStore \/ Return
  \/ Fail \/ ClearCache
  \/ RunCurrent \/ RunPrefetched

\* The host goes on with a pass it started and the device with its streams.
Spec == Init /\ [][Next]_vars
             /\ WF_vars(Host) /\ WF_vars(RunCurrent) /\ WF_vars(RunPrefetched)

-----------------------------------------------------------------------------
\* Types of the runner's variables.
TypeOK ==
  /\ CacheTypeOK
  /\ resident \in BOOLEAN /\ topK \in 1 .. TopK /\ built \in Unbuilt .. Layers
  /\ lease \in {0, 1} /\ ran \in 0 .. Layers /\ output \in NoOutput .. Layers
  /\ failures \in 0 .. MaxFailures

\* No page stays leased when a pass is over, returned or raised, so the pages
\* of a failed pass can be evicted (the finally blocks of olmoe_paged.py,
\* olmoe_layer.py, olmoe_model.py and fast_cache.py).
NoLeaseOutlivesPass == todo = <<>> => lease = 0

\* Logits come from all layers, whatever failed in earlier passes of a runner
\* without a resident backbone, and for one with it as long as nothing failed.
\* (_resident_layers is set before its layers are built: a runner used again
\* after a failure there returns logits of the layers it has.)
EveryLayerRuns ==
  output # NoOutput /\ (~resident \/ failures = 0) => output = Layers

Executes(task) == task.what \in {"get", "expert"}

\* The experts a layer executes are different ones, also after commit routing
\* replaced one: none is counted twice in the mixture.
ExecutesDistinct ==
  \A i, j \in DOMAIN todo :
    Executes(todo[i]) /\ Executes(todo[j]) /\ todo[i].key = todo[j].key => i = j

\* A pass that was started ends: the waits between the streams never hold it.
EveryPassEnds == todo # <<>> ~> todo = <<>>

\* Types, and the tiers with their slots.
TiersSound == TypeOK /\ TiersAreBounded /\ SlotsAreDivided

\* Every pass ends, with nothing leased, and what it returns went through every
\* layer and each chosen expert once.
PassesAreWhole ==
  [](NoLeaseOutlivesPass /\ EveryLayerRuns /\ ExecutesDistinct) /\ EveryPassEnds
=============================================================================
