------------------------------- MODULE Package -------------------------------
(***************************************************************************)
(* The life of a package: planned from an order, written item by item      *)
(* (package/writer.py), validated (package/validator.py) and read by       *)
(* address (runtime/hf, runtime/expert, runtime/ple).  Once it is built    *)
(* something outside the program may damage it.  How a build is crashed,   *)
(* resumed and journaled is the subject of PackageWriter; a checksum is    *)
(* the content it was computed from.                                       *)
(***************************************************************************)
EXTENDS PackagePlan

CONSTANTS
  Orders,        \* what packages are made from
  Histories,     \* token histories the PLE table is asked for
  WordBits,      \* the width of the hash arithmetic: 64
  BitXor(_, _),     \* the exclusive or of two words
  CacheRows,     \* rows the PLE store keeps
  CacheWeights,  \* weights PackageWeights keeps
  HeadChunk      \* rows of a linear layer decoded at a time

ASSUME PackageAssumption ==
  /\ \A order \in Orders : IsOrder(order)
  /\ WordBits \in Nat \ {0} /\ CacheRows \in Nat \ {0}
  /\ CacheWeights \in Nat /\ HeadChunk \in Nat \ {0}

Regions == {"dense", "experts", "ple"}

VARIABLES
  order,     \* what is asked for
  stage,     \* where its package is
  plan,      \* the build plan
  files,     \* files[r]: bytes of a region file, <<>> when there is none
  done,      \* work items written and journaled
  sums,      \* the checksums of the journal, one for every item written
  manifest,  \* regions the manifest describes: region -> content, or NoManifest
  finished,  \* the journal says the build is complete
  config,    \* metadata/config.json is the source's
  damage,    \* what was done to the package
  report,    \* what the validator said of the package as it is
  model,     \* what build_causal_lm returned
  cached,    \* PackageWeights: <<tensor, weights>>, least recently used first
  rows,      \* PleRowStore: <<row, weights>>, least recently used first
  got        \* the last read: what was asked for and what came

disk   == <<files, done, sums, manifest, finished, config>>
memory == <<model, cached, rows, got>>
vars   == <<order, stage, plan, disk, damage, report, memory>>

NoManifest == [r \in {} |-> <<>>]
NoPlan     == [work |-> <<>>, bank |-> <<>>]
Raised     == <<>>
Zero       == <<-3, 0>>   \* a weight masked with zero
NoRead     == [what |-> <<"nothing">>, value |-> Raised]

Init ==
  /\ order \in Orders
  /\ stage = "ordered" /\ plan = NoPlan
  /\ files = [r \in Regions |-> <<>>] /\ done = 0 /\ sums = <<>>
  /\ manifest = NoManifest /\ finished = FALSE /\ config = TRUE
  /\ damage = "none" /\ report = "none"
  /\ model = "none" /\ cached = <<>> /\ rows = <<>> /\ got = NoRead

PlanPackage ==
  /\ stage = "ordered"
  /\ IF Refused(order) THEN stage' = "refused" /\ plan' = plan
     ELSE stage' = "planned" /\ plan' = Plan(order)
  /\ UNCHANGED <<order, disk, damage, report, memory>>

-----------------------------------------------------------------------------
(* PackageWriter.build                                                     *)

\* The hash tensors are read before anything is written.
StartBuild ==
  /\ stage = "planned"
  /\ stage' = IF IndexError(order) THEN "failed" ELSE "building"
  /\ UNCHANGED <<order, plan, disk, damage, report, memory>>

\* Only quantized experts and rows can be written, and only as planned.
ItemFits(item) ==
  CASE item.region = "dense"   -> Fits(item.parts[1].matrix)
    [] item.region = "experts" -> \A p \in ToSet(item.parts) : p.matrix.bits < 16 /\ Fits(p.matrix)
    [] item.region = "ple" ->
         LET m == item.parts[1].matrix
         IN  /\ m.bits < 16 /\ Packable(m)
             /\ Len(Codes(0, 0, m)) = m.rows * m.spans.codes.len
             /\ Len(Numbers("scales", 0, 0, m)) = m.rows * m.spans.scales.len
             /\ Len(Numbers("zeros", 0, 0, m)) = m.rows * m.spans.zeros.len

\* Row i of a shard: its part of every section.
RowOfShard(p, i) ==
  LET m == p.matrix
      cut(s, len) == SubSeq(s, (i * len) + 1, (i + 1) * len)
  IN  cut(Codes(p.tensor, p.first, m), m.spans.codes.len)
        \o cut(Numbers("scales", p.tensor, p.first, m), m.spans.scales.len)
        \o cut(Numbers("zeros", p.tensor, p.first, m), m.spans.zeros.len)

Payload(item) ==
  IF item.region = "ple"
  THEN FlattenSeq([i \in 1..item.parts[1].matrix.rows |-> RowOfShard(item.parts[1], i - 1)])
  ELSE FlattenSeq([k \in 1..Len(item.parts) |->
         Encode(item.parts[k].tensor, item.parts[k].first, item.parts[k].matrix)])

Written(file, at, payload) ==
  [i \in DOMAIN file |-> IF i > at /\ i <= at + Len(payload) THEN payload[i - at] ELSE file[i]]

\* Rows are written one by one, each into its page.
Stored(file, item) ==
  IF item.region # "ple" THEN Written(file, item.at, Payload(item))
  ELSE FoldLeft(LAMBDA f, i : Written(f, RowOffset(plan.row, item.at + i - 1),
                                      RowOfShard(item.parts[1], i - 1)),
                file, [i \in 1..item.parts[1].matrix.rows |-> i])

Preallocated(r) ==
  IF files[r] # <<>> THEN files[r] ELSE [i \in 1..plan.bytes[r] |-> Hole]

WriteItem ==
  /\ stage = "building" /\ done < Len(plan.work)
  /\ LET item == plan.work[done + 1]
     IN  IF ItemFits(item)
         THEN /\ files' = [files EXCEPT ![item.region] = Stored(Preallocated(item.region), item)]
              /\ sums' = Append(sums, [region |-> item.region, key |-> item.key, at |-> item.at,
                                       rows |-> item.parts[1].matrix.rows, value |-> Payload(item)])
              /\ done' = done + 1 /\ stage' = stage
         ELSE stage' = "failed" /\ UNCHANGED <<files, sums, done>>
  /\ report' = "none"
  /\ UNCHANGED <<order, plan, manifest, finished, config, damage, memory>>

WriteMetadata ==
  /\ stage = "building" /\ done = Len(plan.work)
  /\ manifest' = [r \in {q \in Regions : files[q] # <<>>} |-> files[r]]
  /\ stage' = "described" /\ report' = "none"
  /\ UNCHANGED <<order, plan, files, done, sums, finished, config, damage, memory>>

Finish ==
  /\ stage = "described"
  /\ finished' = TRUE /\ stage' = "built" /\ report' = "none"
  /\ UNCHANGED <<order, plan, files, done, sums, manifest, config, damage, memory>>

-----------------------------------------------------------------------------
(* One thing happens to a package behind the program's back.               *)

Damage(what) ==
  /\ stage = "built" /\ damage = "none" /\ got = NoRead
  /\ damage' = what /\ report' = "none"
  /\ UNCHANGED <<order, stage, plan, done, sums, finished, memory>>

Corrupt(r, i) ==
  /\ Damage("byte") /\ files[r] # <<>>
  /\ files' = [files EXCEPT ![r][i] = Rot] /\ UNCHANGED <<manifest, config>>

Truncate(r) ==
  /\ Damage("length") /\ files[r] # <<>>
  /\ files' = [files EXCEPT ![r] = Front(@)] /\ UNCHANGED <<manifest, config>>

Delete(r) ==
  /\ Damage("file") /\ files[r] # <<>>
  /\ files' = [files EXCEPT ![r] = <<>>] /\ UNCHANGED <<manifest, config>>

Undescribe(r) ==
  /\ Damage("manifest") /\ r \in DOMAIN manifest
  /\ manifest' = [q \in DOMAIN manifest \ {r} |-> manifest[q]] /\ UNCHANGED <<files, config>>

ReplaceConfig ==
  /\ Damage("config")
  /\ config' = FALSE /\ UNCHANGED <<files, manifest>>

-----------------------------------------------------------------------------
(* PtitanValidator.validate                                                *)

Overlap(spans, limit) ==
  \/ \E s \in spans : s[1] < 0 \/ s[2] < s[1] \/ s[2] > limit
  \/ \E s, t \in spans : s # t /\ s[1] < t[2] /\ t[1] < s[2]

RegionErrors ==
  \E r \in Regions :
    IF plan.bytes[r] = 0 THEN r \in DOMAIN manifest
    ELSE r \notin DOMAIN manifest \/ Len(files[r]) # plan.bytes[r]
           \/ Len(manifest[r]) # plan.bytes[r]

DenseLayoutErrors ==
  Overlap({<<DenseAt(plan.dense, k), DenseAt(plan.dense, k) + MatrixBytes(plan.dense[k])>> :
             k \in 1..Len(plan.dense)}, plan.bytes.dense)

ExpertLayoutErrors ==
  LET ps == plan.record.projections
  IN  /\ plan.bytes.experts > 0
      /\ \/ plan.record.stride % PageBytes # 0 \/ plan.record.payload > plan.record.stride
         \/ Overlap({<<ProjectionAt(ps, k), ProjectionAt(ps, k) + MatrixBytes(ps[k])>> :
                       k \in 1..Len(ps)}, plan.record.payload)

PleLayoutErrors ==
  /\ plan.bytes.ple > 0
  /\ LET h == order.heads
         logical  == {<<s.logical, s.logical + s.rows>> : s \in ToSet(plan.shards)}
         physical == {<<s.first, s.first + s.rows>> : s \in ToSet(plan.shards)}
         summed   == {<<s.at, s.at + s.rows>> : s \in {t \in ToSet(sums) : t.region = "ple"}}
     IN  \/ ~IsSorted(h.offsets, LAMBDA a, b : a <= b)
         \/ \E k \in 1..Len(h.sizes) :
              h.sizes[k] <= 0 \/ h.offsets[k] < 0 \/ h.offsets[k] + h.sizes[k] > LogicalRows(order)
         \/ plan.row.perPage * plan.row.payload > plan.row.page
         \/ Overlap(logical, LogicalRows(order)) \/ Overlap(physical, PhysicalRows(order))
         \/ Overlap(summed, PhysicalRows(order))
         \/ order.profile = "full"
              /\ UNION {s[1]..s[2] - 1 : s \in summed} # 0..PhysicalRows(order) - 1

\* Every item is journaled, with its checksum.
JournalErrors ==
  {<<s.region, s.key>> : s \in ToSet(sums)} # {<<w.region, w.key>> : w \in ToSet(plan.work)}

\* Mutant: a record is read back from its codes alone.
ReadBackCodes(s) ==
  IF s.region = "ple"
  THEN FlattenSeq([i \in 1..s.rows |->
         SubSeq(files.ple, RowOffset(plan.row, s.at + i - 1) + 1,
                RowOffset(plan.row, s.at + i - 1) + plan.row.payload)])
  ELSE [i \in 1..Len(s.value) |->
          IF s.value[i][1] = "zeros" THEN s.value[i] ELSE CellAt(files[s.region], s.at + i - 1)]

\* What the bytes an item was checksummed over are now.
ReadBack(s) ==
  IF s.region = "ple"
  THEN FlattenSeq([i \in 1..s.rows |->
         SubSeq(files.ple, RowOffset(plan.row, s.at + i - 1) + 1,
                RowOffset(plan.row, s.at + i - 1) + plan.row.payload)])
  ELSE SubSeq(files[s.region], s.at + 1, s.at + Len(s.value))

ChecksumErrors == \E s \in ToSet(sums) : ReadBack(s) # s.value

HashErrors == \E r \in DOMAIN manifest : files[r] # <<>> /\ files[r] # manifest[r]

Codec(region, m) == IF m.bits >= 16 THEN "raw" ELSE IF region = "ple" THEN "ple" ELSE "scalar"

CodecOf(k) == Codec(plan.work[k].region, plan.work[k].parts[1].matrix)

\* One payload for every codec: the first item that uses it.
Sample == {k \in 1..Len(plan.work) : \A j \in 1..k - 1 : CodecOf(j) # CodecOf(k)}

\* The zero points of a group of weights all above or all below zero lie
\* outside the range of the codes.
Insane(k) ==
  LET p == plan.work[k].parts[1]
  IN  p.matrix.bits < 16 /\ ~p.matrix.sym /\ p.tensor \in order.offcentre

\* The file of a sample is opened, and read to the end of the sample.
SampleUnreadable ==
  \E k \in Sample :
    LET w == plan.work[k]
        end == IF w.region = "ple" THEN plan.row.payload
               ELSE w.at + MatrixBytes(w.parts[1].matrix)
    IN  Len(files[w.region]) < end

Errors(mode) ==
  \/ ~config \/ ~finished \/ RegionErrors
  \/ DenseLayoutErrors \/ ExpertLayoutErrors \/ PleLayoutErrors
  \/ JournalErrors \/ ChecksumErrors
  \/ mode = "full" /\ (HashErrors \/ \E k \in Sample : Insane(k))

\* What the validator looks up without a check.
Raises(mode) ==
  \/ \E r \in Regions : plan.bytes[r] > 0 /\ r \notin DOMAIN manifest
  \/ mode = "full" /\ SampleUnreadable

\* The report is the mode it accepts the package in, or why it does not.
Validate(mode) ==
  /\ stage \in {"building", "described", "built", "failed"} /\ got = NoRead /\ model = "none"
  /\ report' = IF manifest = NoManifest THEN "invalid"
               ELSE IF Raises(mode) THEN "raised"
               ELSE IF Errors(mode) THEN "invalid" ELSE mode
  /\ UNCHANGED <<order, stage, plan, disk, damage, memory>>

-----------------------------------------------------------------------------
(* Reading.  PackageWeights reads a dense entry whole and keeps what fits  *)
(* into its budget.                                                        *)

Entry(n) == CHOOSE k \in 1..Len(plan.dense) : plan.work[k].key = <<n>>
Names    == {plan.work[k].key[1] : k \in 1..Len(plan.dense)}

EntryBytes(n) ==
  SubSeq(files.dense, plan.work[Entry(n)].at + 1, plan.work[Entry(n)].at + MatrixBytes(plan.dense[Entry(n)]))

Whole(n)          == DecodeRecord(EntryBytes(n), 0, plan.dense[Entry(n)])
SomeRows(n, a, b) == DecodeRows(EntryBytes(n), plan.dense[Entry(n)], a, b)

Held(cache) == FoldLeft(LAMBDA a, x : a + Len(x[2]), 0, cache)
Without(cache, key) == SelectSeq(cache, LAMBDA x : x[1] # key)
IsHeld(cache, key) == \E x \in ToSet(cache) : x[1] = key
HeldFor(cache, key) == (CHOOSE x \in ToSet(cache) : x[1] = key)[2]

\* _admit: the least recently used go until it fits; too large a one stays out.
Admitted(cache, n, value) ==
  LET fits == {k \in 0..Len(cache) : Held(SubSeq(cache, k + 1, Len(cache))) + Len(value) <= CacheWeights}
  IN  IF fits = {} THEN cache
      ELSE Append(SubSeq(cache, Min(fits) + 1, Len(cache)), <<n, value>>)

Get(n) ==
  IF IsHeld(cached, n)
  THEN [value |-> HeldFor(cached, n),
        cache |-> Append(Without(cached, n), <<n, HeldFor(cached, n)>>)]
  ELSE [value |-> Whole(n), cache |-> Admitted(cached, n, Whole(n))]

\* Bound: a package is read before it is damaged, and by a process that neither
\* validates it nor loads the model.
Reading == stage = "built" /\ damage = "none" /\ report = "none" /\ model = "none"

\* PackagedLinear.forward: a wide weight is read a chunk of rows at a time.
ReadLinear(n) ==
  /\ Reading /\ n \in Names
  /\ LET count  == plan.dense[Entry(n)].rows
         chunks == [i \in 1..CeilDiv(count, HeadChunk) |->
                      SomeRows(n, (i - 1) * HeadChunk, Min({i * HeadChunk, count}))]
     IN  IF HeadChunk >= count
         THEN got' = [what |-> <<"linear", n>>, value |-> Get(n).value] /\ cached' = Get(n).cache
         ELSE got' = [what |-> <<"linear", n>>, value |-> FlattenSeq(chunks)] /\ UNCHANGED cached
  /\ UNCHANGED <<order, stage, plan, disk, damage, report, model, rows>>

\* The row of a padding token is masked with zeros after it was read.
EmbeddedToken(n, id) ==
  LET row == SomeRows(n, id, id + 1)
  IN  IF id = order.padding THEN [k \in DOMAIN row |-> Zero] ELSE row

\* PackagedEmbedding.forward: the rows of the tokens, in the tokens' order; it
\* raises on a token outside the table.
ReadEmbedding(n, ids) ==
  /\ Reading /\ n \in Names /\ ids # <<>>
  /\ got' = [what |-> <<"embedding", n, ids>>,
             value |-> IF \E i \in DOMAIN ids : ids[i] >= plan.dense[Entry(n)].rows THEN Raised
                       ELSE FlattenSeq([i \in DOMAIN ids |-> EmbeddedToken(n, ids[i])])]
  /\ UNCHANGED <<order, stage, plan, disk, damage, report, model, cached, rows>>

\* byte_range: the one read of an expert.
RecordRead(layer, e) ==
  LET at == RecordIndex(order, layer, e) * plan.record.stride
  IN  SubSeq(files.experts, at + 1, at + plan.record.payload)

Projection(layer, e, k) ==
  LET ps == plan.record.projections
  IN  DecodeRecord(RecordRead(layer, e), ProjectionAt(ps, k), ps[k])

\* The projection of this name, else the k-th one.
Taken(name, k) ==
  LET named == {i \in DOMAIN ProjectionNames(order) : ProjectionNames(order)[i] = name}
  IN  IF named = {} THEN k ELSE Min(named)

\* decode_expert_payload: the gate_up and the down of a DecodedExpert.  Further
\* projections are left alone; a record of one has no second to take.
ExpertRead(layer, e) ==
  LET taken == <<Taken(GateUp, 1), Taken(Down, 2)>>
  IN  IF \E i \in 1..2 : taken[i] > Len(plan.record.projections) THEN Raised
      ELSE [i \in 1..2 |-> Projection(layer, e, taken[i])]

ReadExpert(layer, e) ==
  /\ Reading /\ <<layer, e>> \in ToSet(plan.bank)
  /\ got' = [what |-> <<"expert", layer, e>>, value |-> ExpertRead(layer, e)]
  /\ UNCHANGED <<order, stage, plan, disk, damage, report, model, cached, rows>>

\* Parameters of the text model that no other region holds.
Parameters == {t.name : t \in {u \in Tensors(order) : u.cap = "text" /\ u.comp \in {"norm", "attn"}}}

\* Mutant: a parameter without a tensor keeps what it was initialized with.
LoadModelAnyway ==
  /\ Reading /\ got = NoRead
  /\ model' = "loaded"
  /\ UNCHANGED <<order, stage, plan, disk, damage, report, cached, rows, got>>

\* build_causal_lm refuses a package that lacks a parameter.
LoadModel ==
  /\ Reading /\ got = NoRead
  /\ model' = IF Parameters \subseteq Names THEN "loaded" ELSE "refused"
  /\ UNCHANGED <<order, stage, plan, disk, damage, report, cached, rows, got>>

-----------------------------------------------------------------------------
(* The PLE table: every head hashes the last tokens, the current one first *)
(* in signed arithmetic that wraps, into a range of rows of its own.       *)

Signed(v) == IF v >= 2^(WordBits - 1) THEN v - 2^WordBits ELSE v

Padded(tokens) ==   \* hash_all_heads: a short history is padded with zeros
  [i \in 1..Max({0, order.heads.ngram - Len(tokens)}) |-> 0] \o tokens

Hash(head, tokens) ==
  LET n    == 2 + ((head - 1) \div (Len(order.heads.offsets) \div (order.heads.ngram - 1)))
      last == Reverse(SubSeq(tokens, Len(tokens) - n + 1, Len(tokens)))
  IN  FoldLeft(LAMBDA acc, i : BitXor(acc, (last[i] * order.heads.multipliers[i]) % 2^WordBits),
               0, [i \in 1..n |-> i])

RowId(head, tokens) ==
  order.heads.offsets[head] + (Signed(Hash(head, tokens)) % order.heads.sizes[head])

RowIds(tokens) == [h \in 1..Len(order.heads.offsets) |-> RowId(h, Padded(tokens))]

\* physical_row_id, -1 for a row the package does not have.
Physical(logical) ==
  LET holds == {s \in ToSet(plan.shards) : s.logical <= logical /\ logical < s.logical + s.rows}
  IN  IF holds = {} THEN -1
      ELSE LET s == CHOOSE s \in holds : TRUE IN s.first + (logical - s.logical)

RowRead(logical) ==
  LET at == RowOffset(plan.row, Physical(logical))
  IN  DecodeRecord(SubSeq(files.ple, at + 1, at + plan.row.payload), 0, plan.row.matrix)

\* fetch_row: the cache after a row was fetched; it is the last in it then.
Fetched(cache, row) ==
  IF IsHeld(cache, row) THEN Append(Without(cache, row), <<row, HeldFor(cache, row)>>)
  ELSE Append(IF Len(cache) >= CacheRows THEN Tail(cache) ELSE cache, <<row, RowRead(row)>>)

\* fetch_step_embedding: a row that the package lacks ends it.
ReadStep(tokens) ==
  /\ Reading /\ plan.bytes.ple > 0
  /\ LET ids   == RowIds(tokens)
         stops == {k \in DOMAIN ids : Physical(ids[k]) < 0} \union {Len(ids) + 1}
         after[k \in 0..Min(stops) - 1] == IF k = 0 THEN rows ELSE Fetched(after[k - 1], ids[k])
     IN  /\ rows' = after[Min(stops) - 1]
         /\ got' = [what |-> <<"step", tokens>>,
                    value |-> IF Min(stops) <= Len(ids) THEN Raised
                              ELSE FlattenSeq([k \in DOMAIN ids |-> Last(after[k])[2]])]
  /\ UNCHANGED <<order, stage, plan, disk, damage, report, model, cached>>

-----------------------------------------------------------------------------

Next ==
  \/ PlanPackage \/ StartBuild \/ WriteItem \/ WriteMetadata \/ Finish
  \/ \E r \in Regions : (\E i \in 1..Len(files[r]) : Corrupt(r, i))
                          \/ Truncate(r) \/ Delete(r) \/ Undescribe(r)
  \/ ReplaceConfig
  \/ \E mode \in {"fast", "full"} : Validate(mode)
  \/ \E n \in {t.name : t \in Tensors(order)} :
       ReadLinear(n) \/ \E ids \in Histories : ReadEmbedding(n, ids)
  \/ \E x \in ToSet(plan.bank) : ReadExpert(x[1], x[2])
  \/ LoadModel
  \/ \E tokens \in Histories : ReadStep(tokens)

Spec == Init /\ [][Next]_vars

-----------------------------------------------------------------------------
(* Properties.                                                             *)

\* Every variable stays in its type, the caches within their capacity.
TypeOK ==
  /\ order \in Orders
  /\ stage \in {"ordered", "refused", "planned", "building", "described", "built", "failed"}
  /\ DOMAIN files = Regions /\ done \in 0..Len(plan.work) /\ Len(sums) = done
  /\ DOMAIN manifest \subseteq Regions /\ finished \in BOOLEAN /\ config \in BOOLEAN
  /\ damage \in {"none", "byte", "length", "file", "manifest", "config"}
  /\ report \in {"none", "invalid", "raised", "fast", "full"}
  /\ model \in {"none", "loaded", "refused"}
  /\ Held(cached) <= CacheWeights /\ Len(rows) <= CacheRows

\* Weight k of rows a..b-1 of a tensor as the source has it.
Source(n, width, a, b) == [k \in 1..(b - a) * width |-> <<n, (a * width) + k - 1>>]

Tensor(n) == CHOOSE t \in Tensors(order) : t.name = n

SourceWhole(n) == Source(n, Size(Tensor(n).shape), 0, 1)

\* The expert's share of its bank, or its own tensors: its projections.
SourceExpert(layer, e) ==
  LET ts == Sorted({t \in Bank(order, layer) : t.part \in {-1, e}},
                         LAMBDA s, t : s.proj < t.proj)
      one(t) == IF t.part = e THEN SourceWhole(t.name)
                ELSE Source(t.name, Size(t.shape) \div order.experts, e, e + 1)
  IN  [k \in 1..Len(ts) |-> one(ts[k])]

\* What ExpertManager was written for: gate_up_proj and down_proj.
Paired == ProjectionNames(order) = <<GateUp, Down>>

SourceRow(logical) ==
  LET k == Max({i \in 1..Len(Shards(order)) : RowsBefore(Shards(order), i) <= logical})
      t == Shards(order)[k]
  IN  Source(t.name, Cols(t.shape), logical - RowsBefore(Shards(order), k),
             logical - RowsBefore(Shards(order), k) + 1)

Sought(what) ==
  CASE what[1] = "linear"    -> SourceWhole(what[2])
    [] what[1] = "embedding" ->
         LET w == Cols(Tensor(what[2]).shape)
             outside(id) == id >= Rows(Tensor(what[2]).shape)
         IN  IF \E i \in DOMAIN what[3] : outside(what[3][i]) THEN Raised
             ELSE FlattenSeq([i \in DOMAIN what[3] |->
                    IF what[3][i] = order.padding THEN [k \in 1..w |-> Zero]
                    ELSE Source(what[2], w, what[3][i], what[3][i] + 1)])
    [] what[1] = "expert"    -> SourceExpert(what[2], what[3])
    [] what[1] = "step"      ->
         LET ids == RowIds(what[2])
         IN  IF \E k \in DOMAIN ids : Physical(ids[k]) < 0 THEN Raised
             ELSE FlattenSeq([k \in DOMAIN ids |-> SourceRow(ids[k])])
    [] OTHER -> Raised

\* Whatever is read from an undamaged package, in whatever order and through
\* whichever cache, is what the checkpoint has, of the right tensor, expert and
\* row, decoded with the scale and zero point of its own group; the row of a
\* padding token is zero, and only a token outside the table or a row that the
\* package does not hold raises.  An expert is its gate_up and its down.  Of a
\* record with other projections no more is said than that they are two of this
\* very expert: manager.py loses the third of gate, up and down, and raises
\* when there is only one.
ReadsAreExact ==
  IF got.what[1] = "expert" /\ ~Paired
  THEN ToSet(got.value) \subseteq ToSet(SourceExpert(got.what[2], got.what[3]))
  ELSE got.value = Sought(got.what)

\* Both caches hold of every key what the checkpoint has.
CachesAreExact ==
  /\ \A x \in ToSet(cached) : x[2] = SourceWhole(x[1])
  /\ \A x \in ToSet(rows) : x[2] = SourceRow(x[1])

\* Everything a package holds decodes to the checkpoint's weights: entries, all
\* projections of the experts (which the manager hands out as they are when they
\* are a gate_up and a down), rows.
EntriesExact == \A n \in Names : Whole(n) = SourceWhole(n)

ExpertsExact ==
  \A x \in ToSet(plan.bank) :
    /\ [k \in DOMAIN plan.record.projections |-> Projection(x[1], x[2], k)] = SourceExpert(x[1], x[2])
    /\ Paired => ExpertRead(x[1], x[2]) = SourceExpert(x[1], x[2])

RowsExact ==
  \A s \in ToSet(plan.shards) : \A i \in s.logical..s.logical + s.rows - 1 :
    RowRead(i) = SourceRow(i)

AllExact == EntriesExact /\ ExpertsExact /\ RowsExact

\* A package the validator accepts, even in fast mode, holds the checkpoint's
\* weights: no byte of a payload was lost, changed or never written.
AcceptedIsExact == report \in {"fast", "full"} => finished /\ AllExact

\* In full mode it is, to the last padding byte, the package that was written.
FullyAcceptedIsAsWritten ==
  report = "full" => \A r \in Regions : plan.bytes[r] > 0 => files[r] = manifest[r]

\* In an accepted package of a whole table every hash of every history has a
\* row, and one of its own head.
AcceptedRowsExist ==
  report \in {"fast", "full"} /\ plan.bytes.ple > 0 /\ order.profile = "full" =>
    \A tokens \in Histories : \A h \in 1..Len(order.heads.offsets) :
      /\ Physical(RowIds(tokens)[h]) >= 0
      /\ RowIds(tokens)[h] - order.heads.offsets[h] \in 0..order.heads.sizes[h] - 1

\* An undamaged finished package of a whole hash index is accepted.
FreshIsAccepted ==
  finished /\ damage = "none" /\ ~PleLayoutErrors => report \in {"none", "fast", "full"}

\* No two items share a byte, every item is inside its region, and a PLE row no
\* larger than a page lies within one.
ItemsApart ==
  stage = "planned" =>
    /\ ~DenseLayoutErrors
    /\ \A v, w \in ToSet(plan.work) :
         v.region = "experts" /\ w.region = "experts" /\ v # w =>
           v.at + plan.record.payload <= w.at \/ w.at + plan.record.payload <= v.at
    /\ \A w \in ToSet(plan.work) :
         w.region = "experts" => w.at + plan.record.payload <= plan.bytes.experts
    /\ plan.bytes.ple > 0 => \A i \in 0..PhysicalRows(order) - 1 :
         LET at == RowOffset(plan.row, i)
         IN  /\ at + plan.row.payload <= plan.bytes.ple
             /\ \A j \in 0..i - 1 : RowOffset(plan.row, j) + plan.row.payload <= at
             /\ at % PageBytes = 0 \/ at \div PageBytes = (at + plan.row.payload - 1) \div PageBytes

\* Nothing vanishes: what a full package holds and what the features leave out
\* are together the checkpoint, if its routing is known and right, and its text
\* is kept.  (An expert whose number lies beyond the routing is planned by
\* nobody, and without text the experts and the table are counted twice.)
NothingVanishes ==
  stage = "planned" /\ order.profile = "full" /\ "text" \in order.features
    /\ (order.experts > 0 \/ BankLayers(order) = {})
    /\ (\A t \in Of(order, "experts_routed") : t.part < order.experts) =>
    Totals(order).packaged + Totals(order).dropped = Totals(order).source

\* A model that was loaded has every parameter, each with the checkpoint's weights.
LoadedModelIsWhole ==
  model = "loaded" =>
    \A n \in Parameters : n \in Names /\ (damage = "none" => Whole(n) = SourceWhole(n))

\* Types, and what is read, now or from a cache.
ReadsAndCaches == TypeOK /\ ReadsAreExact /\ CachesAreExact

\* What acceptance means, in fast and in full mode.
AcceptedIsRight == AcceptedIsExact /\ FullyAcceptedIsAsWritten /\ AcceptedRowsExist

\* The plan: items apart from one another, and all of the checkpoint accounted for.
PlanIsSound == ItemsApart /\ NothingVanishes
==============================================================================
