----------------------------- MODULE PackagePlan -----------------------------
(***************************************************************************)
(* plan_package of package/plan.py: from the inventory of a checkpoint to  *)
(* every address of the package, before a weight is read.                  *)
(*                                                                         *)
(* An order is what a package is planned from: a checkpoint, a precision   *)
(* map, the features to keep and a profile.  A tensor of the checkpoint is *)
(* known by its place in the order of names; "part" is the expert or shard *)
(* number in its name, -1 when there is none; "proj" is the place of its   *)
(* projection in the order of a record.                                    *)
(***************************************************************************)
EXTENDS PackageLayout

Components == {"experts_routed", "ple_table", "ple_index", "norm", "attn", "vision"}
Profiles   == {"full", "canary"}

Tensors(order) == ToSet(order.tensors)
Of(order, comp) == {t \in Tensors(order) : t.comp = comp}

\* What an order is: tensors with names and shapes of their own, none empty, the
\* tables matrices; no two projections of an expert in the same place, no two
\* shards of the table with the same number; and all of them part of the text.
IsOrder(order) ==
  /\ order.tensors \in Seq([name : Nat, comp : Components, cap : {"text", "vision"}, layer : Nat,
                            part : Nat \union {-1}, proj : Nat, shape : Seq(Nat \ {0})])
  /\ \A s, t \in Tensors(order) : s.name = t.name => s = t
  /\ \A s, t \in Of(order, "experts_routed") :
       s.layer = t.layer /\ s.part = t.part /\ s.proj = t.proj => s = t
  /\ \A s, t \in Of(order, "ple_table") : s.part = t.part => s = t
  /\ \A t \in Of(order, "ple_table") : Len(t.shape) = 2
  /\ \A t \in Tensors(order) : t.comp \in {"experts_routed", "ple_table", "ple_index"} => t.cap = "text"
  /\ order.experts \in Nat /\ order.padding \in Nat \union {-1}
  /\ order.precision \in [Components -> [bits : Nat \ {0}, group : Int, sym : BOOLEAN]]

\* SetToSortSeq, without the enumeration of all orders.
Sorted(S, before(_, _)) ==
  [i \in 1..Cardinality(S) |-> CHOOSE x \in S : Cardinality({y \in S : before(y, x)}) = i - 1]
ByName(S) == Sorted(S, LAMBDA s, t : s.name < t.name)

-----------------------------------------------------------------------------
(* package/slicing.py: the weights of one expert, out of fused banks whose *)
(* leading axis is the expert or out of tensors of its own.                *)

Bank(order, layer) == {t \in Of(order, "experts_routed") : t.layer = layer}
Fused(order, layer) == {t \in Bank(order, layer) : t.part < 0}
Owned(order, layer, e) == {t \in Bank(order, layer) : t.part = e}
BankLayers(order) == {t.layer : t \in Of(order, "experts_routed")}
HasExperts(order) == order.experts > 0 /\ BankLayers(order) # {}

SliceError(order) ==
  \E layer \in BankLayers(order) :
    \/ Fused(order, layer) # {} /\ Fused(order, layer) # Bank(order, layer)
    \/ \E t \in Fused(order, layer) : Len(t.shape) < 2 \/ t.shape[1] # order.experts
    \/ Fused(order, layer) = {}
       /\ \E e \in 0..order.experts - 1 : Owned(order, layer, e) = {}

\* Mutant: every expert is taken from the start of its bank.
SlicesFromStart(order, layer, e) ==
  LET slice(t) == IF t.part < 0
                  THEN [tensor |-> t.name, proj |-> t.proj, shape |-> Tail(t.shape), first |-> 0]
                  ELSE [tensor |-> t.name, proj |-> t.proj, shape |-> t.shape, first |-> 0]
      all == IF Fused(order, layer) # {} THEN Fused(order, layer) ELSE Owned(order, layer, e)
  IN  Sorted({slice(t) : t \in all}, LAMBDA s, t : s.proj < t.proj)

\* _PROJECTION_PRIORITY; whatever else a projection is called comes behind.
GateUp == 0
Gate   == 1
Up     == 2
Down   == 3

\* In the order of _PROJECTION_PRIORITY.
Slices(order, layer, e) ==
  LET slice(t) == IF t.part < 0
                  THEN [tensor |-> t.name, proj |-> t.proj, shape |-> Tail(t.shape),
                        first |-> e * Size(Tail(t.shape))]
                  ELSE [tensor |-> t.name, proj |-> t.proj, shape |-> t.shape, first |-> 0]
      all == IF Fused(order, layer) # {} THEN Fused(order, layer) ELSE Owned(order, layer, e)
  IN  Sorted({slice(t) : t \in all}, LAMBDA s, t : s.proj < t.proj)

Geometry(slices) == [k \in 1..Len(slices) |-> <<slices[k].proj, slices[k].shape>>]

\* A canary package has three experts of the first and of the last layer.
Chosen(order) ==
  LET n == order.experts
      layers == BankLayers(order)
  IN  IF order.profile = "full" THEN layers \X (0..n - 1)
      ELSE {Min(layers), Max(layers)} \X ({0, (n \div 2) - 1, n - 1} \intersect 0..n - 1)

\* Layer after layer, expert after expert: <<layer, expert>>.
BankOrder(order) ==
  IF HasExperts(order)
  THEN Sorted(Chosen(order), LAMBDA x, y : x[1] < y[1] \/ (x[1] = y[1] /\ x[2] < y[2]))
  ELSE <<>>

GeometriesDiffer(order) ==
  \E x, y \in ToSet(BankOrder(order)) :
    Geometry(Slices(order, x[1], x[2])) # Geometry(Slices(order, y[1], y[2]))

\* ExpertLayout.record_index: the slot of an expert in the bank.
RecordIndex(order, layer, e) ==
  IF order.profile = "canary"
  THEN (CHOOSE i \in 1..Len(BankOrder(order)) : BankOrder(order)[i] = <<layer, e>>) - 1
  ELSE (Cardinality({l \in BankLayers(order) : l < layer}) * order.experts) + e

\* The names of the projections of every record.
ProjectionNames(order) ==
  IF BankOrder(order) = <<>> THEN <<>>
  ELSE LET x == BankOrder(order)[1]
           slices == Slices(order, x[1], x[2])
       IN  [k \in 1..Len(slices) |-> slices[k].proj]

\* The one layout of every record.
BankRecord(order) ==
  IF BankOrder(order) = <<>> THEN RecordLayout(<<>>)
  ELSE LET x == BankOrder(order)[1]
           slices == Slices(order, x[1], x[2])
       IN  RecordLayout([k \in 1..Len(slices) |->
             Matrix(slices[k].shape, order.precision["experts_routed"])])

-----------------------------------------------------------------------------
(* The PLE table: the shards of the checkpoint in the order of their       *)
(* numbers, a canary's first and last one, packed without a gap.           *)

Shards(order) == Sorted(Of(order, "ple_table"), LAMBDA s, t : s.part < t.part)
RowsBefore(shards, k) == FoldLeft(LAMBDA a, t : a + t.shape[1], 0, SubSeq(shards, 1, k - 1))

PleShards(order) ==
  LET all  == Shards(order)
      kept == IF order.profile = "full" THEN 1..Len(all) ELSE {1, Len(all)} \intersect 1..Len(all)
      nth  == Sorted(kept, LAMBDA i, j : i < j)
      part == [k \in 1..Len(nth) |-> all[nth[k]]]
  IN  [k \in 1..Len(part) |->
         [tensor |-> part[k].name, shard |-> part[k].part, rows |-> part[k].shape[1],
          width |-> Cols(part[k].shape), logical |-> RowsBefore(all, nth[k]),
          first |-> RowsBefore(part, k)]]

PhysicalRows(order) == FoldLeft(LAMBDA a, s : a + s.rows, 0, PleShards(order))
LogicalRows(order)  == RowsBefore(Shards(order), Len(Shards(order)) + 1)
HasPle(order) == Shards(order) # <<>>

\* The width is that of the first table tensor of the inventory.
Row(order) ==
  LET first == Min({i \in DOMAIN order.tensors : order.tensors[i].comp = "ple_table"})
  IN  RowLayout(Cols(order.tensors[first].shape), order.precision["ple_table"])

\* build_ple_index: only the range of the last head is compared with the table.
IndexError(order) ==
  /\ HasPle(order)
  /\ LET h == order.heads
     IN  \/ Len(h.offsets) # Len(h.sizes) \/ Len(h.multipliers) < h.ngram
         \/ h.ngram < 2 \/ Len(h.offsets) % (h.ngram - 1) # 0
         \/ Last(h.offsets) + Last(h.sizes) > LogicalRows(order)

-----------------------------------------------------------------------------
(* The dense tensors: what the features keep and no other region holds, in *)
(* the order of names; a canary's are the first of every component.        *)

Kept(order) == {t \in Tensors(order) : t.cap \in order.features}

DenseTensors(order) ==
  LET all == {t \in Kept(order) : /\ t.comp \notin {"experts_routed", "ple_table"}
                                  /\ t.comp = "ple_index" => ~HasPle(order)}
  IN  ByName(IF order.profile = "full" THEN all
             ELSE {t \in all : \A u \in all : u.comp = t.comp => t.name <= u.name})

DenseMatrices(order) ==
  [k \in 1..Len(DenseTensors(order)) |->
     Matrix(DenseTensors(order)[k].shape, order.precision[DenseTensors(order)[k].comp])]

\* Mutant: an entry begins where the one before it begins to be padded.
DenseAtOverlapping(matrices, k) ==
  FoldLeft(LAMBDA a, m : ((a + MatrixBytes(m)) \div DenseAlign) * DenseAlign, 0, SubSeq(matrices, 1, k - 1))

\* Where the k-th entry begins; one past the last, where the blob ends.
DenseAt(matrices, k) ==
  FoldLeft(LAMBDA a, m : AlignUp(a + MatrixBytes(m), DenseAlign), 0, SubSeq(matrices, 1, k - 1))

-----------------------------------------------------------------------------

\* The plan is asserted to pad no row of a quantized matrix.
PadsARow(order) ==
  LET padded(m) == m.bits < 16 /\ m.cols % m.group # 0
  IN  \/ \E m \in ToSet(DenseMatrices(order)) \union ToSet(BankRecord(order).projections) : padded(m)
      \/ HasPle(order) /\ padded(Row(order).matrix)

Refused(order) ==
  \/ order.profile \notin Profiles
  \/ HasExperts(order) /\ (SliceError(order) \/ GeometriesDiffer(order))
  \/ PadsARow(order)

Params(S) == SumFunction([t \in S |-> Size(t.shape)])

\* PackageTotals, in parameters.
Totals(order) ==
  [source |-> Params(Tensors(order)),
   dropped |-> Params(Tensors(order) \ Kept(order)),
   packaged |-> Params(ToSet(DenseTensors(order)))
     + SumFunction([x \in ToSet(BankOrder(order)) |-> Params(ToSet(Slices(order, x[1], x[2])))])
     + SumFunction([s \in ToSet(PleShards(order)) |-> s.rows * s.width])
     + (IF HasPle(order) THEN Params(Of(order, "ple_index")) ELSE 0)]

\* One work item for every dense tensor, expert and PLE shard.
DenseWork(order) ==
  LET ms == DenseMatrices(order)
  IN  [k \in 1..Len(ms) |->
         [region |-> "dense", key |-> <<DenseTensors(order)[k].name>>,
          parts |-> <<[tensor |-> DenseTensors(order)[k].name, first |-> 0, matrix |-> ms[k]]>>,
          at |-> DenseAt(ms, k)]]

ExpertWork(order) ==
  LET ids == BankOrder(order)
      record == BankRecord(order)
  IN  [k \in 1..Len(ids) |->
         LET s == Slices(order, ids[k][1], ids[k][2])
         IN  [region |-> "experts", key |-> ids[k],
              parts |-> [j \in 1..Len(s) |->
                [tensor |-> s[j].tensor, first |-> s[j].first, matrix |-> record.projections[j]]],
              at |-> RecordIndex(order, ids[k][1], ids[k][2]) * record.stride]]

PleWork(order) ==
  LET s == PleShards(order)
  IN  [k \in 1..Len(s) |->
         [region |-> "ple", key |-> <<s[k].shard>>,
          parts |-> <<[tensor |-> s[k].tensor, first |-> 0,
            matrix |-> [Row(order).matrix EXCEPT !.rows = s[k].rows, !.cols = s[k].width]]>>,
          at |-> s[k].first]]

Plan(order) ==
  [work |-> DenseWork(order) \o ExpertWork(order) \o PleWork(order), bank |-> BankOrder(order),
   row |-> IF HasPle(order) THEN Row(order) ELSE RowLayout(1, [bits |-> 8, group |-> 1, sym |-> TRUE]),
   dense |-> DenseMatrices(order), record |-> BankRecord(order), shards |-> PleShards(order),
   bytes |-> [dense |-> DenseAt(DenseMatrices(order), Len(DenseMatrices(order)) + 1),
              experts |-> Len(BankOrder(order)) * BankRecord(order).stride,
              ple |-> IF HasPle(order) THEN TableBytes(Row(order), PhysicalRows(order)) ELSE 0]]
==============================================================================
