----------------------------- MODULE MatrixTiler -----------------------------
(***************************************************************************)
(* Quantization of one tensor under a memory cap (scheduler/tiler.py): the *)
(* tensor is split by its layout (models/layout.py) and its rows by the    *)
(* estimate of scheduler/budget.py, twice: before it is read, by the dtype *)
(* of the checkpoint, and once it is in memory, by the dtype it then has.  *)
(* The pieces are quantized one by one and joined.                         *)
(*                                                                         *)
(* What a quantizer makes of weights is that of PackageLayout.  Costs are  *)
(* counted in 1/64 bytes, so that the estimate is an integer.              *)
(***************************************************************************)
EXTENDS Integers, Sequences, SequencesExt, FiniteSets

CONSTANTS
  TileJobs,       \* calls of quantize_address; expert: the name is that of an expert;
                  \* bytes: of a source element; group: -1 for whole rows; cap: in MB
  RowUnit,        \* a tile is a multiple of so many rows (64)
  TwiceWorkspace, \* twice the workspace multiplier of the quantizer
  MB,             \* cost units of a megabyte
  SmallCap, FloorMB, ReserveMB, MarginMB  \* of MemoryBudgetConfig

\* A tensor to quantize has dimensions, none of them zero, and a quantizer makes
\* codes of one to eight bits.
Jobs == [shape : Seq(Nat \ {0}) \ {<<>>}, expert : BOOLEAN, bytes : Nat \ {0}, bits : 1 .. 8,
         group : Int, sym : BOOLEAN, cap : Nat]

ASSUME TilerAssumption ==
  /\ \A j \in TileJobs : j \in Jobs
  /\ RowUnit \in Nat /\ RowUnit > 0 /\ RowUnit % 8 = 0
  /\ TwiceWorkspace \in Nat /\ MB \in Nat /\ MB > 0 /\ MB % 100 = 0
  /\ SmallCap \in Nat /\ FloorMB \in Nat /\ ReserveMB \in Nat /\ MarginMB \in Nat

VARIABLES tilePhase,  \* "idle" (not called), "plan", "matrices", "over", "raised"
          tileJob,
          matrices,   \* the matrices still to quantize: [expert, from, rows]
          tiles,      \* the tiles left of the current matrix
          part,       \* what the tiles done of the current matrix give
          joined,     \* what each quantized matrix gave
          peak        \* the largest estimate of what the quantizer was given, tiles of
                      \* no more than RowUnit rows left aside

tileVars == <<tilePhase, tileJob, matrices, tiles, part, joined, peak>>

L == INSTANCE PackageLayout WITH PageBytes <- 1, DenseAlign <- 1

AtMost(a, b) == IF a < b THEN a ELSE b
AtLeast(a, b) == IF a > b THEN a ELSE b
Nothing == [codes |-> <<>>, scales |-> <<>>, zeros |-> <<>>]

TileInit ==
  /\ tilePhase = "plan" /\ tileJob \in TileJobs
  /\ matrices = <<>> /\ tiles = <<>> /\ part = Nothing /\ joined = <<>> /\ peak = 0

TileIdle ==
  /\ tilePhase = "idle" /\ tileJob = CHOOSE j \in TileJobs : TRUE
  /\ matrices = <<>> /\ tiles = <<>> /\ part = Nothing /\ joined = <<>> /\ peak = 0

-----------------------------------------------------------------------------
(* The budget.                                                             *)

\* usable_vram_mb, in cost units: never less than the floor.
Usable ==
  LET cap == tileJob.cap * MB
      reserve == IF tileJob.cap <= SmallCap
                   THEN AtMost(ReserveMB * MB, (cap * 15) \div 100)
                        + AtMost(MarginMB * MB, (cap * 10) \div 100)
                   ELSE (ReserveMB + MarginMB) * MB
  IN  AtLeast(FloorMB * MB, cap - reserve)

\* A row is padded to whole groups while it is quantized.
Padded(cols) ==
  IF tileJob.group <= 0 THEN cols ELSE L!CeilDiv(cols, tileJob.group) * tileJob.group

\* estimate_tensor_vram_requirement: the source, the workspace, the result.
Estimate(rows, cols, bytes) ==
  LET source  == rows * cols * bytes
      working == rows * Padded(cols) * bytes
  IN  64 * source + 32 * TwiceWorkspace * working + rows * cols * (8 * tileJob.bits + 2)

\* Mutant: the padding of the groups is forgotten.
UnpaddedRowCost(cols, bytes) ==
  64 * cols * bytes + 32 * TwiceWorkspace * cols * bytes + cols * (8 * tileJob.bits + 2)

RowCost(cols, bytes) ==
  64 * cols * bytes + 32 * TwiceWorkspace * Padded(cols) * bytes
    + cols * (8 * tileJob.bits + 2)

\* Mutant: a tile has as many rows as fit.
TileRowsExact(rows, cols, bytes) ==
  IF Estimate(rows, cols, bytes) <= Usable THEN rows
  ELSE AtMost(rows, AtLeast(RowUnit \div 2, (8 * Usable) \div (10 * RowCost(cols, bytes))))

\* compute_work_unit_bounds: all rows if they fit; else as many as take four
\* fifths of the budget, in whole units and at least one.
TileRows(rows, cols, bytes) ==
  IF Estimate(rows, cols, bytes) <= Usable THEN rows
  ELSE LET raw == AtLeast(RowUnit \div 2, (8 * Usable) \div (10 * RowCost(cols, bytes)))
       IN  AtMost(rows, AtLeast(RowUnit, (raw \div RowUnit) * RowUnit))

\* Rows from, from + 1, ... in tiles of a size.
Split(expert, from, rows, size) ==
  [i \in 1 .. L!CeilDiv(rows, size) |->
     [expert |-> expert, from |-> from + (i - 1) * size,
      rows |-> AtMost(size, rows - (i - 1) * size)]]

-----------------------------------------------------------------------------
(* The layout.                                                             *)

Layout ==
  CASE Len(tileJob.shape) = 2 -> "dense"
    [] Len(tileJob.shape) = 3 /\ tileJob.expert -> "fused"
    [] Len(tileJob.shape) >= 3 /\ ~(Len(tileJob.shape) = 3 /\ tileJob.expert) -> "conv"
    [] OTHER -> "vector"

\* What the estimate takes for the rows and columns of a matrix: of a
\* convolution the first two dimensions, of a vector its elements, one by one.
OutFeatures == tileJob.shape[IF Layout = "fused" THEN 2 ELSE 1]
InFeatures ==
  CASE Layout = "fused" -> tileJob.shape[3]
    [] Layout = "vector" -> 1
    [] OTHER -> tileJob.shape[2]

\* What the quantizer takes for a row: the last dimension.
Width == Last(tileJob.shape)
PerOut == IF Layout = "conv" THEN L!Rows(Tail(tileJob.shape)) ELSE 1

MatrixRows(rows) == IF Layout = "vector" THEN 1 ELSE rows * PerOut

\* quantizer.quantize of some rows: a vector is one row.
QuantizedRows(expert, from, rows) ==
  LET m == [rows |-> MatrixRows(rows), cols |-> Width,
            bits |-> tileJob.bits, sym |-> tileJob.sym,
            group |-> IF tileJob.group > 0 THEN tileJob.group ELSE Width]
      first == IF Layout = "vector" THEN 0 ELSE (expert * OutFeatures + from) * PerOut * Width
  IN  [codes |-> L!Codes(0, first, m), scales |-> L!Numbers("scales", 0, first, m),
       zeros |-> L!Numbers("zeros", 0, first, m)]

Quantized(t) == QuantizedRows(t.expert, t.from, t.rows)

Cat(a, b) == [codes |-> a.codes \o b.codes, scales |-> a.scales \o b.scales,
              zeros |-> a.zeros \o b.zeros]

\* torch.cat of the codes, of the scales and of the zeros of all parts.
Concatenated(parts) ==
  [codes  |-> FlattenSeq([i \in DOMAIN parts |-> parts[i].codes]),
   scales |-> FlattenSeq([i \in DOMAIN parts |-> parts[i].scales]),
   zeros  |-> FlattenSeq([i \in DOMAIN parts |-> parts[i].zeros])]

\* fp8 becomes fp16 as it is read.
LoadedBytes == IF tileJob.bytes = 1 THEN 2 ELSE tileJob.bytes

-----------------------------------------------------------------------------
(* quantize_address.                                                       *)

\* A fused bank goes expert by expert, another tensor in the tiles that the
\* dtype of the checkpoint allows.
Plan ==
  /\ tilePhase = "plan"
  /\ ~(Layout = "vector" /\ TileRows(OutFeatures, InFeatures, tileJob.bytes) < OutFeatures)
  /\ tilePhase' = "matrices"
  /\ matrices' = IF Layout = "fused"
                   THEN [e \in 1 .. tileJob.shape[1] |->
                           [expert |-> e - 1, from |-> 0, rows |-> OutFeatures]]
                   ELSE Split(0, 0, OutFeatures,
                              TileRows(OutFeatures, InFeatures, tileJob.bytes))
  /\ UNCHANGED <<tileJob, tiles, part, joined, peak>>

\* The rows of a vector cannot be sliced as those of a matrix: IndexError.
PlanRaises ==
  /\ tilePhase = "plan"
  /\ Layout = "vector" /\ TileRows(OutFeatures, InFeatures, tileJob.bytes) < OutFeatures
  /\ tilePhase' = "raised"
  /\ UNCHANGED <<tileJob, matrices, tiles, part, joined, peak>>

\* quantize_matrix of the next matrix, read by now: its tiles.
BeginMatrix ==
  /\ tilePhase = "matrices" /\ matrices # <<>> /\ tiles = <<>> /\ part = Nothing
  /\ LET m == Head(matrices)
         size == TileRows(m.rows, InFeatures, LoadedBytes)
     IN  /\ ~(Layout = "vector" /\ size < m.rows)
         /\ tiles' = Split(m.expert, m.from, m.rows, size)
  /\ UNCHANGED <<tilePhase, tileJob, matrices, part, joined, peak>>

\* A vector that only the dtype it has in memory makes too large.
BeginRaises ==
  /\ tilePhase = "matrices" /\ matrices # <<>> /\ tiles = <<>> /\ part = Nothing
  /\ LET m == Head(matrices)
     IN  Layout = "vector" /\ TileRows(m.rows, InFeatures, LoadedBytes) < m.rows
  /\ tilePhase' = "raised"
  /\ UNCHANGED <<tileJob, matrices, tiles, part, joined, peak>>

QuantizeTile ==
  /\ tiles # <<>>
  /\ part' = Cat(part, Quantized(Head(tiles)))
  /\ tiles' = Tail(tiles)
  /\ peak' = IF Head(tiles).rows <= RowUnit THEN peak
             ELSE AtLeast(peak, Estimate(MatrixRows(Head(tiles).rows), Width, LoadedBytes))
  /\ UNCHANGED <<tilePhase, tileJob, matrices, joined>>

EndMatrix ==
  /\ tilePhase = "matrices" /\ matrices # <<>> /\ tiles = <<>> /\ part # Nothing
  /\ joined' = Append(joined, part)
  /\ matrices' = Tail(matrices) /\ part' = Nothing
  /\ UNCHANGED <<tilePhase, tileJob, tiles, peak>>

\* The experts are stacked, other matrices joined row after row.
EndAddress ==
  /\ tilePhase = "matrices" /\ matrices = <<>>
  /\ tilePhase' = "over"
  /\ joined' = IF Layout = "fused" THEN joined ELSE <<Concatenated(joined)>>
  /\ UNCHANGED <<tileJob, matrices, tiles, part, peak>>

TileNext ==
  \/ Plan \/ PlanRaises \/ BeginMatrix \/ BeginRaises
  \/ QuantizeTile \/ EndMatrix \/ EndAddress

TileSpec == TileInit /\ [][TileNext]_tileVars

-----------------------------------------------------------------------------
\* Types; a tile is a run of rows of the current matrix and never empty.
TileTypeOK ==
  /\ tilePhase \in {"idle", "plan", "matrices", "over", "raised"}
  /\ peak \in Nat
  /\ \A i \in DOMAIN tiles :
       /\ tiles[i].rows \in 1 .. Head(matrices).rows
       /\ tiles[i].expert = Head(matrices).expert
       /\ tiles[i].from + tiles[i].rows <= Head(matrices).from + Head(matrices).rows

\* However a tensor was cut, the result is byte for byte that of quantizing it,
\* or each expert of a bank, as a whole: a cut never falls within a byte of
\* packed codes.
ResultIsWhole ==
  tilePhase = "over" =>
    joined = IF Layout = "fused"
               THEN [e \in 1 .. tileJob.shape[1] |-> QuantizedRows(e - 1, 0, OutFeatures)]
               ELSE <<QuantizedRows(0, 0, OutFeatures)>>

\* The quantizer is never given more than the user's cap holds by the estimate,
\* for the dtype the weights have in memory, unless it is given no more rows
\* than the smallest tile or the cap is below the floor of the budget
\* (MatrixTiler: under strict VRAM caps).  A convolution is estimated by its
\* first two dimensions only, and is left out.
QuantizedFits ==
  (tileJob.cap >= FloorMB /\ Layout # "conv") => peak <= tileJob.cap * MB

\* Types and tiles, and the result they make.
TiledIsWhole == TileTypeOK /\ ResultIsWhole
=============================================================================
