---------------------------- MODULE PackageLayout ----------------------------
(***************************************************************************)
(* The addresses of a package (package/format.py), what a quantizer puts   *)
(* at them (quantizers/rtn.py) and how a reader gets weights back          *)
(* (package/decode.py).                                                    *)
(*                                                                         *)
(* A weight is <<tensor, index>>.  A byte is a cell <<kind, content, half>>*)
(* that says what it was made from: "codes" the weights packed into it,    *)
(* "scales" and "zeros" one half of the number computed from a group of    *)
(* weights, "packed" one half of a weight stored as it is.                 *)
(***************************************************************************)
EXTENDS Integers, Sequences, SequencesExt

CONSTANTS
  PageBytes,   \* PAGE_BYTES; a record of the expert bank starts on a page
  DenseAlign   \* DENSE_ENTRY_ALIGNMENT

ASSUME LayoutAssumption == PageBytes \in Nat \ {0} /\ DenseAlign \in Nat \ {0}

MetaBytes == 2   \* an fp16 scale or zero point

Nobody  == <<-1, 0>>           \* padding: a code of no weight
Garbage == <<-2, 0>>           \* what bytes decode to that do not belong together
Hole    == <<"hole", {}, 0>>   \* a byte never written
Rot     == <<"rot", {}, 0>>    \* a byte changed behind the package's back

CeilDiv(a, b) == (a + b - 1) \div b

AlignUp(v, a) == IF a <= 1 THEN v ELSE CeilDiv(v, a) * a

PerByte(bits) == 8 \div bits

\* Only widths that divide 8 pack densely: three bits take four.
PackedBytes(n, bits) == IF bits >= 8 THEN CeilDiv(n * bits, 8) ELSE CeilDiv(n, PerByte(bits))

\* What n weights take: from 16 bits on each is kept as fp16, however wide it
\* was asked for.
WeightBytes(n, bits) == IF bits >= 16 THEN 2 * n ELSE PackedBytes(n, bits)

\* The largest group no larger than the one asked for that divides the row.
ResolveGroup(in, group) ==
  IF group <= 0 \/ group >= in THEN in ELSE Max({g \in 1..group : in % g = 0})

Rows(shape) == FoldLeft(LAMBDA a, b : a * b, 1, SubSeq(shape, 1, Len(shape) - 1))
Cols(shape) == IF shape = <<>> THEN 1 ELSE Last(shape)
Size(shape) == Rows(shape) * Cols(shape)

\* codes, then one scale per group, then one zero point per group.
Spans(rows, in, bits, group, sym) ==
  LET perRow == CeilDiv(in, ResolveGroup(in, group))
      padded == perRow * ResolveGroup(in, group)
      codes  == WeightBytes(rows * (IF bits >= 16 THEN in ELSE padded), bits)
      meta   == IF bits >= 16 THEN 0 ELSE rows * perRow * MetaBytes
  IN  [codes |-> [at |-> 0, len |-> codes], scales |-> [at |-> codes, len |-> meta],
       zeros |-> [at |-> codes + meta, len |-> IF sym THEN 0 ELSE meta]]

SpanBytes(spans) == spans.codes.len + spans.scales.len + spans.zeros.len

\* A quantized matrix and where its sections are, relative to its own start.
Matrix(shape, entry) ==
  LET group == ResolveGroup(Cols(shape), entry.group)
  IN  [rows |-> Rows(shape), cols |-> Cols(shape), bits |-> entry.bits, group |-> group,
       sym |-> entry.sym, spans |-> Spans(Rows(shape), Cols(shape), entry.bits, group, entry.sym)]

MatrixBytes(m) == SpanBytes(m.spans)

-----------------------------------------------------------------------------
(* Expert records and PLE rows.                                            *)

\* The projections of a record one after the other.
ProjectionAt(projections, k) ==
  FoldLeft(LAMBDA a, m : a + MatrixBytes(m), 0, SubSeq(projections, 1, k - 1))

RecordLayout(projections) ==
  LET payload == ProjectionAt(projections, Len(projections) + 1)
  IN  [projections |-> projections, payload |-> payload, stride |-> AlignUp(payload, PageBytes)]

\* Mutant: a row more is put into every page.
RowLayoutFull(width, entry) ==
  LET m == Matrix(<<1, width>>, entry)
      payload == MatrixBytes(m)
  IN  [matrix |-> m, payload |-> payload, page |-> PageBytes,
       perPage |-> CeilDiv(PageBytes, payload)]

\* Whole rows only in a page; a row larger than a page has pages of its own.
RowLayout(width, entry) ==
  LET m == Matrix(<<1, width>>, entry)
      payload == MatrixBytes(m)
  IN  IF payload > PageBytes
      THEN [matrix |-> m, payload |-> payload, page |-> AlignUp(payload, PageBytes), perPage |-> 1]
      ELSE [matrix |-> m, payload |-> payload, page |-> PageBytes, perPage |-> PageBytes \div payload]

RowOffset(row, id) == (id \div row.perPage) * row.page + (id % row.perPage) * row.payload

TableBytes(row, rows) == CeilDiv(rows, row.perPage) * row.page

-----------------------------------------------------------------------------
(* What a quantizer makes of the weights first, first + 1, ... of a tensor *)
(* as a matrix, and what a decoder makes of a record.                      *)

Flat(m, k) ==   \* the k-th weight of the matrix, its rows padded to whole groups
  LET padded == CeilDiv(m.cols, m.group) * m.group
      col == k % padded
  IN  IF k >= m.rows * padded \/ col >= m.cols THEN -1 ELSE (k \div padded) * m.cols + col

Weight(tensor, first, k) == IF k < 0 THEN Nobody ELSE <<tensor, first + k>>

\* _pack_tensor: as many codes to a byte as fit, the last byte padded.  From 16
\* bits on a weight is stored as fp16.
Codes(tensor, first, m) ==
  LET padded == m.rows * CeilDiv(m.cols, m.group) * m.group
  IN  IF m.bits >= 16
      THEN [j \in 1..2 * m.rows * m.cols |->
              <<"packed", {Weight(tensor, first, (j - 1) \div 2)}, (j - 1) % 2>>]
      ELSE [j \in 1..PackedBytes(padded, m.bits) |->
              <<"codes", [i \in 1..PerByte(m.bits) |->
                 Weight(tensor, first, Flat(m, ((j - 1) * PerByte(m.bits)) + i - 1))], 0>>]

\* One fp16 number of this kind for every group of every row.
Numbers(kind, tensor, first, m) ==
  LET groups == IF m.bits >= 16 \/ (kind = "zeros" /\ m.sym) THEN 0
                ELSE m.rows * CeilDiv(m.cols, m.group)
  IN  [j \in 1..groups * MetaBytes |->
         <<kind, {Weight(tensor, first, Flat(m, (((j - 1) \div MetaBytes) * m.group) + i)) :
                    i \in 0..m.group - 1}, (j - 1) % MetaBytes>>]

\* No code of more than eight bits goes into a byte.
Packable(m) == m.bits <= 8 \/ m.bits >= 16

\* The sections are as long as the plan reserved for them.
Fits(m) ==
  /\ Packable(m)
  /\ m.spans.codes.len = Len(Codes(0, 0, m))
  /\ m.spans.scales.len = Len(Numbers("scales", 0, 0, m))
  /\ m.spans.zeros.len = Len(Numbers("zeros", 0, 0, m))

\* The record of a matrix, the weights first, first + 1, ... of a tensor.
Encode(tensor, first, m) ==
  Codes(tensor, first, m) \o Numbers("scales", tensor, first, m)
    \o Numbers("zeros", tensor, first, m)

CellAt(payload, i) == IF i + 1 \in DOMAIN payload THEN payload[i + 1] ELSE Hole

\* The number at offset i: the group it belongs to when both halves are its.
NumberAt(payload, i, kind) ==
  LET low == CellAt(payload, i)  high == CellAt(payload, i + 1)
  IN  IF low[1] = kind /\ high[1] = kind /\ low[3] = 0 /\ high = <<kind, low[2], 1>>
      THEN low[2] ELSE {}

CodeAt(payload, base, bits, k) ==
  LET cell == CellAt(payload, base + (k \div PerByte(bits)))
  IN  IF cell[1] = "codes" THEN cell[2][(k % PerByte(bits)) + 1] ELSE Garbage

\* Weight (r, c) of a record that starts at base: a code means its weight only
\* with the scale and the zero point of its own group.
DecodedWeight(payload, base, m, r, c) ==
  LET group == r * (m.cols \div m.group) + (c \div m.group)
      code  == CodeAt(payload, base + m.spans.codes.at, m.bits, (r * m.cols) + c)
      number(kind, s) == NumberAt(payload, base + s.at + group * MetaBytes, kind)
      raw   == NumberAt(payload, base + 2 * (r * m.cols + c), "packed")
  IN  IF m.bits >= 16 THEN (IF raw = {} THEN Garbage ELSE CHOOSE w \in raw : TRUE)
      ELSE IF code \in number("scales", m.spans.scales)
              /\ (m.sym \/ code \in number("zeros", m.spans.zeros))
           THEN code ELSE Garbage

\* decode_record: the whole matrix, row after row.
DecodeRecord(payload, base, m) ==
  [k \in 1..m.rows * m.cols |->
     DecodedWeight(payload, base, m, (k - 1) \div m.cols, (k - 1) % m.cols)]

RowsAligned(m) == m.bits >= 8 \/ m.cols % PerByte(m.bits) = 0

\* decode_rows: rows from..to-1, by the strides of one row where rows begin on
\* a byte, out of the whole matrix where they do not.
DecodeRows(payload, m, from, to) ==
  LET stride == WeightBytes(m.cols, m.bits)
      meta   == IF m.bits >= 16 THEN 0 ELSE (m.cols \div m.group) * MetaBytes
      part   == [m EXCEPT !.rows = to - from,
                   !.spans.codes.at = @ + from * stride,
                   !.spans.scales.at = @ + from * meta, !.spans.zeros.at = @ + from * meta]
  IN  IF m.bits >= 16 THEN DecodeRecord(payload, from * stride, [m EXCEPT !.rows = to - from])
      ELSE IF RowsAligned(m) THEN DecodeRecord(payload, 0, part)
      ELSE SubSeq(DecodeRecord(payload, 0, m), from * m.cols + 1, to * m.cols)
==============================================================================
