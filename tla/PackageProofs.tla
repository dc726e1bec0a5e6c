---------------------------- MODULE PackageProofs ----------------------------
(***************************************************************************)
(* Proofs about PackagePlan and Package, for every checkpoint and any page *)
(* size: the items of a plan lie apart, no tensor vanishes, and what is    *)
(* packed is unpacked.                                                     *)
(***************************************************************************)
EXTENDS Package, DataTheorems

-----------------------------------------------------------------------------
(* What the address arithmetic of PackageLayout does.                      *)

LEMMA CeilDivFacts ==
  ASSUME NEW a \in Nat, NEW b \in Nat \ {0}
  PROVE  /\ CeilDiv(a, b) \in Nat /\ a <= b * CeilDiv(a, b)
         /\ b * CeilDiv(a, b) <= a + b - 1
         /\ a > 0 => CeilDiv(a, b) > 0
BY RoundedUp, Zenon DEF CeilDiv

\* The next multiple is not below.
LEMMA AlignUpFacts ==
  ASSUME NEW v \in Nat, NEW a \in Nat \ {0}
  PROVE  AlignUp(v, a) \in Nat /\ v <= AlignUp(v, a) /\ AlignUp(v, a) % a = 0
<1>1. CASE a <= 1
  <2>1. a = 1 BY <1>1
  <2>2. v % 1 = 0 BY DivFacts
  <2> QED BY <1>1, <2>1, <2>2 DEF AlignUp
<1>2. CASE ~(a <= 1)
  <2> DEFINE q == CeilDiv(v, a)
  <2>1. q \in Nat /\ v <= a * q BY CeilDivFacts
  <2>2. AlignUp(v, a) = q * a BY <1>2 DEF AlignUp
  <2> HIDE DEF q
  <2>3. q * a \in Nat /\ q * a = a * q BY <2>1, TimesNat, TimesType
  <2>4. (a * q + 0) % a = 0 BY <2>1, DivIsUnique
  <2>5. a * q + 0 = a * q BY <2>3
  <2> QED BY <2>1, <2>2, <2>3, <2>4, <2>5
<1> QED BY <1>1, <1>2

Shapes == Seq(Nat \ {0})

LEMMA ProductIsPositive == ASSUME NEW s \in Shapes PROVE Product(s) \in Nat \ {0}
<1> DEFINE C == {n \in 0 .. Len(s) : Fold("product", s, 1 .. n) \notin Nat \ {0}}
<1>0. Len(s) \in Nat /\ DOMAIN s = 1 .. Len(s) /\ \A i \in 1 .. Len(s) : s[i] \in Nat \ {0} BY DEF Shapes
<1>1. C = {}
  <2> SUFFICES ASSUME C # {} PROVE FALSE OBVIOUS
  <2>1. C \in SUBSET Nat BY <1>0
  <2>2. PICK n \in C : \A m \in C : n <= m
    <3> HIDE DEF C
    <3> QED BY <2>1, LeastNumber
  <2>3. n \in Nat /\ n <= Len(s) BY <1>0
  <2>4. CASE n = 0
    <3>1. Fold("product", s, 1 .. n) = 1 BY <2>3, <2>4, FoldOfPrefix DEF FoldBase
    <3> QED BY <2>2, <3>1
  <2>5. CASE n > 0
    <3>1. n - 1 \in 0 .. Len(s) /\ n - 1 \notin C BY <2>2, <2>3, <2>5, <1>0
    <3>2. Fold("product", s, 1 .. n) = Fold("product", s, 1 .. (n - 1)) * s[n]
      BY <2>3, <2>5, FoldOfPrefix DEF FoldStep
    <3>3. s[n] \in Nat \ {0} BY <2>3, <2>5, <1>0
    <3>4. Fold("product", s, 1 .. (n - 1)) \in Nat \ {0} BY <3>1
    <3>5. \A a, b \in Nat \ {0} : a * b \in Nat \ {0} OBVIOUS
    <3> QED BY <2>2, <3>2, <3>3, <3>4, <3>5
  <2> QED BY <2>3, <2>4, <2>5
<1>2. Len(s) \notin C /\ Len(s) \in 0 .. Len(s) BY <1>0, <1>1
<1> QED BY <1>0, <1>2, ProductIsFold

LEMMA RowsIsProduct == ASSUME NEW s PROVE Rows(s) = Product(SubSeq(s, 1, Len(s) - 1))
BY DEF Rows, Product

\* No dimension of a tensor is empty.
LEMMA ShapeFacts ==
  ASSUME NEW s \in Shapes
  PROVE  Rows(s) \in Nat \ {0} /\ Cols(s) \in Nat \ {0} /\ Size(s) \in Nat \ {0}
<1>1. SubSeq(s, 1, Len(s) - 1) \in Shapes
  <2>1. Len(s) \in Nat BY DEF Shapes
  <2>2. \A i \in 1 .. (Len(s) - 1) : s[i] \in Nat \ {0} BY DEF Shapes
  <2> QED BY <2>1, <2>2, SubSeqProperties DEF Shapes
<1>2. Rows(s) \in Nat \ {0} BY <1>1, ProductIsPositive, RowsIsProduct
<1>3. Cols(s) \in Nat \ {0} BY DEF Cols, Last, Shapes
<1>4. \A a, b \in Nat \ {0} : a * b \in Nat \ {0} OBVIOUS
<1> QED BY <1>2, <1>3, <1>4 DEF Size

\* How a component is stored.
Precisions == [bits : Nat \ {0}, group : Int, sym : BOOLEAN]

LEMMA GroupFacts ==
  ASSUME NEW in \in Nat \ {0}, NEW group \in Int
  PROVE  ResolveGroup(in, group) \in Nat \ {0}
<1>1. CASE group <= 0 \/ group >= in BY <1>1 DEF ResolveGroup
<1>2. CASE ~(group <= 0 \/ group >= in)
  <2> DEFINE G == {g \in 1 .. group : in % g = 0}
  <2>1. group \in Nat /\ 1 \in 1 .. group BY <1>2
  <2>2. in % 1 = 0 BY DivFacts
  <2>3. 1 \in G BY <2>1, <2>2
  <2>4. IsFiniteSet(1 .. group) BY <2>1, FS_Interval
  <2>5. IsFiniteSet(G) /\ G \subseteq Nat BY <2>1, <2>4, FS_Subset
  <2>6. \A g \in G : g \in Nat \ {0} BY <2>1
  <2> HIDE DEF G
  <2>7. PICK m \in G : \A n \in G : n <= m BY <2>3, <2>5, GreatestNumber
  <2>8. \E x \in G : \A y \in G : x >= y BY <2>5, <2>7
  <2>9. Max(G) \in G BY <2>8 DEF Max
  <2>10. ResolveGroup(in, group) = Max(G) BY <1>2 DEF ResolveGroup, G
  <2> QED BY <2>6, <2>9, <2>10
<1> QED BY <1>1, <1>2

\* As many bytes as there are codes need, and at least one.
LEMMA PackedFacts ==
  ASSUME NEW n \in Nat \ {0}, NEW bits \in Nat \ {0}
  PROVE  PackedBytes(n, bits) \in Nat \ {0}
<1>2. CASE bits >= 8
  <2> DEFINE w == n * bits
  <2>1. w \in Nat \ {0}
    <3>1. \A a, b \in Nat \ {0} : a * b \in Nat \ {0} OBVIOUS
    <3> QED BY <3>1
  <2>2. PackedBytes(n, bits) = CeilDiv(w, 8) BY <1>2 DEF PackedBytes
  <2> HIDE DEF w
  <2>3. 8 \in Nat \ {0} /\ w \in Nat /\ w > 0 BY <2>1
  <2> QED BY <2>2, <2>3, CeilDivFacts
<1>3. CASE ~(bits >= 8)
  <2>1. PerByte(bits) \in Nat \ {0}
    <3>1. bits \in {1, 2, 3, 4, 5, 6, 7} BY <1>3
    <3> QED BY <3>1 DEF PerByte
  <2> DEFINE m == PerByte(bits)
  <2>a. n \in Nat /\ n > 0 /\ m \in Nat \ {0} BY <2>1
  <2> HIDE DEF m
  <2>b. CeilDiv(n, m) \in Nat /\ (n > 0 => CeilDiv(n, m) > 0) BY <2>a, CeilDivFacts
  <2>2. CeilDiv(n, PerByte(bits)) \in Nat \ {0} BY <2>a, <2>b DEF m
  <2> QED BY <1>3, <2>2 DEF PackedBytes
<1> QED BY <1>2, <1>3

LEMMA WeightFacts ==
  ASSUME NEW n \in Nat \ {0}, NEW bits \in Nat \ {0}
  PROVE  WeightBytes(n, bits) \in Nat \ {0}
BY PackedFacts DEF WeightBytes

\* A matrix takes bytes.
LEMMA MatrixFacts ==
  ASSUME NEW shape \in Shapes, NEW entry \in Precisions
  PROVE  MatrixBytes(Matrix(shape, entry)) \in Nat \ {0}
<1> DEFINE r == Rows(shape)  c == Cols(shape)  b == entry.bits
           group == ResolveGroup(c, entry.group)
           sp == Spans(r, c, b, group, entry.sym)
           g == ResolveGroup(c, group)
           p == CeilDiv(c, g)
           w == IF b >= 16 THEN c ELSE p * g
           codes == WeightBytes(r * w, b)
           meta == IF b >= 16 THEN 0 ELSE r * p * MetaBytes
<1>1. r \in Nat \ {0} /\ c \in Nat \ {0} BY ShapeFacts
<1>2. b \in Nat \ {0} /\ entry.group \in Int /\ entry.sym \in BOOLEAN BY DEF Precisions
<1>3. MatrixBytes(Matrix(shape, entry)) = SpanBytes(sp) BY DEF MatrixBytes, Matrix
<1>4. /\ sp.codes.len = codes /\ sp.scales.len = meta
      /\ sp.zeros.len = IF entry.sym THEN 0 ELSE meta
  BY DEF Spans
<1> HIDE DEF r, c, b, sp
<1>5. group \in Nat \ {0} BY <1>1, <1>2, GroupFacts
<1> HIDE DEF group
<1>6. g \in Nat \ {0} BY <1>1, <1>5, GroupFacts
<1> HIDE DEF g
<1>7. p \in Nat \ {0} BY <1>1, <1>6, CeilDivFacts
<1> HIDE DEF p
<1>8. \A x, y \in Nat \ {0} : x * y \in Nat \ {0} OBVIOUS
<1>12. w \in Nat \ {0} BY <1>1, <1>6, <1>7, <1>8
<1> HIDE DEF w
<1>9. r * p \in Nat \ {0} /\ r * w \in Nat \ {0} BY <1>1, <1>7, <1>8, <1>12
<1>10. codes \in Nat \ {0} BY <1>2, <1>9, WeightFacts
<1>11. meta \in Nat
  <2>1. r * p * 2 \in Nat BY <1>9, TimesNat
  <2> QED BY <2>1 DEF MetaBytes
<1> HIDE DEF codes, meta
<1> QED BY <1>3, <1>4, <1>10, <1>11 DEF SpanBytes

-----------------------------------------------------------------------------
(* Things put one after the other.                                         *)

LEMMA PlusNat == \A a, b \in Nat : a + b \in Nat
OBVIOUS

\* What begins not before the end of the one before it lies apart from all.
LEMMA OneAfterTheOther ==
  ASSUME NEW n \in Nat, NEW at \in [1 .. n + 1 -> Nat], NEW len \in [1 .. n -> Nat],
         \A k \in 1 .. n : at[k] + len[k] <= at[k + 1]
  PROVE  \A i \in 1 .. n : \A j \in 1 .. n + 1 : i < j => at[i] + len[i] <= at[j]
<1> SUFFICES ASSUME NEW i \in 1 .. n,
                    {j \in 1 .. n + 1 : i < j /\ ~(at[i] + len[i] <= at[j])} # {}
             PROVE  FALSE
  OBVIOUS
<1> DEFINE C == {j \in 1 .. n + 1 : i < j /\ ~(at[i] + len[i] <= at[j])}
<1>1. C \in SUBSET Nat /\ C # {} BY SMTT(30)
<1>2. PICK j \in C : \A m \in C : j <= m
  <2> HIDE DEF C
  <2> QED BY <1>1, LeastNumber
<1>3. j \in 1 .. n + 1 /\ i < j /\ ~(at[i] + len[i] <= at[j]) OBVIOUS
<1>4. j # i + 1 BY <1>3
<1>5. j - 1 \in 1 .. n /\ i < j - 1 /\ j - 1 \in 1 .. n + 1 /\ (j - 1) + 1 = j BY <1>3, <1>4
<1>6. at[i] + len[i] <= at[j - 1]
  <2>1. j - 1 \notin C BY <1>2, <1>3
  <2> QED BY <1>5, <2>1
<1>7. at[j - 1] + len[j - 1] <= at[j] BY <1>5
<1>8. at[i] \in Nat /\ len[i] \in Nat /\ at[j] \in Nat /\ at[j - 1] \in Nat /\ len[j - 1] \in Nat
  <2>1. i \in 1 .. n + 1 /\ j \in 1 .. n + 1 /\ j - 1 \in 1 .. n + 1 /\ j - 1 \in 1 .. n BY <1>3, <1>5
  <2> QED BY <2>1
<1> HIDE DEF C
<1> DEFINE a == at[i] + len[i]  b == at[j - 1]  c == len[j - 1]  d == at[j]
<1>9. at[i] + len[i] <= at[j]
  <2>1. a <= b /\ b + c <= d BY <1>6, <1>7, Zenon
  <2>2. b \in Nat /\ c \in Nat /\ d \in Nat BY <1>8, Zenon
  <2>3. a \in Nat
    <3>1. at[i] \in Nat /\ len[i] \in Nat BY <1>8, Zenon
    <3> QED BY <3>1, PlusNat, Zenon
  <2> HIDE DEF a, b, c, d
  <2>4. a <= d BY <2>1, <2>2, <2>3
  <2> QED BY <2>4 DEF a, d
<1> QED BY <1>3, <1>9

\* Such things do not overlap, and are below where the next would begin.
LEMMA NoOverlap ==
  ASSUME NEW n \in Nat, NEW at \in [1 .. n + 1 -> Nat], NEW len \in [1 .. n -> Nat],
         \A k \in 1 .. n : at[k] + len[k] <= at[k + 1]
  PROVE  ~Overlap({<<at[k], at[k] + len[k]>> : k \in 1 .. n}, at[n + 1])
<1> DEFINE spans == {<<at[k], at[k] + len[k]>> : k \in 1 .. n}
<1>1. \A i \in 1 .. n : \A j \in 1 .. n + 1 : i < j => at[i] + len[i] <= at[j]
  BY OneAfterTheOther, Zenon
<1>2. ASSUME NEW s \in spans
      PROVE  \E k \in 1 .. n : s[1] = at[k] /\ s[2] = at[k] + len[k] /\ s = <<at[k], at[k] + len[k]>>
  OBVIOUS
<1>3. ASSUME NEW s \in spans PROVE ~(s[1] < 0 \/ s[2] < s[1] \/ s[2] > at[n + 1])
  <2>1. PICK k \in 1 .. n : s[1] = at[k] /\ s[2] = at[k] + len[k] BY <1>2
  <2>2. at[k] \in Nat /\ len[k] \in Nat /\ at[n + 1] \in Nat
    <3>1. k \in 1 .. n + 1 /\ n + 1 \in 1 .. n + 1 OBVIOUS
    <3> QED BY <3>1
  <2>3. k < n + 1 /\ n + 1 \in 1 .. n + 1 OBVIOUS
  <2>4. at[k] + len[k] <= at[n + 1] BY <1>1, <2>3
  <2> QED BY <2>1, <2>2, <2>4
<1>4. ASSUME NEW s \in spans, NEW t \in spans, s # t PROVE ~(s[1] < t[2] /\ t[1] < s[2])
  <2>1. PICK i \in 1 .. n : s[1] = at[i] /\ s[2] = at[i] + len[i] /\ s = <<at[i], at[i] + len[i]>> BY <1>2
  <2>2. PICK j \in 1 .. n : t[1] = at[j] /\ t[2] = at[j] + len[j] /\ t = <<at[j], at[j] + len[j]>> BY <1>2
  <2>3. i # j BY <1>4, <2>1, <2>2
  <2>4. at[i] \in Nat /\ len[i] \in Nat /\ at[j] \in Nat /\ len[j] \in Nat
    <3>1. i \in 1 .. n + 1 /\ j \in 1 .. n + 1 OBVIOUS
    <3> QED BY <3>1
  <2>5. i < j => at[i] + len[i] <= at[j] BY <1>1
  <2>6. j < i => at[j] + len[j] <= at[i] BY <1>1
  <2>7. i < j \/ j < i BY <2>3
  <2> DEFINE ai == at[i]  li == len[i]  aj == at[j]  lj == len[j]
  <2>8. /\ ai \in Nat /\ li \in Nat /\ aj \in Nat /\ lj \in Nat
        /\ s[1] = ai /\ s[2] = ai + li /\ t[1] = aj /\ t[2] = aj + lj
        /\ ai + li <= aj \/ aj + lj <= ai
    BY <2>1, <2>2, <2>4, <2>5, <2>6, <2>7
  <2> HIDE DEF ai, li, aj, lj
  <2> QED BY <2>8
<1> HIDE DEF spans
<1>5. ~Overlap(spans, at[n + 1]) BY <1>3, <1>4 DEF Overlap
<1> QED BY <1>5 DEF spans

\* A record begins where those before it end, filled up to the alignment.
LEMMA DenseAtIsFold ==
  ASSUME NEW M, NEW ms \in Seq(M), NEW k \in 1 .. Len(ms) + 1,
         NEW w, w = [i \in 1 .. Len(ms) |-> <<MatrixBytes(ms[i]), DenseAlign>>]
  PROVE  DenseAt(ms, k) = Fold("aligned", w, 1 .. (k - 1))
<1> DEFINE s == SubSeq(ms, 1, k - 1)
           S == 1 .. (k - 1)
           Table(g) == [t \in SUBSET S |-> IF t = {} THEN 0
                                          ELSE AlignUp(g[t \ {Max(t)}] + MatrixBytes(s[Max(t)]), DenseAlign)]
<1>1. k - 1 \in Nat /\ k - 1 <= Len(ms) OBVIOUS
<1>2. DOMAIN s = S /\ \A i \in S : s[i] = ms[i] OBVIOUS
<1>3. DenseAt(ms, k) = (CHOOSE g : g = Table(g))[S]
  <2>1. DenseAt(ms, k) = (CHOOSE g : g = [t \in SUBSET DOMAIN s |-> IF t = {} THEN 0
                            ELSE AlignUp(g[t \ {Max(t)}] + MatrixBytes(s[Max(t)]), DenseAlign)])[DOMAIN s]
    BY Zenon DEF DenseAt, FoldLeft, MapThenFoldSet
  <2> HIDE DEF s, S
  <2> QED BY <1>2, <2>1
<1>4. ASSUME NEW t \in SUBSET S, t # {}
      PROVE  Max(t) \in S /\ s[Max(t)] = ms[Max(t)]
             /\ w[Max(t)][1] = MatrixBytes(ms[Max(t)]) /\ w[Max(t)][2] = DenseAlign
  <2>1. Foldable("aligned", S) BY <1>1, IndicesAreFoldable
  <2>2. Max(t) \in t BY <1>4, <2>1 DEF Foldable, LastFolded
  <2>3. Max(t) \in S /\ s[Max(t)] = ms[Max(t)] BY <1>2, <2>2
  <2>4. \A i \in S : i \in 1 .. Len(ms) BY <1>1
  <2> DEFINE m == Max(t)
  <2>5. m \in 1 .. Len(ms) BY <2>3, <2>4
  <2> HIDE DEF s, S, m
  <2>6. w[m] = <<MatrixBytes(ms[m]), DenseAlign>> BY <2>5
  <2>7. w[m][1] = MatrixBytes(ms[m]) /\ w[m][2] = DenseAlign BY <2>6
  <2> QED BY <2>3, <2>7 DEF m
<1>5. ASSUME NEW g PROVE Table(g) = [t \in SUBSET S |-> TableRow("aligned", g, w, t)]
  <2>1. ASSUME NEW t \in SUBSET S
        PROVE  TableRow("aligned", g, w, t) =
                 IF t = {} THEN 0 ELSE AlignUp(g[t \ {Max(t)}] + MatrixBytes(s[Max(t)]), DenseAlign)
    <3>1. CASE t = {} BY <3>1 DEF TableRow, FoldBase
    <3>2. CASE t # {}
      <4> HIDE DEF s, S
      <4>1. TableRow("aligned", g, w, t) = Aligned(g[t \ {Max(t)}] + w[Max(t)][1], w[Max(t)][2])
        BY <3>2 DEF TableRow, FoldStep, LastFolded
      <4>2. s[Max(t)] = ms[Max(t)] /\ w[Max(t)][1] = MatrixBytes(ms[Max(t)]) /\ w[Max(t)][2] = DenseAlign
        BY <1>4, <3>2
      <4> QED BY <3>2, <4>1, <4>2 DEF Aligned, AlignUp, CeilDiv
    <3> QED BY <3>1, <3>2
  <2> HIDE DEF s, S
  <2> QED BY <2>1
<1>6. \A g : g = Table(g) <=> IsTable("aligned", g, w, S) BY <1>5 DEF IsTable
<1> HIDE DEF Table, S
<1>7. (CHOOSE g : g = Table(g)) = (CHOOSE g : IsTable("aligned", g, w, S)) BY <1>6
<1> QED BY <1>3, <1>7 DEF Fold, S

\* The places of the dense entries.
LEMMA DensePlaces ==
  ASSUME NEW M, NEW ms \in Seq(M), \A k \in 1 .. Len(ms) : MatrixBytes(ms[k]) \in Nat
  PROVE  /\ \A k \in 1 .. Len(ms) + 1 : DenseAt(ms, k) \in Nat
         /\ \A k \in 1 .. Len(ms) : DenseAt(ms, k) + MatrixBytes(ms[k]) <= DenseAt(ms, k + 1)
<1> DEFINE w == [i \in 1 .. Len(ms) |-> <<MatrixBytes(ms[i]), DenseAlign>>]
           F(k) == Fold("aligned", w, 1 .. (k - 1))
           n == Len(ms)
           B(k) == MatrixBytes(ms[k])
           C == {k \in 1 .. n + 1 : DenseAt(ms, k) \notin Nat}
<1>0. n \in Nat /\ \A k \in 1 .. n : B(k) \in Nat OBVIOUS
<1>1. \A k \in 1 .. n + 1 : DenseAt(ms, k) = F(k) BY DenseAtIsFold
<1>2. ASSUME NEW k \in 1 .. n PROVE w[k][1] = B(k) /\ w[k][2] = DenseAlign OBVIOUS
<1> HIDE DEF n, w, B
<1>3. \A k \in 1 .. n + 1 : k = 1 => F(k) = 0
  <2>1. 0 \in Nat /\ 0 = 1 - 1 OBVIOUS
  <2>2. Fold("aligned", w, 1 .. 0) = 0 BY <2>1, FoldOfPrefix DEF FoldBase
  <2> QED BY <2>1, <2>2
<1>4. ASSUME NEW k \in 1 .. n PROVE F(k + 1) = AlignUp(F(k) + B(k), DenseAlign)
  <2>1. k \in Nat /\ k > 0 /\ (k + 1) - 1 = k OBVIOUS
  <2>2. Fold("aligned", w, 1 .. k) = FoldStep("aligned", Fold("aligned", w, 1 .. (k - 1)), w[k])
    BY <2>1, FoldOfPrefix
  <2>3. FoldStep("aligned", F(k), w[k]) = Aligned(F(k) + w[k][1], w[k][2]) BY DEF FoldStep
  <2>4. F(k + 1) = Aligned(F(k) + w[k][1], w[k][2]) BY <2>1, <2>2, <2>3
  <2> HIDE DEF F
  <2> QED BY <1>2, <2>4 DEF Aligned, AlignUp, CeilDiv
<1> HIDE DEF F
<1>5. ASSUME NEW k \in 1 .. n, DenseAt(ms, k) \in Nat
      PROVE  DenseAt(ms, k + 1) \in Nat /\ DenseAt(ms, k) + B(k) <= DenseAt(ms, k + 1)
  <2>1. k \in 1 .. n + 1 /\ k + 1 \in 1 .. n + 1 BY <1>0
  <2>2. DenseAt(ms, k + 1) = AlignUp(DenseAt(ms, k) + B(k), DenseAlign) BY <1>1, <1>4, <2>1
  <2>3. DenseAt(ms, k) + B(k) \in Nat /\ DenseAlign \in Nat \ {0} BY <1>0, <1>5, LayoutAssumption
  <2> QED BY <2>2, <2>3, AlignUpFacts
<1>6. C = {}
  <2> SUFFICES ASSUME C # {} PROVE FALSE OBVIOUS
  <2>1. C \in SUBSET Nat BY <1>0
  <2>2. PICK k \in C : \A m \in C : k <= m
    <3> HIDE DEF C
    <3> QED BY <2>1, LeastNumber
  <2>3. k \in 1 .. n + 1 /\ DenseAt(ms, k) \notin Nat OBVIOUS
  <2>4. CASE k = 1
    <3>1. DenseAt(ms, k) = 0 BY <1>1, <1>3, <2>3, <2>4
    <3> QED BY <2>3, <3>1
  <2>5. CASE k # 1
    <3>1. k - 1 \in 1 .. n /\ k - 1 \in 1 .. n + 1 /\ (k - 1) + 1 = k /\ k - 1 < k BY <1>0, <2>3, <2>5
    <3>2. k - 1 \notin C BY <1>0, <2>2, <2>3, <3>1
    <3>3. DenseAt(ms, k - 1) \in Nat BY <3>1, <3>2
    <3>4. DenseAt(ms, (k - 1) + 1) \in Nat BY <1>5, <3>1, <3>3
    <3> QED BY <2>3, <3>1, <3>4
  <2> QED BY <2>4, <2>5
<1>7. \A k \in 1 .. n + 1 : DenseAt(ms, k) \in Nat BY <1>6
<1>8. \A k \in 1 .. n : k \in 1 .. n + 1 BY <1>0
<1> QED BY <1>5, <1>7, <1>8 DEF n, B

-----------------------------------------------------------------------------
(* Sums over a sequence: the payload of a record, the rows of a table.     *)

LEMMA AddedIsNat ==
  ASSUME NEW n \in Nat, NEW w \in [1 .. n -> Nat]
  PROVE  /\ Fold("added", w, 1 .. 0) = 0
         /\ \A k \in 0 .. n : Fold("added", w, 1 .. k) \in Nat
         /\ \A k \in 1 .. n : Fold("added", w, 1 .. k) = Fold("added", w, 1 .. (k - 1)) + w[k]
<1> DEFINE F(k) == Fold("added", w, 1 .. k)
           C == {k \in 0 .. n : F(k) \notin Nat}
<1>1. F(0) = 0
  <2>1. 0 \in Nat OBVIOUS
  <2> QED BY <2>1, FoldOfPrefix DEF FoldBase
<1>2. ASSUME NEW k \in 1 .. n PROVE F(k) = F(k - 1) + w[k]
  <2>1. k \in Nat /\ k > 0 OBVIOUS
  <2> QED BY <2>1, FoldOfPrefix DEF FoldStep
<1> HIDE DEF F
<1>3. C = {}
  <2> SUFFICES ASSUME C # {} PROVE FALSE OBVIOUS
  <2>1. C \in SUBSET Nat OBVIOUS
  <2>2. PICK k \in C : \A m \in C : k <= m
    <3> HIDE DEF C
    <3> QED BY <2>1, LeastNumber
  <2>3. k \in 0 .. n /\ F(k) \notin Nat OBVIOUS
  <2>4. k # 0 BY <1>1, <2>3
  <2>5. k - 1 \in 0 .. n /\ k \in 1 .. n /\ ~(k <= k - 1) BY <2>3, <2>4
  <2>6. F(k - 1) \in Nat BY <2>2, <2>5
  <2>7. w[k] \in Nat BY <2>5
  <2> QED BY <1>2, <2>3, <2>5, <2>6, <2>7
<1>4. \A k \in 0 .. n : F(k) \in Nat BY <1>3
<1> QED BY <1>1, <1>2, <1>4 DEF F

\* The payload of a record is as long as its projections are together.
LEMMA PayloadIsNat ==
  ASSUME NEW M, NEW ps \in Seq(M), \A k \in 1 .. Len(ps) : MatrixBytes(ps[k]) \in Nat
  PROVE  ProjectionAt(ps, Len(ps) + 1) \in Nat
<1> DEFINE s == SubSeq(ps, 1, (Len(ps) + 1) - 1)
           n == Len(ps)
           w == [i \in 1 .. n |-> MatrixBytes(ps[i])]
           S == 1 .. n
           Table(g) == [t \in SUBSET S |-> IF t = {} THEN 0
                                          ELSE g[t \ {Max(t)}] + MatrixBytes(s[Max(t)])]
<1>1. n \in Nat /\ w \in [1 .. n -> Nat] OBVIOUS
<1>2. DOMAIN s = S /\ \A i \in S : s[i] = ps[i] OBVIOUS
<1>3. ProjectionAt(ps, Len(ps) + 1) = (CHOOSE g : g = Table(g))[S]
  <2>1. ProjectionAt(ps, Len(ps) + 1) =
          (CHOOSE g : g = [t \in SUBSET DOMAIN s |-> IF t = {} THEN 0
                             ELSE g[t \ {Max(t)}] + MatrixBytes(s[Max(t)])])[DOMAIN s]
    BY Zenon DEF ProjectionAt, FoldLeft, MapThenFoldSet
  <2> HIDE DEF s, S
  <2> QED BY <1>2, <2>1
<1>4. ASSUME NEW t \in SUBSET S, t # {} PROVE MatrixBytes(s[Max(t)]) = w[Max(t)]
  <2>1. Foldable("added", S) BY <1>1, IndicesAreFoldable
  <2>2. Max(t) \in t BY <1>4, <2>1 DEF Foldable, LastFolded
  <2> DEFINE m == Max(t)
  <2>3. m \in S BY <2>2
  <2> HIDE DEF s, m
  <2>4. s[m] = ps[m] /\ w[m] = MatrixBytes(ps[m]) BY <1>2, <2>3
  <2> QED BY <2>4 DEF m
<1>5. ASSUME NEW g PROVE Table(g) = [t \in SUBSET S |-> TableRow("added", g, w, t)]
  <2>1. ASSUME NEW t \in SUBSET S
        PROVE  TableRow("added", g, w, t) = IF t = {} THEN 0 ELSE g[t \ {Max(t)}] + MatrixBytes(s[Max(t)])
    <3>1. CASE t = {} BY <3>1 DEF TableRow, FoldBase
    <3>2. CASE t # {}
      <4> HIDE DEF s, S, w
      <4>1. TableRow("added", g, w, t) = g[t \ {Max(t)}] + w[Max(t)]
        BY <3>2 DEF TableRow, FoldStep, LastFolded
      <4> QED BY <1>4, <3>2, <4>1
    <3> QED BY <3>1, <3>2
  <2> HIDE DEF s, S, w
  <2> QED BY <2>1
<1>6. \A g : g = Table(g) <=> IsTable("added", g, w, S) BY <1>5 DEF IsTable
<1> HIDE DEF Table, S, w, n
<1>7. (CHOOSE g : g = Table(g)) = (CHOOSE g : IsTable("added", g, w, S)) BY <1>6
<1>8. n \in 0 .. n BY <1>1
<1>9. Fold("added", w, 1 .. n) \in Nat BY <1>1, <1>8, AddedIsNat
<1> QED BY <1>3, <1>7, <1>9 DEF Fold, S

\* So many rows have the shards of a table.
LEMMA RowsAreNat ==
  ASSUME NEW M, NEW s \in Seq(M), \A k \in 1 .. Len(s) : s[k].rows \in Nat
  PROVE  FoldLeft(LAMBDA a, p : a + p.rows, 0, s) \in Nat
<1> DEFINE n == Len(s)
           w == [i \in 1 .. n |-> s[i].rows]
           S == 1 .. n
           Table(g) == [t \in SUBSET S |-> IF t = {} THEN 0 ELSE g[t \ {Max(t)}] + s[Max(t)].rows]
<1>1. n \in Nat /\ w \in [1 .. n -> Nat] /\ DOMAIN s = S OBVIOUS
<1>3. FoldLeft(LAMBDA a, p : a + p.rows, 0, s) = (CHOOSE g : g = Table(g))[S]
  <2>1. FoldLeft(LAMBDA a, p : a + p.rows, 0, s) =
          (CHOOSE g : g = [t \in SUBSET DOMAIN s |-> IF t = {} THEN 0
                             ELSE g[t \ {Max(t)}] + s[Max(t)].rows])[DOMAIN s]
    BY Zenon DEF FoldLeft, MapThenFoldSet
  <2> HIDE DEF S
  <2> QED BY <1>1, <2>1
<1>4. ASSUME NEW t \in SUBSET S, t # {} PROVE s[Max(t)].rows = w[Max(t)]
  <2>1. Foldable("added", S) BY <1>1, IndicesAreFoldable
  <2>2. Max(t) \in t BY <1>4, <2>1 DEF Foldable, LastFolded
  <2> DEFINE m == Max(t)
  <2>3. m \in S BY <2>2
  <2> HIDE DEF m
  <2>4. w[m] = s[m].rows BY <2>3
  <2> QED BY <2>4 DEF m
<1>5. ASSUME NEW g PROVE Table(g) = [t \in SUBSET S |-> TableRow("added", g, w, t)]
  <2>1. ASSUME NEW t \in SUBSET S
        PROVE  TableRow("added", g, w, t) = IF t = {} THEN 0 ELSE g[t \ {Max(t)}] + s[Max(t)].rows
    <3>1. CASE t = {} BY <3>1 DEF TableRow, FoldBase
    <3>2. CASE t # {}
      <4> HIDE DEF S, w
      <4>1. TableRow("added", g, w, t) = g[t \ {Max(t)}] + w[Max(t)]
        BY <3>2 DEF TableRow, FoldStep, LastFolded
      <4> QED BY <1>4, <3>2, <4>1
    <3> QED BY <3>1, <3>2
  <2> HIDE DEF S, w
  <2> QED BY <2>1
<1>6. \A g : g = Table(g) <=> IsTable("added", g, w, S) BY <1>5 DEF IsTable
<1> HIDE DEF Table, S, w, n
<1>7. (CHOOSE g : g = Table(g)) = (CHOOSE g : IsTable("added", g, w, S)) BY <1>6
<1>8. n \in 0 .. n BY <1>1
<1>9. Fold("added", w, 1 .. n) \in Nat BY <1>1, <1>8, AddedIsNat
<1> QED BY <1>3, <1>7, <1>9 DEF Fold, S

-----------------------------------------------------------------------------
(* Rows in pages.                                                          *)

\* Rows as they are laid out: whole rows in a page, or whole pages for a row.
IsPaged(row) ==
  /\ row.payload \in Nat \ {0} /\ row.page \in Nat \ {0} /\ row.perPage \in Nat \ {0}
  /\ row.perPage * row.payload <= row.page
  /\ row.payload > PageBytes => row.perPage = 1 /\ row.page % PageBytes = 0
  /\ row.payload <= PageBytes => row.page = PageBytes

LEMMA RowsArePaged ==
  ASSUME NEW width \in Nat \ {0}, NEW entry \in Precisions PROVE IsPaged(RowLayout(width, entry))
<1> DEFINE m == Matrix(<<1, width>>, entry)
           payload == MatrixBytes(m)
           row == RowLayout(width, entry)
<1>1. <<1, width>> \in Shapes BY DEF Shapes
<1>2. payload \in Nat \ {0} BY <1>1, MatrixFacts
<1>3. row = IF payload > PageBytes
            THEN [matrix |-> m, payload |-> payload, page |-> AlignUp(payload, PageBytes), perPage |-> 1]
            ELSE [matrix |-> m, payload |-> payload, page |-> PageBytes, perPage |-> PageBytes \div payload]
  BY DEF RowLayout
<1>4. PageBytes \in Nat \ {0} BY LayoutAssumption
<1> HIDE DEF m, payload, row
<1>5. CASE payload > PageBytes
  <2>1. row.payload = payload /\ row.page = AlignUp(payload, PageBytes) /\ row.perPage = 1 BY <1>3, <1>5
  <2>2. AlignUp(payload, PageBytes) \in Nat /\ payload <= AlignUp(payload, PageBytes)
        /\ AlignUp(payload, PageBytes) % PageBytes = 0
    BY <1>2, <1>4, AlignUpFacts
  <2> QED BY <1>2, <1>4, <1>5, <2>1, <2>2 DEF IsPaged, row
<1>6. CASE ~(payload > PageBytes)
  <2> DEFINE q == PageBytes \div payload
             r == PageBytes % payload
  <2>1. row.payload = payload /\ row.page = PageBytes /\ row.perPage = q BY <1>3, <1>6
  <2>2. q \in Nat /\ r \in 0 .. payload - 1 /\ PageBytes = payload * q + r
    <3>1. PageBytes \in Int BY <1>4
    <3>2. r \in 0 .. payload - 1 /\ PageBytes = payload * q + r BY <1>2, <3>1, DivFacts
    <3>3. q \in Nat BY <1>2, <1>4, DivIsNat
    <3> QED BY <3>2, <3>3
  <2> HIDE DEF q, r
  <2>3. q # 0
    <3>1. q = 0 => payload * q = 0 BY <1>2
    <3> QED BY <1>2, <1>4, <1>6, <2>2, <3>1
  <2>4. payload * q \in Nat /\ payload * q = q * payload BY <1>2, <2>2, TimesNat, TimesType
  <2>5. q * payload <= PageBytes BY <1>4, <2>2, <2>4
  <2> QED BY <1>2, <1>4, <1>6, <2>1, <2>2, <2>3, <2>5 DEF IsPaged, row
<1> QED BY <1>5, <1>6

\* No row reaches into a later one.
LEMMA RowsApart ==
  ASSUME NEW row, IsPaged(row), NEW id \in Nat, NEW before \in 0 .. id - 1
  PROVE  RowOffset(row, before) + row.payload <= RowOffset(row, id)
<1> DEFINE payload == row.payload  page == row.page  pp == row.perPage
           q(i) == i \div pp
           r(i) == i % pp
<1>1. payload \in Nat \ {0} /\ page \in Nat \ {0} /\ pp \in Nat \ {0} /\ pp * payload <= page
  BY Zenon DEF IsPaged
<1>2. \A i \in Nat : RowOffset(row, i) = q(i) * page + r(i) * payload BY DEF RowOffset
<1> HIDE DEF payload, page, pp
<1>3. ASSUME NEW i \in Nat PROVE q(i) \in Nat /\ r(i) \in 0 .. pp - 1 /\ i = pp * q(i) + r(i)
  <2>1. i \in Int OBVIOUS
  <2>2. r(i) \in 0 .. pp - 1 /\ i = pp * q(i) + r(i) BY <1>1, <2>1, DivFacts
  <2>3. q(i) \in Nat BY <1>1, DivIsNat
  <2> QED BY <2>2, <2>3
<1> HIDE DEF q, r
<1> DEFINE a == q(before)  b == q(id)  c == r(before)  d == r(id)
<1>4. /\ a \in Nat /\ c \in Nat /\ c < pp /\ before = pp * a + c
      /\ b \in Nat /\ d \in Nat /\ d < pp /\ id = pp * b + d
      /\ before \in Nat /\ before < id
  BY <1>1, <1>3
<1>5. RowOffset(row, before) = a * page + c * payload /\ RowOffset(row, id) = b * page + d * payload
  BY <1>2, <1>4
<1> HIDE DEF a, b, c, d
<1>6. /\ a * page \in Nat /\ b * page \in Nat /\ c * payload \in Nat /\ d * payload \in Nat
      /\ pp * a \in Nat /\ pp * b \in Nat
  BY <1>1, <1>4, TimesNat
<1>7. a <= b
  <2> SUFFICES ASSUME b + 1 <= a PROVE FALSE BY <1>4
  <2>1. pp * (b + 1) <= pp * a BY <1>1, <1>4, TimesMonotone
  <2>2. pp * (b + 1) = pp * b + pp BY <1>1, <1>4
  <2> QED BY <1>1, <1>4, <1>6, <2>1, <2>2
<1>8. CASE a = b
  <2>1. c + 1 <= d BY <1>1, <1>4, <1>6, <1>8
  <2>2. payload * (c + 1) <= payload * d BY <1>1, <1>4, <2>1, TimesMonotone
  <2>3. payload * (c + 1) = c * payload + payload /\ payload * d = d * payload BY <1>1, <1>4
  <2> QED BY <1>1, <1>5, <1>6, <1>8, <2>2, <2>3 DEF payload
<1>9. CASE a < b
  <2>1. payload * (c + 1) <= payload * pp /\ page * (a + 1) <= page * b
    BY <1>1, <1>4, <1>9, TimesMonotone
  <2>2. payload * (c + 1) = c * payload + payload /\ payload * pp = pp * payload BY <1>1, <1>4
  <2>3. page * (a + 1) = a * page + page /\ page * b = b * page BY <1>1, <1>4
  <2>4. c * payload + payload <= page BY <1>1, <1>6, <2>1, <2>2
  <2>5. a * page + page <= b * page BY <2>1, <2>3
  <2> DEFINE u == a * page  v == b * page  w == c * payload  x == d * payload
  <2>6. /\ u \in Nat /\ v \in Nat /\ w \in Nat /\ x \in Nat /\ w + payload <= page /\ u + page <= v
        /\ RowOffset(row, before) = u + w /\ RowOffset(row, id) = v + x
    BY <1>5, <1>6, <2>4, <2>5
  <2> HIDE DEF u, v, w, x
  <2>7. RowOffset(row, before) + payload <= RowOffset(row, id) BY <1>1, <2>6
  <2> QED BY <2>7 DEF payload
<1> QED BY <1>4, <1>7, <1>8, <1>9

\* A row is inside its table, and inside one page or at the start of one.
LEMMA RowsInPages ==
  ASSUME NEW row, IsPaged(row), NEW n \in Nat, NEW id \in 0 .. n - 1
  PROVE  /\ RowOffset(row, id) + row.payload <= TableBytes(row, n)
         /\ \/ RowOffset(row, id) % PageBytes = 0
            \/ RowOffset(row, id) \div PageBytes = (RowOffset(row, id) + row.payload - 1) \div PageBytes
<1> DEFINE payload == row.payload  page == row.page  pp == row.perPage
           q == id \div pp
           r == id % pp
           c == CeilDiv(n, pp)
           at == RowOffset(row, id)
<1>1. /\ payload \in Nat \ {0} /\ page \in Nat \ {0} /\ pp \in Nat \ {0} /\ pp * payload <= page
      /\ payload > PageBytes => pp = 1 /\ page % PageBytes = 0
      /\ payload <= PageBytes => page = PageBytes
  BY Zenon DEF IsPaged
<1>2. at = q * page + r * payload /\ TableBytes(row, n) = c * page BY DEF RowOffset, TableBytes
<1>3. PageBytes \in Nat \ {0} BY LayoutAssumption
<1> HIDE DEF payload, page, pp, at
<1>4. q \in Nat /\ r \in 0 .. pp - 1 /\ id = pp * q + r
  <2>1. id \in Nat /\ id \in Int OBVIOUS
  <2>2. r \in 0 .. pp - 1 /\ id = pp * q + r BY <1>1, <2>1, DivFacts
  <2>3. q \in Nat BY <1>1, <2>1, DivIsNat
  <2> QED BY <2>2, <2>3
<1>5. c \in Nat /\ n <= pp * c BY <1>1, CeilDivFacts
<1> HIDE DEF q, r, c
<1>6. q + 1 <= c
  <2> SUFFICES ASSUME ~(q + 1 <= c) PROVE FALSE OBVIOUS
  <2>1. c <= q BY <1>4, <1>5
  <2>2. pp * c <= pp * q BY <1>1, <1>4, <1>5, <2>1, TimesMonotone
  <2>3. pp * c \in Nat /\ pp * q \in Nat BY <1>1, <1>4, <1>5, TimesNat
  <2> QED BY <1>1, <1>4, <1>5, <2>2, <2>3
<1>7. r * payload \in Nat /\ r * payload + payload <= page
  <2>1. r \in Nat /\ r + 1 <= pp BY <1>1, <1>4
  <2>2. r * payload \in Nat BY <1>1, <2>1, TimesNat
  <2>3. payload * (r + 1) <= payload * pp BY <1>1, <2>1, TimesMonotone
  <2>4. payload * (r + 1) = r * payload + payload BY <1>1, <2>1
  <2>5. payload * pp = pp * payload BY <1>1
  <2> QED BY <1>1, <2>2, <2>3, <2>4, <2>5
<1>8. at + payload <= TableBytes(row, n)
  <2>1. page * (q + 1) <= page * c BY <1>1, <1>4, <1>5, <1>6, TimesMonotone
  <2>2. page * (q + 1) = q * page + page /\ page * c = c * page BY <1>1, <1>4, <1>5
  <2>3. q * page \in Nat /\ c * page \in Nat BY <1>1, <1>4, <1>5, TimesNat
  <2> DEFINE x == q * page  y == r * payload  z == c * page
  <2>4. x \in Nat /\ y \in Nat /\ z \in Nat /\ x + page <= z /\ y + payload <= page BY <1>7, <2>1, <2>2, <2>3
  <2>5. at = x + y /\ TableBytes(row, n) = z BY <1>2
  <2> HIDE DEF x, y, z
  <2> QED BY <1>1, <2>4, <2>5
<1>9. CASE payload > PageBytes
  <2>1. pp = 1 /\ page % PageBytes = 0 BY <1>1, <1>9
  <2>2. r = 0 BY <1>4, <2>1
  <2>3. at = q * page
    <3>1. r * payload = 0 BY <1>1, <2>2
    <3>2. q * page \in Nat BY <1>1, <1>4, TimesNat
    <3> QED BY <1>2, <3>1, <3>2
  <2> DEFINE d == page \div PageBytes
  <2>4. d \in Nat /\ page = PageBytes * d
    <3>1. page \in Int /\ page \in Nat BY <1>1
    <3>2. page = PageBytes * d + (page % PageBytes) BY <1>3, <3>1, DivFacts
    <3>3. d \in Nat BY <1>3, <3>1, DivIsNat
    <3>4. PageBytes * d \in Nat BY <1>3, <3>3, TimesNat
    <3> QED BY <2>1, <3>2, <3>3, <3>4
  <2> HIDE DEF d
  <2>5. q * d \in Nat BY <1>4, <2>4, TimesNat
  <2>6. \A x, y, z \in Nat : x * (y * z) = y * (x * z) OBVIOUS
  <2>7. at = PageBytes * (q * d) BY <1>3, <1>4, <2>3, <2>4, <2>6
  <2> DEFINE e == q * d
  <2>8. e \in Int /\ e \in Nat /\ at = PageBytes * e BY <2>5, <2>7
  <2> HIDE DEF e
  <2>9. PageBytes * e \in Nat BY <1>3, <2>8, TimesNat
  <2>10. 0 \in 0 .. PageBytes - 1 BY <1>3
  <2>11. (PageBytes * e + 0) % PageBytes = 0 BY <1>3, <2>8, <2>10, DivIsUnique
  <2>12. PageBytes * e + 0 = at BY <2>8, <2>9
  <2>13. at % PageBytes = 0 BY <2>11, <2>12
  <2> QED BY <1>8, <2>13 DEF at, payload
<1>10. CASE ~(payload > PageBytes)
  <2>1. page = PageBytes BY <1>1, <1>3, <1>10
  <2> DEFINE y == r * payload
  <2>2. y \in Nat /\ y + payload <= PageBytes BY <1>7, <2>1
  <2>3. q * page = PageBytes * q /\ PageBytes * q \in Nat BY <1>3, <1>4, <2>1, TimesNat
  <2>4. at = PageBytes * q + y BY <1>2, <2>3
  <2> HIDE DEF y
  <2>5. y \in 0 .. PageBytes - 1 /\ y + payload - 1 \in 0 .. PageBytes - 1 BY <1>1, <1>3, <2>2
  <2>6. q \in Int BY <1>4
  <2>7. (PageBytes * q + y) \div PageBytes = q BY <1>3, <2>5, <2>6, DivIsUnique
  <2>8. (PageBytes * q + (y + payload - 1)) \div PageBytes = q BY <1>3, <2>5, <2>6, DivIsUnique
  <2>9. PageBytes * q + (y + payload - 1) = at + payload - 1 BY <1>1, <2>2, <2>3, <2>4
  <2>10. at \div PageBytes = (at + payload - 1) \div PageBytes BY <2>4, <2>7, <2>8, <2>9
  <2> QED BY <1>8, <2>10 DEF at, payload
<1> QED BY <1>9, <1>10

-----------------------------------------------------------------------------
(* Sets in order.                                                          *)

\* A set sorted by a key: all of its elements, each once.
LEMMA SortedByKey ==
  ASSUME NEW S, IsFiniteSet(S), NEW key \in [S -> Int], \A x, y \in S : key[x] = key[y] => x = y,
         NEW d, d = [i \in 1 .. Cardinality(S) |->
                       CHOOSE x \in S : Cardinality({y \in S : key[y] < key[x]}) = i - 1]
  PROVE  d \in Distinct(S) /\ Len(d) = Cardinality(S) /\ ToSet(d) = S
<1> DEFINE R == {p \in S \X S : key[p[1]] < key[p[2]]}
<1>1. \A x, y \in S : <<x, y>> \in R <=> key[x] < key[y] OBVIOUS
<1>2. \A x \in S : key[x] \in Int OBVIOUS
<1> HIDE DEF R
<1>3. IsOrdered(R, S) BY <1>1, <1>2 DEF IsOrdered
<1>4. ASSUME NEW x \in S PROVE {y \in S : key[y] < key[x]} = Predecessors(R, S, x)
  BY <1>1 DEF Predecessors
<1>5. ASSUME NEW i \in 1 .. Cardinality(S)
      PROVE  (CHOOSE x \in S : Cardinality({y \in S : key[y] < key[x]}) = i - 1)
             = (CHOOSE x \in S : Cardinality(Predecessors(R, S, x)) = i - 1)
  <2>1. \A x : (x \in S /\ Cardinality({y \in S : key[y] < key[x]}) = i - 1)
                <=> (x \in S /\ Cardinality(Predecessors(R, S, x)) = i - 1)
    BY <1>4
  <2> QED BY <2>1
<1> DEFINE c(i) == CHOOSE x \in S : Cardinality({y \in S : key[y] < key[x]}) = i - 1
           e(i) == CHOOSE x \in S : Cardinality(Predecessors(R, S, x)) = i - 1
<1>6. d = Ranked(R, S)
  <2>1. \A i \in 1 .. Cardinality(S) : c(i) = e(i) BY <1>5
  <2>2. d = [i \in 1 .. Cardinality(S) |-> c(i)] OBVIOUS
  <2>3. Ranked(R, S) = [i \in 1 .. Cardinality(S) |-> e(i)] BY DEF Ranked
  <2> HIDE DEF c, e
  <2> QED BY <2>1, <2>2, <2>3
<1> QED BY <1>3, <1>6, OrderedElements

\* Weights in the order of their projections.
LEMMA ByProjFacts ==
  ASSUME NEW S, IsFiniteSet(S), \A t \in S : t.proj \in Int, \A s, t \in S : s.proj = t.proj => s = t
  PROVE  LET d == Sorted(S, LAMBDA s, t : s.proj < t.proj)
         IN  d \in Distinct(S) /\ Len(d) = Cardinality(S) /\ ToSet(d) = S
<1> DEFINE key == [t \in S |-> t.proj]
           d == Sorted(S, LAMBDA s, t : s.proj < t.proj)
           c(i) == CHOOSE x \in S : Cardinality({y \in S : y.proj < x.proj}) = i - 1
           e(i) == CHOOSE x \in S : Cardinality({y \in S : key[y] < key[x]}) = i - 1
<1>1. key \in [S -> Int] /\ \A x, y \in S : key[x] = key[y] => x = y OBVIOUS
<1>2. d = [i \in 1 .. Cardinality(S) |-> c(i)] BY Zenon DEF Sorted
<1>3. ASSUME NEW x \in S PROVE {y \in S : y.proj < x.proj} = {y \in S : key[y] < key[x]} OBVIOUS
<1> HIDE DEF key, d
<1>4. ASSUME NEW i \in 1 .. Cardinality(S) PROVE c(i) = e(i)
  <2>1. \A x : (x \in S /\ Cardinality({y \in S : y.proj < x.proj}) = i - 1)
                <=> (x \in S /\ Cardinality({y \in S : key[y] < key[x]}) = i - 1)
    BY <1>3
  <2> QED BY <2>1
<1>5. d = [i \in 1 .. Cardinality(S) |-> e(i)]
  <2> HIDE DEF c, e
  <2> QED BY <1>2, <1>4
<1>6. d \in Distinct(S) /\ Len(d) = Cardinality(S) /\ ToSet(d) = S BY <1>1, <1>5, SortedByKey, ZenonT(60)
<1> QED BY <1>6, Zenon DEF d

\* Shards in the order of their numbers.
LEMMA ByPartFacts ==
  ASSUME NEW S, IsFiniteSet(S), \A t \in S : t.part \in Int, \A s, t \in S : s.part = t.part => s = t
  PROVE  LET d == Sorted(S, LAMBDA s, t : s.part < t.part)
         IN  d \in Distinct(S) /\ Len(d) = Cardinality(S) /\ ToSet(d) = S
<1> DEFINE key == [t \in S |-> t.part]
           d == Sorted(S, LAMBDA s, t : s.part < t.part)
           c(i) == CHOOSE x \in S : Cardinality({y \in S : y.part < x.part}) = i - 1
           e(i) == CHOOSE x \in S : Cardinality({y \in S : key[y] < key[x]}) = i - 1
<1>1. key \in [S -> Int] /\ \A x, y \in S : key[x] = key[y] => x = y OBVIOUS
<1>2. d = [i \in 1 .. Cardinality(S) |-> c(i)] BY Zenon DEF Sorted
<1>3. ASSUME NEW x \in S PROVE {y \in S : y.part < x.part} = {y \in S : key[y] < key[x]} OBVIOUS
<1> HIDE DEF key, d
<1>4. ASSUME NEW i \in 1 .. Cardinality(S) PROVE c(i) = e(i)
  <2>1. \A x : (x \in S /\ Cardinality({y \in S : y.part < x.part}) = i - 1)
                <=> (x \in S /\ Cardinality({y \in S : key[y] < key[x]}) = i - 1)
    BY <1>3
  <2> QED BY <2>1
<1>5. d = [i \in 1 .. Cardinality(S) |-> e(i)]
  <2> HIDE DEF c, e
  <2> QED BY <1>2, <1>4
<1>6. d \in Distinct(S) /\ Len(d) = Cardinality(S) /\ ToSet(d) = S BY <1>1, <1>5, SortedByKey, ZenonT(60)
<1> QED BY <1>6, Zenon DEF d

\* Numbers in ascending order.
LEMMA AscendingFacts ==
  ASSUME NEW S, IsFiniteSet(S), \A t \in S : t \in Int
  PROVE  LET d == Sorted(S, LAMBDA s, t : s < t)
         IN  d \in Distinct(S) /\ Len(d) = Cardinality(S) /\ ToSet(d) = S
<1> DEFINE key == [t \in S |-> t]
           d == Sorted(S, LAMBDA s, t : s < t)
           c(i) == CHOOSE x \in S : Cardinality({y \in S : y < x}) = i - 1
           e(i) == CHOOSE x \in S : Cardinality({y \in S : key[y] < key[x]}) = i - 1
<1>1. key \in [S -> Int] /\ \A x, y \in S : key[x] = key[y] => x = y OBVIOUS
<1>2. d = [i \in 1 .. Cardinality(S) |-> c(i)] BY Zenon DEF Sorted
<1>3. ASSUME NEW x \in S PROVE {y \in S : y < x} = {y \in S : key[y] < key[x]} OBVIOUS
<1> HIDE DEF key, d
<1>4. ASSUME NEW i \in 1 .. Cardinality(S) PROVE c(i) = e(i)
  <2>1. \A x : (x \in S /\ Cardinality({y \in S : y < x}) = i - 1)
                <=> (x \in S /\ Cardinality({y \in S : key[y] < key[x]}) = i - 1)
    BY <1>3
  <2> QED BY <2>1
<1>5. d = [i \in 1 .. Cardinality(S) |-> e(i)]
  <2> HIDE DEF c, e
  <2> QED BY <1>2, <1>4
<1>6. d \in Distinct(S) /\ Len(d) = Cardinality(S) /\ ToSet(d) = S BY <1>1, <1>5, SortedByKey
<1> QED BY <1>6, Zenon DEF d

\* Tensors in the order of their names.
LEMMA NamesFacts ==
  ASSUME NEW S, IsFiniteSet(S), \A t \in S : t.name \in Int, \A s, t \in S : s.name = t.name => s = t
  PROVE  LET d == Sorted(S, LAMBDA s, t : s.name < t.name)
         IN  d \in Distinct(S) /\ Len(d) = Cardinality(S) /\ ToSet(d) = S
<1> DEFINE key == [t \in S |-> t.name]
           d == Sorted(S, LAMBDA s, t : s.name < t.name)
           c(i) == CHOOSE x \in S : Cardinality({y \in S : y.name < x.name}) = i - 1
           e(i) == CHOOSE x \in S : Cardinality({y \in S : key[y] < key[x]}) = i - 1
<1>1. key \in [S -> Int] /\ \A x, y \in S : key[x] = key[y] => x = y OBVIOUS
<1>2. d = [i \in 1 .. Cardinality(S) |-> c(i)] BY Zenon DEF Sorted
<1>3. ASSUME NEW x \in S PROVE {y \in S : y.name < x.name} = {y \in S : key[y] < key[x]} OBVIOUS
<1> HIDE DEF key, d
<1>4. ASSUME NEW i \in 1 .. Cardinality(S) PROVE c(i) = e(i)
  <2>1. \A x : (x \in S /\ Cardinality({y \in S : y.name < x.name}) = i - 1)
                <=> (x \in S /\ Cardinality({y \in S : key[y] < key[x]}) = i - 1)
    BY <1>3
  <2> QED BY <2>1
<1>5. d = [i \in 1 .. Cardinality(S) |-> e(i)]
  <2> HIDE DEF c, e
  <2> QED BY <1>2, <1>4
<1>6. d \in Distinct(S) /\ Len(d) = Cardinality(S) /\ ToSet(d) = S BY <1>1, <1>5, SortedByKey, ZenonT(60)
<1> QED BY <1>6, Zenon DEF d

LEMMA ByNameFacts ==
  ASSUME NEW S, IsFiniteSet(S), \A t \in S : t.name \in Int, \A s, t \in S : s.name = t.name => s = t
  PROVE  ByName(S) \in Distinct(S) /\ ToSet(ByName(S)) = S
BY NamesFacts, Zenon DEF ByName

-----------------------------------------------------------------------------
(* An order, and what a plan takes from it.                                *)

LEMMA OrderFacts ==
  ASSUME NEW o, IsOrder(o)
  PROVE  /\ IsFiniteSet(Tensors(o))
         /\ \A t \in Tensors(o) : /\ t.name \in Nat /\ t.comp \in Components /\ t.layer \in Nat
                                   /\ t.part \in Nat \union {-1} /\ t.proj \in Nat /\ t.shape \in Shapes
         /\ \A s, t \in Tensors(o) : s.name = t.name => s = t
         /\ o.experts \in Nat /\ o.precision \in [Components -> Precisions]
<1> DEFINE T == [name : Nat, comp : Components, cap : {"text", "vision"}, layer : Nat,
                 part : Nat \union {-1}, proj : Nat, shape : Seq(Nat \ {0})]
<1>1. o.tensors \in Seq(T) BY DEF IsOrder
<1>2. \A t \in T : /\ t.name \in Nat /\ t.comp \in Components /\ t.layer \in Nat
                   /\ t.part \in Nat \union {-1} /\ t.proj \in Nat /\ t.shape \in Shapes
  BY DEF Shapes
<1> HIDE DEF T
<1>3. IsFiniteSet(ToSet(o.tensors)) /\ ToSet(o.tensors) \in SUBSET T BY <1>1, ElementsAreFinite
<1>4. \A s, t \in Tensors(o) : s.name = t.name => s = t BY DEF IsOrder
<1>5. o.experts \in Nat /\ o.precision \in [Components -> Precisions] BY DEF IsOrder, Precisions
<1> QED BY <1>2, <1>3, <1>4, <1>5 DEF Tensors

\* The tensors that become dense entries.
DenseSet(o) ==
  LET all == {t \in Kept(o) : /\ t.comp \notin {"experts_routed", "ple_table"}
                              /\ t.comp = "ple_index" => ~HasPle(o)}
  IN  IF o.profile = "full" THEN all
      ELSE {t \in all : \A u \in all : u.comp = t.comp => t.name <= u.name}

LEMMA DenseTensorsFacts ==
  ASSUME NEW o, IsOrder(o)
  PROVE  /\ DenseTensors(o) \in Seq(Tensors(o)) /\ ToSet(DenseTensors(o)) = DenseSet(o)
<1> DEFINE S == DenseSet(o)
<1>1. S \subseteq Tensors(o) BY DEF DenseSet, Kept
<1>2. DenseTensors(o) = ByName(S) BY Zenon DEF DenseTensors, DenseSet
<1> HIDE DEF S
<1>3. IsFiniteSet(S) /\ (\A t \in S : t.name \in Int) /\ \A s, t \in S : s.name = t.name => s = t
  <2>1. IsFiniteSet(S) BY <1>1, OrderFacts, FS_Subset
  <2>2. \A t \in S : t.name \in Nat BY <1>1, OrderFacts
  <2>3. \A s, t \in S : s.name = t.name => s = t BY <1>1, OrderFacts
  <2> QED BY <2>1, <2>2, <2>3
<1>4. ByName(S) \in Distinct(S) /\ ToSet(ByName(S)) = S BY <1>3, ByNameFacts
<1>5. ByName(S) \in Seq(S) BY <1>4 DEF Distinct
<1>6. ByName(S) \in Seq(Tensors(o)) BY <1>1, <1>5
<1> QED BY <1>2, <1>4, <1>6 DEF S

\* The dense entries of a plan lie apart.
LEMMA DenseEntriesApart ==
  ASSUME NEW o, IsOrder(o), NEW ms, ms = DenseMatrices(o)
  PROVE  ~Overlap({<<DenseAt(ms, k), DenseAt(ms, k) + MatrixBytes(ms[k])>> : k \in 1 .. Len(ms)},
                  DenseAt(ms, Len(ms) + 1))
<1> DEFINE d == DenseTensors(o)
           n == Len(d)
<1>1. d \in Seq(Tensors(o)) BY DenseTensorsFacts
<1>2. ms = [k \in 1 .. n |-> Matrix(d[k].shape, o.precision[d[k].comp])] BY DEF DenseMatrices
<1> HIDE DEF d
<1>3. n \in Nat /\ \A k \in 1 .. n : d[k] \in Tensors(o) BY <1>1
<1>4. ms \in Seq({ms[k] : k \in 1 .. n}) /\ Len(ms) = n BY <1>2, <1>3
<1> HIDE DEF n
<1>5. ASSUME NEW k \in 1 .. n PROVE MatrixBytes(ms[k]) \in Nat
  <2>1. d[k].shape \in Shapes /\ d[k].comp \in Components /\ o.precision \in [Components -> Precisions]
    BY <1>3, OrderFacts
  <2> DEFINE sh == d[k].shape  p == o.precision[d[k].comp]
  <2>2. sh \in Shapes /\ p \in Precisions BY <2>1
  <2>3. ms[k] = Matrix(sh, p) BY <1>2
  <2> HIDE DEF sh, p
  <2>4. MatrixBytes(Matrix(sh, p)) \in Nat \ {0} BY <2>2, MatrixFacts
  <2> QED BY <2>3, <2>4
<1>6. /\ \A k \in 1 .. n + 1 : DenseAt(ms, k) \in Nat
      /\ \A k \in 1 .. n : DenseAt(ms, k) + MatrixBytes(ms[k]) <= DenseAt(ms, k + 1)
  BY <1>4, <1>5, DensePlaces
<1> DEFINE at == [k \in 1 .. n + 1 |-> DenseAt(ms, k)]
           len == [k \in 1 .. n |-> MatrixBytes(ms[k])]
<1>7. at \in [1 .. n + 1 -> Nat] /\ len \in [1 .. n -> Nat] BY <1>5, <1>6
<1>8. ASSUME NEW k \in 1 .. n
      PROVE  at[k] = DenseAt(ms, k) /\ len[k] = MatrixBytes(ms[k]) /\ at[k + 1] = DenseAt(ms, k + 1)
  <2>1. k \in 1 .. n + 1 /\ k + 1 \in 1 .. n + 1 BY <1>3
  <2> QED BY <2>1
<1>9. at[n + 1] = DenseAt(ms, n + 1)
  <2>1. n + 1 \in 1 .. n + 1 BY <1>3
  <2> QED BY <2>1
<1> HIDE DEF at, len
<1>10. \A k \in 1 .. n : at[k] + len[k] <= at[k + 1] BY <1>6, <1>8
<1>11. ~Overlap({<<at[k], at[k] + len[k]>> : k \in 1 .. n}, at[n + 1])
  BY <1>3, <1>7, <1>10, NoOverlap
<1>12. {<<at[k], at[k] + len[k]>> : k \in 1 .. n} = {<<DenseAt(ms, k), DenseAt(ms, k) + MatrixBytes(ms[k])>> : k \in 1 .. n}
  BY <1>8
<1> QED BY <1>4, <1>9, <1>11, <1>12

-----------------------------------------------------------------------------
(* The bank of experts.                                                    *)

\* The share of an expert in a tensor, and the tensors it has a share in.
SliceOf(e, t) ==
  IF t.part < 0
  THEN [tensor |-> t.name, proj |-> t.proj, shape |-> Tail(t.shape), first |-> e * Size(Tail(t.shape))]
  ELSE [tensor |-> t.name, proj |-> t.proj, shape |-> t.shape, first |-> 0]
SlicedFrom(o, layer, e) == IF Fused(o, layer) # {} THEN Fused(o, layer) ELSE Owned(o, layer, e)

\* The tensors an expert is taken from, each a projection of its own.
LEMMA SlicedFromFacts ==
  ASSUME NEW o, IsOrder(o), ~SliceError(o), NEW layer \in BankLayers(o), NEW e \in Nat,
         NEW A, A = SlicedFrom(o, layer, e)
  PROVE  /\ IsFiniteSet(A) /\ A \subseteq Of(o, "experts_routed") /\ A \subseteq Tensors(o)
         /\ \A s, t \in A : s.proj = t.proj => s = t
         /\ \A t \in A : t.part < 0 => Len(t.shape) >= 2 /\ t.shape[1] = o.experts
         /\ Fused(o, layer) # {} => Fused(o, layer) = Bank(o, layer)
<1>1. A \subseteq Bank(o, layer) BY DEF SlicedFrom, Fused, Owned
<1>2. A \subseteq Of(o, "experts_routed") /\ A \subseteq Tensors(o) BY <1>1 DEF Bank, Of
<1>3. IsFiniteSet(A) BY <1>2, OrderFacts, FS_Subset
<1>4. \A t \in Tensors(o) : t.part \in Nat \union {-1} BY OrderFacts
<1>5. \A s, t \in A : s.part = t.part /\ s.layer = t.layer
  <2>1. CASE Fused(o, layer) # {}
    <3>1. \A t \in A : t.part < 0 /\ t.layer = layer BY <2>1 DEF SlicedFrom, Fused, Bank
    <3>2. \A t \in A : t.part = -1 BY <1>2, <1>4, <3>1
    <3> QED BY <3>1, <3>2
  <2>2. CASE Fused(o, layer) = {} BY <2>2 DEF SlicedFrom, Owned, Bank
  <2> QED BY <2>1, <2>2
<1>6. \A s, t \in A : s.proj = t.proj => s = t BY <1>2, <1>5 DEF IsOrder
<1>7. ~(Fused(o, layer) # {} /\ Fused(o, layer) # Bank(o, layer)) BY DEF SliceError
<1>8. ASSUME NEW t \in A, t.part < 0 PROVE Len(t.shape) >= 2 /\ t.shape[1] = o.experts
  <2>1. t \in Fused(o, layer) BY <1>1, <1>8 DEF Fused
  <2>2. ~(Len(t.shape) < 2 \/ t.shape[1] # o.experts) BY <2>1 DEF SliceError
  <2>3. Len(t.shape) \in Nat
    <3>1. t.shape \in Shapes BY <1>2, OrderFacts
    <3> QED BY <3>1 DEF Shapes
  <2> QED BY <2>2, <2>3
<1> QED BY <1>2, <1>3, <1>6, <1>7, <1>8

\* The slices of an expert are one of every tensor it is taken from.
LEMMA SlicesFacts ==
  ASSUME NEW o, IsOrder(o), ~SliceError(o), NEW layer \in BankLayers(o), NEW e \in Nat,
         NEW A, A = SlicedFrom(o, layer, e), NEW S, S = {SliceOf(e, t) : t \in A}
  PROVE  /\ IsFiniteSet(S) /\ Slices(o, layer, e) \in Seq(S) /\ ToSet(Slices(o, layer, e)) = S
         /\ \A t \in A : SliceOf(e, t).shape \in Shapes
         /\ \A s, t \in A : SliceOf(e, s) = SliceOf(e, t) => s = t
<1>1. /\ IsFiniteSet(A) /\ A \subseteq Tensors(o) /\ \A s, t \in A : s.proj = t.proj => s = t
      /\ \A t \in A : t.part < 0 => Len(t.shape) >= 2
  BY SlicedFromFacts
<1>2. \A t \in A : t.shape \in Shapes /\ t.proj \in Nat BY <1>1, OrderFacts
<1>3. \A t : SliceOf(e, t).proj = t.proj /\ SliceOf(e, t).shape = IF t.part < 0 THEN Tail(t.shape) ELSE t.shape
  BY DEF SliceOf
<1>4. ASSUME NEW t \in A PROVE SliceOf(e, t).shape \in Shapes
  <2>1. CASE t.part < 0
    <3> DEFINE sh == t.shape
    <3>1. sh \in Shapes /\ Len(sh) >= 2 BY <1>1, <1>2, <2>1
    <3> HIDE DEF sh
    <3>2. Tail(sh) \in Shapes BY <3>1 DEF Shapes
    <3> QED BY <1>3, <2>1, <3>2 DEF sh
  <2>2. CASE ~(t.part < 0) BY <1>2, <1>3, <2>2
  <2> QED BY <2>1, <2>2
<1>5. IsFiniteSet(S)
  <2> DEFINE f == [t \in A |-> SliceOf(e, t)]
  <2>1. f \in Surjection(A, S) BY DEF Surjection
  <2> QED BY <1>1, <2>1, FS_Surjection
<1>6. /\ \A t \in S : t.proj \in Int
      /\ \A s, t \in S : s.proj = t.proj => s = t
  <2>1. ASSUME NEW t \in S PROVE t.proj \in Int
    <3>1. PICK u \in A : t = SliceOf(e, u) OBVIOUS
    <3> QED BY <1>2, <1>3, <3>1
  <2>2. ASSUME NEW s \in S, NEW t \in S, s.proj = t.proj PROVE s = t
    <3>1. PICK u \in A : s = SliceOf(e, u) OBVIOUS
    <3>2. PICK v \in A : t = SliceOf(e, v) OBVIOUS
    <3>3. u.proj = v.proj BY <1>3, <2>2, <3>1, <3>2
    <3> QED BY <1>1, <3>1, <3>2, <3>3
  <2> QED BY <2>1, <2>2
<1>7. Slices(o, layer, e) = Sorted(S, LAMBDA s, t : s.proj < t.proj)
  BY Zenon DEF Slices, SliceOf, SlicedFrom
<1> DEFINE d == Sorted(S, LAMBDA s, t : s.proj < t.proj)
<1>8. d \in Distinct(S) /\ ToSet(d) = S BY <1>5, <1>6, ByProjFacts
<1> HIDE DEF d
<1>9. d \in Seq(S) BY <1>8 DEF Distinct
<1>10. \A s, t \in A : SliceOf(e, s) = SliceOf(e, t) => s = t
  <2>1. \A s, t \in A : SliceOf(e, s) = SliceOf(e, t) => s.proj = t.proj BY <1>3
  <2> QED BY <1>1, <2>1
<1> QED BY <1>4, <1>5, <1>7, <1>8, <1>9, <1>10 DEF d

\* Layer before layer, expert before expert.
BankBefore(S) == {p \in S \X S : p[1][1] < p[2][1] \/ (p[1][1] = p[2][1] /\ p[1][2] < p[2][2])}

\* The layers with experts are finitely many, and numbered.
LEMMA LayersFacts ==
  ASSUME NEW o, IsOrder(o)
  PROVE  IsFiniteSet(BankLayers(o)) /\ BankLayers(o) \subseteq Nat
<1> DEFINE E == Of(o, "experts_routed")
           f == [t \in E |-> t.layer]
<1>1. E \subseteq Tensors(o) BY DEF Of
<1>2. IsFiniteSet(E) BY <1>1, OrderFacts, FS_Subset
<1>3. f \in Surjection(E, BankLayers(o)) BY DEF Surjection, BankLayers
<1>4. IsFiniteSet(BankLayers(o))
  <2> HIDE DEF E, f
  <2> QED BY <1>2, <1>3, FS_Surjection
<1>5. ASSUME NEW l \in BankLayers(o) PROVE l \in Nat
  <2>1. PICK t \in E : l = t.layer BY DEF BankLayers
  <2> QED BY <1>1, <2>1, OrderFacts
<1> QED BY <1>4, <1>5

\* The experts of a package are experts of layers that have some.
LEMMA ChosenFacts ==
  ASSUME NEW o, IsOrder(o), HasExperts(o)
  PROVE  /\ Chosen(o) \subseteq BankLayers(o) \X (0 .. o.experts - 1) /\ IsFiniteSet(Chosen(o))
         /\ o.profile = "full" =>
              /\ Chosen(o) = BankLayers(o) \X (0 .. o.experts - 1)
              /\ Cardinality(Chosen(o)) = Cardinality(BankLayers(o)) * o.experts
<1> DEFINE L == BankLayers(o)  N == 0 .. o.experts - 1
<1>1. IsFiniteSet(L) /\ L \subseteq Nat /\ L # {} BY LayersFacts DEF HasExperts
<1>2. o.experts \in Nat BY OrderFacts
<1>3. IsFiniteSet(N) /\ Cardinality(N) = o.experts
  <2> DEFINE c == o.experts
  <2>1. 0 \in Int /\ c - 1 \in Int /\ c \in Nat BY <1>2
  <2> HIDE DEF c
  <2>2. IsFiniteSet(0 .. (c - 1)) /\ Cardinality(0 .. (c - 1)) = IF 0 > c - 1 THEN 0 ELSE (c - 1) - 0 + 1
    BY <2>1, FS_Interval
  <2>3. Cardinality(0 .. (c - 1)) = c BY <2>1, <2>2
  <2> QED BY <2>2, <2>3 DEF c
<1> HIDE DEF L
<1>4. Min(L) \in L BY <1>1, MinFacts
<1>5. Max(L) \in L
  <2>1. PICK m \in L : \A k \in L : k <= m BY <1>1, GreatestNumber
  <2>2. \E x \in L : \A y \in L : x >= y BY <1>1, <2>1
  <2> QED BY <2>2 DEF Max
<1>6. Chosen(o) \subseteq L \X N BY <1>4, <1>5 DEF Chosen, L
<1> HIDE DEF N
<1>7. IsFiniteSet(L \X N) /\ Cardinality(L \X N) = Cardinality(L) * Cardinality(N) BY <1>1, <1>3, FS_Product
<1>8. IsFiniteSet(Chosen(o)) BY <1>6, <1>7, FS_Subset
<1>9. o.profile = "full" => Chosen(o) = L \X N BY DEF Chosen, L, N
<1> QED BY <1>3, <1>6, <1>7, <1>8, <1>9 DEF L, N

\* The bank has the chosen experts, each once.
LEMMA BankOrderFacts ==
  ASSUME NEW o, IsOrder(o), NEW S, S = IF HasExperts(o) THEN Chosen(o) ELSE {}
  PROVE  BankOrder(o) \in Distinct(S) /\ Len(BankOrder(o)) = Cardinality(S) /\ ToSet(BankOrder(o)) = S
<1>1. CASE ~HasExperts(o)
  <2>1. BankOrder(o) = <<>> /\ S = {} BY <1>1 DEF BankOrder
  <2>2. <<>> \in Distinct(S) /\ ToSet(<<>>) = {} BY EmptyFacts
  <2>3. Cardinality({}) = 0 /\ Len(<<>>) = 0 BY FS_EmptySet
  <2> QED BY <2>1, <2>2, <2>3
<1>2. CASE HasExperts(o)
  <2>1. S = Chosen(o) /\ S \subseteq BankLayers(o) \X (0 .. o.experts - 1) /\ IsFiniteSet(S) /\ BankLayers(o) \subseteq Nat
    BY <1>2, ChosenFacts, LayersFacts
  <2>2. \A x \in S : x[1] \in Nat /\ x[2] \in Nat /\ x = <<x[1], x[2]>>
    <3>1. o.experts \in Nat BY OrderFacts
    <3> QED BY <2>1, <3>1
  <2> DEFINE R == BankBefore(S)
             c(i) == CHOOSE x \in S :
                       Cardinality({y \in S : y[1] < x[1] \/ (y[1] = x[1] /\ y[2] < x[2])}) = i - 1
             e(i) == CHOOSE x \in S : Cardinality(Predecessors(R, S, x)) = i - 1
             d == BankOrder(o)
  <2>3. \A x, y \in S : <<x, y>> \in R <=> x[1] < y[1] \/ (x[1] = y[1] /\ x[2] < y[2]) BY DEF BankBefore
  <2>4. d = [i \in 1 .. Cardinality(S) |-> c(i)]
    <3> DEFINE X == Chosen(o)
    <3>1. d = [i \in 1 .. Cardinality(X) |-> CHOOSE x \in X :
                 Cardinality({y \in X : y[1] < x[1] \/ (y[1] = x[1] /\ y[2] < x[2])}) = i - 1]
      BY <1>2, Zenon DEF BankOrder, Sorted
    <3>2. X = S BY <2>1
    <3> HIDE DEF X
    <3> QED BY <3>1, <3>2, Zenon
  <2> HIDE DEF R, d
  <2>5. ASSUME NEW x \in S
        PROVE  {y \in S : y[1] < x[1] \/ (y[1] = x[1] /\ y[2] < x[2])} = Predecessors(R, S, x)
    BY <2>3 DEF Predecessors
  <2>6. ASSUME NEW i \in 1 .. Cardinality(S) PROVE c(i) = e(i)
    <3>1. \A x : (x \in S /\ Cardinality({y \in S : y[1] < x[1] \/ (y[1] = x[1] /\ y[2] < x[2])}) = i - 1)
                  <=> (x \in S /\ Cardinality(Predecessors(R, S, x)) = i - 1)
      BY <2>5
    <3> QED BY <3>1
  <2>7. Ranked(R, S) = [i \in 1 .. Cardinality(S) |-> e(i)] BY DEF Ranked
  <2>8. d = Ranked(R, S)
    <3> HIDE DEF c, e
    <3> QED BY <2>4, <2>6, <2>7
  <2>9. IsOrdered(R, S)
    <3>1. \A x \in S : <<x, x>> \notin R BY <2>2, <2>3
    <3>2. ASSUME NEW x \in S, NEW y \in S, NEW z \in S, <<x, y>> \in R, <<y, z>> \in R
          PROVE  <<x, z>> \in R
      <4>1. x[1] \in Nat /\ x[2] \in Nat /\ y[1] \in Nat /\ y[2] \in Nat /\ z[1] \in Nat /\ z[2] \in Nat BY <2>2
      <4>2. /\ x[1] < y[1] \/ (x[1] = y[1] /\ x[2] < y[2])
            /\ y[1] < z[1] \/ (y[1] = z[1] /\ y[2] < z[2])
        BY <2>3, <3>2
      <4>3. x[1] < z[1] \/ (x[1] = z[1] /\ x[2] < z[2]) BY <4>1, <4>2
      <4> QED BY <2>3, <4>3
    <3>3. ASSUME NEW x \in S, NEW y \in S, x # y PROVE <<x, y>> \in R \/ <<y, x>> \in R
      <4>1. /\ x[1] \in Nat /\ x[2] \in Nat /\ y[1] \in Nat /\ y[2] \in Nat
            /\ x = <<x[1], x[2]>> /\ y = <<y[1], y[2]>>
        BY <2>2
      <4>2. x[1] # y[1] \/ x[2] # y[2] BY <3>3, <4>1
      <4>3. \/ x[1] < y[1] \/ (x[1] = y[1] /\ x[2] < y[2])
            \/ y[1] < x[1] \/ (y[1] = x[1] /\ y[2] < x[2])
        BY <4>1, <4>2
      <4> QED BY <2>3, <4>3
    <3> QED BY <3>1, <3>2, <3>3 DEF IsOrdered
  <2>10. d \in Distinct(S) /\ Len(d) = Cardinality(S) /\ ToSet(d) = S BY <2>1, <2>8, <2>9, OrderedElements
  <2> QED BY <2>10 DEF d
<1> QED BY <1>1, <1>2

\* Every expert of the bank has a record of its own.
LEMMA RecordIndexFacts ==
  ASSUME NEW o, IsOrder(o), o.profile \in Profiles, NEW B, B = ToSet(BankOrder(o))
  PROVE  /\ \A x \in B : RecordIndex(o, x[1], x[2]) \in 0 .. Len(BankOrder(o)) - 1
         /\ \A x, y \in B : RecordIndex(o, x[1], x[2]) = RecordIndex(o, y[1], y[2]) => x = y
<1> DEFINE S == IF HasExperts(o) THEN Chosen(o) ELSE {}
           d == BankOrder(o)
           L == BankLayers(o)
           n == o.experts
<1>1. d \in Distinct(S) /\ Len(d) = Cardinality(S) /\ B = S BY BankOrderFacts
<1>2. B # {} => HasExperts(o) /\ S = Chosen(o) BY <1>1
<1>3. ASSUME NEW x \in B PROVE x[1] \in L /\ x[2] \in 0 .. n - 1 /\ x = <<x[1], x[2]>>
  <2>1. HasExperts(o) /\ x \in Chosen(o) BY <1>1, <1>2
  <2>2. Chosen(o) \subseteq L \X (0 .. n - 1) BY <2>1, ChosenFacts
  <2>3. x \in L \X (0 .. n - 1) BY <2>1, <2>2
  <2> HIDE DEF L, n
  <2> QED BY <2>3
<1>4. n \in Nat BY OrderFacts
<1>5. CASE o.profile = "canary"
  <2> DEFINE place(x) == CHOOSE i \in 1 .. Len(d) : d[i] = <<x[1], x[2]>>
  <2>1. \A x \in B : RecordIndex(o, x[1], x[2]) = place(x) - 1 BY <1>5 DEF RecordIndex
  <2>2. ASSUME NEW x \in B PROVE place(x) \in 1 .. Len(d) /\ d[place(x)] = x
    <3>1. DOMAIN d = 1 .. Len(d) BY <1>1 DEF Distinct
    <3>2. \E i \in 1 .. Len(d) : d[i] = x BY <3>1 DEF ToSet
    <3>3. x = <<x[1], x[2]>> BY <1>3
    <3>4. \E i \in 1 .. Len(d) : d[i] = <<x[1], x[2]>> BY <3>2, <3>3
    <3>5. place(x) \in 1 .. Len(d) /\ d[place(x)] = <<x[1], x[2]>> BY <3>4
    <3> QED BY <3>3, <3>5
  <2>3. Len(d) \in Nat BY <1>1 DEF Distinct
  <2> HIDE DEF place, d, S
  <2>4. \A x \in B : RecordIndex(o, x[1], x[2]) \in 0 .. Len(d) - 1 BY <2>1, <2>2, <2>3
  <2>5. ASSUME NEW x \in B, NEW y \in B, RecordIndex(o, x[1], x[2]) = RecordIndex(o, y[1], y[2]) PROVE x = y
    <3>1. place(x) - 1 = place(y) - 1 BY <2>1, <2>5
    <3>2. place(x) = place(y) BY <2>2, <2>3, <3>1
    <3> QED BY <2>2, <3>2
  <2> QED BY <2>4, <2>5 DEF d
<1>6. CASE o.profile = "full"
  <2> DEFINE rank(l) == Cardinality({k \in L : k < l})
             N == Cardinality(L)
  <2>1. \A x \in B : RecordIndex(o, x[1], x[2]) = (rank(x[1]) * n) + x[2] BY <1>6 DEF RecordIndex
  <2>2. IsFiniteSet(L) /\ L \subseteq Nat /\ N \in Nat BY LayersFacts, FS_CardinalityType
  <2>3. /\ \A l \in L : rank(l) \in 0 .. N - 1
        /\ \A k, l \in L : k < l => rank(k) < rank(l)
    <3> DEFINE R == {p \in L \X L : p[1] < p[2]}
    <3>1. \A k, l \in L : <<k, l>> \in R <=> k < l OBVIOUS
    <3>2. ASSUME NEW l \in L PROVE {k \in L : k < l} = Predecessors(R, L, l) BY <3>1 DEF Predecessors
    <3> HIDE DEF R, L
    <3>3. \A l \in L : l \in Int BY <2>2
    <3>4. IsOrdered(R, L) BY <3>1, <3>3 DEF IsOrdered
    <3>5. /\ \A x \in L : Cardinality(Predecessors(R, L, x)) \in 0 .. (Cardinality(L) - 1)
          /\ \A x, y \in L : <<x, y>> \in R => Cardinality(Predecessors(R, L, x)) < Cardinality(Predecessors(R, L, y))
      BY <2>2, <3>4, PlacesOfElements
    <3>6. \A l \in L : rank(l) = Cardinality(Predecessors(R, L, l)) BY <3>2
    <3> HIDE DEF rank
    <3> QED BY <3>1, <3>5, <3>6
  <2>4. B # {} => Len(d) = N * n BY <1>1, <1>2, <1>6, ChosenFacts
  <2> HIDE DEF rank, N, L, n, d
  <2>5. ASSUME NEW x \in B
        PROVE  /\ rank(x[1]) \in Nat /\ rank(x[1]) < N /\ x[2] \in 0 .. n - 1 /\ n \in Nat \ {0}
               /\ RecordIndex(o, x[1], x[2]) = n * rank(x[1]) + x[2]
    <3>1. x[1] \in L /\ x[2] \in 0 .. n - 1 /\ rank(x[1]) \in 0 .. N - 1 BY <1>3, <2>3
    <3>2. n \in Nat \ {0} BY <1>4, <3>1
    <3>3. rank(x[1]) \in Nat /\ rank(x[1]) < N BY <2>2, <3>1
    <3>4. rank(x[1]) * n = n * rank(x[1]) BY <1>4, <3>3
    <3> QED BY <2>1, <3>1, <3>2, <3>3, <3>4
  <2>6. ASSUME NEW x \in B PROVE RecordIndex(o, x[1], x[2]) \in 0 .. Len(d) - 1
    <3> DEFINE r == rank(x[1])  e == x[2]
    <3>1. r \in Nat /\ r + 1 <= N /\ e \in 0 .. n - 1 /\ n \in Nat \ {0} /\ RecordIndex(o, x[1], x[2]) = n * r + e
      BY <2>2, <2>5
    <3> HIDE DEF r, e
    <3>2. n * (r + 1) <= n * N BY <2>2, <3>1, TimesMonotone
    <3>3. n * (r + 1) = n * r + n /\ n * N = N * n BY <2>2, <3>1
    <3>4. n * r \in Nat /\ N * n \in Nat BY <2>2, <3>1, TimesNat
    <3> DEFINE a == n * r  b == N * n
    <3>5. a \in Nat /\ b \in Nat /\ a + n <= b /\ Len(d) = b /\ RecordIndex(o, x[1], x[2]) = a + e
      BY <2>4, <3>1, <3>2, <3>3, <3>4
    <3> HIDE DEF a, b
    <3> QED BY <3>1, <3>5
  <2>7. ASSUME NEW x \in B, NEW y \in B, RecordIndex(o, x[1], x[2]) = RecordIndex(o, y[1], y[2]) PROVE x = y
    <3> DEFINE r == rank(x[1])  e == x[2]  q == rank(y[1])  f == y[2]
    <3>1. /\ r \in Int /\ e \in 0 .. n - 1 /\ q \in Int /\ f \in 0 .. n - 1 /\ n \in Nat \ {0}
          /\ n * r + e = n * q + f
      BY <2>5, <2>7
    <3> HIDE DEF r, e, q, f
    <3>2. (n * r + e) \div n = r /\ (n * r + e) % n = e BY <3>1, DivIsUnique
    <3>3. (n * q + f) \div n = q /\ (n * q + f) % n = f BY <3>1, DivIsUnique
    <3>4. r = q /\ e = f BY <3>1, <3>2, <3>3
    <3>5. rank(x[1]) = rank(y[1]) /\ x[2] = y[2] BY <3>4 DEF r, q, e, f
    <3>6. x[1] \in L /\ y[1] \in L /\ x[1] \in Nat /\ y[1] \in Nat BY <1>3, <2>2
    <3>7. rank(x[1]) \in Nat /\ rank(y[1]) \in Nat BY <2>5
    <3>8. x[1] = y[1]
      <4>1. x[1] < y[1] => rank(x[1]) < rank(y[1]) BY <2>3, <3>6
      <4>2. y[1] < x[1] => rank(y[1]) < rank(x[1]) BY <2>3, <3>6
      <4> QED BY <3>5, <3>6, <3>7, <4>1, <4>2
    <3> QED BY <1>3, <3>5, <3>8
  <2> QED BY <2>6, <2>7 DEF d
<1> QED BY <1>5, <1>6 DEF Profiles

\* A record has room for its projections.
LEMMA RecordFacts ==
  ASSUME NEW o, IsOrder(o), ~Refused(o), BankOrder(o) # <<>>, NEW record, record = BankRecord(o)
  PROVE  record.payload \in Nat /\ record.stride \in Nat /\ record.payload <= record.stride
<1> DEFINE S == IF HasExperts(o) THEN Chosen(o) ELSE {}
           x == BankOrder(o)[1]
           s == Slices(o, x[1], x[2])
           p == o.precision["experts_routed"]
           ps == [k \in 1 .. Len(s) |-> Matrix(s[k].shape, p)]
<1>1. BankOrder(o) \in Seq(S) BY BankOrderFacts DEF Distinct
<1>2. x \in S
  <2> DEFINE b == BankOrder(o)
  <2>1. b \in Seq(S) /\ b # <<>> BY <1>1
  <2> HIDE DEF b, S
  <2>2. b[1] \in S BY <2>1
  <2> QED BY <2>2 DEF b
<1>3. HasExperts(o) /\ x \in Chosen(o) BY <1>2
<1>4. x[1] \in BankLayers(o) /\ x[2] \in Nat
  <2>1. Chosen(o) \subseteq BankLayers(o) \X (0 .. o.experts - 1) BY <1>3, ChosenFacts
  <2>2. x \in BankLayers(o) \X (0 .. o.experts - 1) BY <1>3, <2>1
  <2> HIDE DEF x
  <2> QED BY <2>2
<1>5. ~SliceError(o) BY <1>3 DEF Refused
<1>6. record = RecordLayout(ps) BY Zenon DEF BankRecord
<1> HIDE DEF x
<1> DEFINE A == SlicedFrom(o, x[1], x[2])
           T == {SliceOf(x[2], t) : t \in A}
<1>7. s \in Seq(T) /\ \A t \in A : SliceOf(x[2], t).shape \in Shapes
  <2> DEFINE l == x[1]  e == x[2]
  <2>1. l \in BankLayers(o) /\ e \in Nat BY <1>4
  <2> HIDE DEF l, e
  <2> DEFINE B == SlicedFrom(o, l, e)  U == {SliceOf(e, t) : t \in B}
  <2>2. B = SlicedFrom(o, l, e) /\ U = {SliceOf(e, t) : t \in B} OBVIOUS
  <2> HIDE DEF B, U
  <2>3. Slices(o, l, e) \in Seq(U) /\ \A t \in B : SliceOf(e, t).shape \in Shapes
    BY <1>5, <2>1, <2>2, SlicesFacts
  <2> QED BY <2>2, <2>3, Zenon DEF l, e
<1> HIDE DEF s, A
<1>8. \A k \in 1 .. Len(s) : s[k].shape \in Shapes
  <2>1. ASSUME NEW k \in 1 .. Len(s) PROVE s[k].shape \in Shapes
    <3>1. s[k] \in T BY <1>7
    <3>2. PICK t \in A : s[k] = SliceOf(x[2], t) BY <3>1
    <3> QED BY <1>7, <3>2
  <2> QED BY <2>1
<1>9. p \in Precisions
  <2>1. o.precision \in [Components -> Precisions] BY OrderFacts
  <2> QED BY <2>1 DEF Components
<1> HIDE DEF p
<1>10. Len(s) \in Nat BY <1>7
<1>11. \A k \in 1 .. Len(s) : ps[k] = Matrix(s[k].shape, p) OBVIOUS
<1>12. ps \in Seq({ps[k] : k \in 1 .. Len(s)}) /\ Len(ps) = Len(s) BY <1>10
<1> HIDE DEF ps
<1>13. ASSUME NEW k \in 1 .. Len(ps) PROVE MatrixBytes(ps[k]) \in Nat
  <2>1. ps[k] = Matrix(s[k].shape, p) /\ s[k].shape \in Shapes BY <1>8, <1>11, <1>12
  <2> DEFINE sh == s[k].shape
  <2>2. sh \in Shapes /\ ps[k] = Matrix(sh, p) BY <2>1
  <2> HIDE DEF sh
  <2>3. MatrixBytes(Matrix(sh, p)) \in Nat \ {0} BY <1>9, <2>2, MatrixFacts
  <2> QED BY <2>2, <2>3
<1>14. ProjectionAt(ps, Len(ps) + 1) \in Nat BY <1>12, <1>13, PayloadIsNat
<1> DEFINE payload == ProjectionAt(ps, Len(ps) + 1)
<1>15. record.payload = payload /\ record.stride = AlignUp(payload, PageBytes) BY <1>6 DEF RecordLayout
<1> HIDE DEF payload
<1>16. payload \in Nat /\ PageBytes \in Nat \ {0} BY <1>14, LayoutAssumption DEF payload
<1>17. AlignUp(payload, PageBytes) \in Nat /\ payload <= AlignUp(payload, PageBytes) BY <1>16, AlignUpFacts
<1> QED BY <1>15, <1>16, <1>17

LEMMA ConcatElements ==
  ASSUME NEW X, NEW s \in Seq(X), NEW t \in Seq(X)
  PROVE  s \o t \in Seq(X) /\ \A x \in ToSet(s \o t) : x \in ToSet(s) \/ x \in ToSet(t)
<1> DEFINE v == s \o t
<1>1. /\ v \in Seq(X) /\ Len(v) = Len(s) + Len(t) /\ Len(s) \in Nat /\ Len(t) \in Nat
      /\ \A i \in 1 .. Len(v) : v[i] = IF i <= Len(s) THEN s[i] ELSE t[i - Len(s)]
  OBVIOUS
<1> HIDE DEF v
<1>2. DOMAIN v = 1 .. Len(v) /\ DOMAIN s = 1 .. Len(s) /\ DOMAIN t = 1 .. Len(t) BY <1>1
<1>3. ASSUME NEW x \in ToSet(v) PROVE x \in ToSet(s) \/ x \in ToSet(t)
  <2>1. PICK i \in DOMAIN v : v[i] = x BY DEF ToSet
  <2>2. CASE i <= Len(s)
    <3>1. i \in DOMAIN s /\ s[i] = x BY <1>1, <1>2, <2>1, <2>2
    <3> QED BY <3>1 DEF ToSet
  <2>3. CASE ~(i <= Len(s))
    <3>1. i - Len(s) \in DOMAIN t /\ t[i - Len(s)] = x BY <1>1, <1>2, <2>1, <2>3
    <3> QED BY <3>1 DEF ToSet
  <2> QED BY <2>2, <2>3
<1> QED BY <1>1, <1>3 DEF v

-----------------------------------------------------------------------------
(* The table.                                                              *)

LEMMA ShardsFacts ==
  ASSUME NEW o, IsOrder(o), NEW P, P = Of(o, "ple_table")
  PROVE  /\ IsFiniteSet(P) /\ Shards(o) \in Distinct(P) /\ ToSet(Shards(o)) = P
         /\ \A t \in P : /\ t \in Tensors(o) /\ t.shape \in Shapes /\ Len(t.shape) = 2
                         /\ t.shape[1] \in Nat \ {0} /\ Cols(t.shape) \in Nat \ {0}
<1>1. P \subseteq Tensors(o) BY DEF Of
<1>2. IsFiniteSet(P) BY <1>1, OrderFacts, FS_Subset
<1>3. \A t \in P : t.part \in Int /\ t.shape \in Shapes
  <2>1. \A t \in Tensors(o) : t.part \in Nat \union {-1} /\ t.shape \in Shapes BY OrderFacts
  <2> QED BY <1>1, <2>1
<1>4. \A s, t \in P : s.part = t.part => s = t BY DEF IsOrder
<1>5. Shards(o) = Sorted(P, LAMBDA s, t : s.part < t.part) BY Zenon DEF Shards
<1> DEFINE d == Sorted(P, LAMBDA s, t : s.part < t.part)
<1>6. d \in Distinct(P) /\ ToSet(d) = P BY <1>2, <1>3, <1>4, ByPartFacts
<1> HIDE DEF d
<1>7. ASSUME NEW t \in P
      PROVE  Len(t.shape) = 2 /\ t.shape[1] \in Nat \ {0} /\ Cols(t.shape) \in Nat \ {0}
  <2> DEFINE sh == t.shape
  <2>1. sh \in Shapes /\ Len(sh) = 2 BY <1>3 DEF IsOrder
  <2> HIDE DEF sh
  <2>2. sh[1] \in Nat \ {0} BY <2>1 DEF Shapes
  <2>3. Cols(sh) \in Nat \ {0} BY <2>1, ShapeFacts
  <2> QED BY <2>1, <2>2, <2>3 DEF sh
<1> QED BY <1>1, <1>2, <1>3, <1>5, <1>6, <1>7 DEF d

\* The shards of a package are shards of the checkpoint, each once; of a full
\* package, all of them.
LEMMA PleShardsFacts ==
  ASSUME NEW o, IsOrder(o), NEW P, P = Of(o, "ple_table"), NEW d, d = PleShards(o)
  PROVE  /\ Len(d) \in Nat /\ DOMAIN d = 1 .. Len(d)
         /\ \A k \in 1 .. Len(d) : \E t \in P :
              d[k].tensor = t.name /\ d[k].rows = t.shape[1] /\ d[k].width = Cols(t.shape)
         /\ \A i, j \in 1 .. Len(d) : d[i].tensor = d[j].tensor => i = j
         /\ o.profile = "full" => \A t \in P : \E k \in 1 .. Len(d) : d[k].tensor = t.name
<1> DEFINE all == Shards(o)
           kept == IF o.profile = "full" THEN 1 .. Len(all) ELSE {1, Len(all)} \intersect 1 .. Len(all)
           nth == Sorted(kept, LAMBDA i, j : i < j)
           part == [k \in 1 .. Len(nth) |-> all[nth[k]]]
           N == 1 .. Len(all)
<1>1. all \in Distinct(P) /\ ToSet(all) = P BY ShardsFacts
<1>2. d = [k \in 1 .. Len(part) |->
             [tensor |-> part[k].name, shard |-> part[k].part, rows |-> part[k].shape[1],
              width |-> Cols(part[k].shape), logical |-> RowsBefore(all, nth[k]), first |-> RowsBefore(part, k)]]
  BY DEF PleShards
<1> HIDE DEF all
<1>3. Len(all) \in Nat /\ DOMAIN all = N /\ \A i \in N : all[i] \in P BY <1>1 DEF Distinct
<1>4. \A i, j \in N : all[i] = all[j] => i = j BY <1>1, <1>3 DEF Distinct, IsInjective
<1>5. kept \subseteq N /\ IsFiniteSet(kept)
  <2>1. IsFiniteSet(N) BY <1>3, FS_Interval
  <2>2. kept \subseteq N OBVIOUS
  <2> HIDE DEF kept, N
  <2> QED BY <2>1, <2>2, FS_Subset
<1>6. o.profile = "full" => kept = N OBVIOUS
<1>7. \A i \in N : i \in Int OBVIOUS
<1>8. nth \in Distinct(kept) /\ Len(nth) = Cardinality(kept) /\ ToSet(nth) = kept
  <2> HIDE DEF kept, N
  <2>1. \A i \in kept : i \in Int BY <1>5, <1>7
  <2> QED BY <1>5, <2>1, AscendingFacts
<1> HIDE DEF kept, nth
<1>9. Len(nth) \in Nat /\ DOMAIN nth = 1 .. Len(nth) /\ \A k \in 1 .. Len(nth) : nth[k] \in N
  <2>1. nth \in Seq(kept) BY <1>8 DEF Distinct
  <2> HIDE DEF N
  <2> QED BY <1>5, <2>1
<1>10. \A i, j \in 1 .. Len(nth) : nth[i] = nth[j] => i = j BY <1>8, <1>9 DEF Distinct, IsInjective
<1>11. part \in Seq({part[k] : k \in 1 .. Len(nth)}) /\ Len(part) = Len(nth)
       /\ \A k \in 1 .. Len(nth) : part[k] = all[nth[k]]
  BY <1>9
<1> HIDE DEF part, N
<1>12. /\ Len(d) = Len(nth) /\ DOMAIN d = 1 .. Len(d)
       /\ \A k \in 1 .. Len(nth) : d[k].tensor = all[nth[k]].name /\ d[k].rows = all[nth[k]].shape[1]
                                  /\ d[k].width = Cols(all[nth[k]].shape)
  <2>1. DOMAIN d = 1 .. Len(nth) BY <1>2, <1>11
  <2>2. d \in Seq({d[k] : k \in 1 .. Len(nth)}) /\ Len(d) = Len(nth) BY <1>2, <1>9, <1>11
  <2>3. ASSUME NEW k \in 1 .. Len(nth)
        PROVE  d[k].tensor = part[k].name /\ d[k].rows = part[k].shape[1] /\ d[k].width = Cols(part[k].shape)
    BY <1>2, <1>11
  <2> QED BY <1>11, <2>1, <2>2, <2>3
<1>13. \A s, t \in P : s.name = t.name => s = t
  <2>1. P \subseteq Tensors(o) BY DEF Of
  <2> QED BY <2>1, OrderFacts
<1>14. ASSUME NEW k \in 1 .. Len(d)
       PROVE  \E t \in P : d[k].tensor = t.name /\ d[k].rows = t.shape[1] /\ d[k].width = Cols(t.shape)
  <2>1. nth[k] \in N BY <1>9, <1>12
  <2>2. all[nth[k]] \in P BY <1>3, <2>1
  <2> QED BY <1>12, <2>2
<1>15. ASSUME NEW i \in 1 .. Len(d), NEW j \in 1 .. Len(d), d[i].tensor = d[j].tensor PROVE i = j
  <2>1. nth[i] \in N /\ nth[j] \in N BY <1>9, <1>12
  <2>2. all[nth[i]] \in P /\ all[nth[j]] \in P BY <1>3, <2>1
  <2>3. all[nth[i]].name = all[nth[j]].name BY <1>12, <1>15
  <2>4. nth[i] = nth[j] BY <1>4, <1>13, <2>1, <2>2, <2>3
  <2> QED BY <1>10, <1>12, <2>4
<1>16. ASSUME o.profile = "full", NEW t \in P PROVE \E k \in 1 .. Len(d) : d[k].tensor = t.name
  <2>1. PICK i \in N : all[i] = t BY <1>1, <1>3 DEF ToSet
  <2>2. i \in kept BY <1>6, <1>16, <2>1
  <2>3. PICK k \in 1 .. Len(nth) : nth[k] = i BY <1>8, <1>9, <2>2 DEF ToSet
  <2>4. k \in 1 .. Len(d) /\ d[k].tensor = t.name BY <1>12, <2>1, <2>3
  <2> QED BY <2>4
<1> QED BY <1>9, <1>12, <1>14, <1>15, <1>16

\* The table has a first shard to take the width from.
LEMMA TableFacts ==
  ASSUME NEW o, IsOrder(o), HasPle(o)
  PROVE  IsPaged(Row(o)) /\ PhysicalRows(o) \in Nat
<1> DEFINE P == Of(o, "ple_table")
           I == {i \in DOMAIN o.tensors : o.tensors[i].comp = "ple_table"}
           d == PleShards(o)
<1>1. /\ Shards(o) \in Distinct(P) /\ ToSet(Shards(o)) = P
      /\ \A t \in P : t.shape[1] \in Nat \ {0} /\ Cols(t.shape) \in Nat \ {0}
  BY ShardsFacts
<1>2. P # {}
  <2> DEFINE a == Shards(o)
  <2>1. a \in Seq(P) /\ a # <<>> BY <1>1 DEF Distinct, HasPle
  <2> HIDE DEF a, P
  <2>2. a[1] \in P BY <2>1
  <2> QED BY <2>2
<1>3. DOMAIN o.tensors \subseteq Nat
  <2> DEFINE T == [name : Nat, comp : Components, cap : {"text", "vision"}, layer : Nat,
                   part : Nat \union {-1}, proj : Nat, shape : Seq(Nat \ {0})]
  <2>1. o.tensors \in Seq(T) BY DEF IsOrder
  <2> HIDE DEF T
  <2> QED BY <2>1
<1>4. I # {} /\ \A i \in I : o.tensors[i] \in P
  <2>1. \A i \in DOMAIN o.tensors : o.tensors[i] \in Tensors(o) BY DEF Tensors, ToSet
  <2>2. \A t \in Tensors(o) : \E i \in DOMAIN o.tensors : o.tensors[i] = t BY DEF Tensors, ToSet
  <2> QED BY <1>2, <2>1, <2>2 DEF Of
<1> HIDE DEF I
<1>5. I \in SUBSET Nat BY <1>3 DEF I
<1>6. Min(I) \in I BY <1>4, <1>5, MinFacts
<1> DEFINE width == Cols(o.tensors[Min(I)].shape)
           entry == o.precision["ple_table"]
<1>7. width \in Nat \ {0} BY <1>1, <1>4, <1>6
<1>8. entry \in Precisions
  <2>1. o.precision \in [Components -> Precisions] BY OrderFacts
  <2> QED BY <2>1 DEF Components
<1>9. Row(o) = RowLayout(width, entry) BY DEF Row, I
<1> HIDE DEF width, entry
<1>10. IsPaged(RowLayout(width, entry)) BY <1>7, <1>8, RowsArePaged
<1>11. /\ Len(d) \in Nat /\ DOMAIN d = 1 .. Len(d)
       /\ \A k \in 1 .. Len(d) : \E t \in P : d[k].rows = t.shape[1]
  BY PleShardsFacts
<1>12. PhysicalRows(o) = FoldLeft(LAMBDA a, p : a + p.rows, 0, d) BY Zenon DEF PhysicalRows
<1>13. d = [k \in DOMAIN d |-> d[k]] BY DEF PleShards
<1> HIDE DEF d
<1>14. d \in Seq({d[k] : k \in 1 .. Len(d)}) BY <1>11, <1>13
<1>15. \A k \in 1 .. Len(d) : d[k].rows \in Nat BY <1>1, <1>11
<1>16. FoldLeft(LAMBDA a, p : a + p.rows, 0, d) \in Nat BY <1>14, <1>15, RowsAreNat
<1> QED BY <1>9, <1>10, <1>12, <1>16

-----------------------------------------------------------------------------
(* The items of a plan.                                                    *)

\* The items of the experts are one of every expert in the bank, at its record.
LEMMA ExpertItems ==
  ASSUME NEW o, IsOrder(o), NEW w \in ToSet(Plan(o).work), w.region = "experts"
  PROVE  \E k \in 1 .. Len(BankOrder(o)) :
           /\ w = ExpertWork(o)[k]
           /\ w.at = RecordIndex(o, BankOrder(o)[k][1], BankOrder(o)[k][2]) * BankRecord(o).stride
<1> DEFINE D == DenseWork(o)  E == ExpertWork(o)  P == PleWork(o)
           n == Len(DenseMatrices(o))  m == Len(BankOrder(o))  l == Len(PleShards(o))
           X == ToSet(D) \union ToSet(E) \union ToSet(P)
           S == IF HasExperts(o) THEN Chosen(o) ELSE {}
<1>1. DOMAIN D = 1 .. n /\ (\A k \in 1 .. n : D[k].region = "dense") /\ D = [k \in 1 .. n |-> D[k]]
  BY DEF DenseWork
<1>2. /\ DOMAIN E = 1 .. m /\ E = [k \in 1 .. m |-> E[k]]
      /\ \A k \in 1 .. m : E[k].at = RecordIndex(o, BankOrder(o)[k][1], BankOrder(o)[k][2]) * BankRecord(o).stride
  BY DEF ExpertWork
<1>3. DOMAIN P = 1 .. l /\ (\A k \in 1 .. l : P[k].region = "ple") /\ P = [k \in 1 .. l |-> P[k]]
  BY DEF PleWork
<1>4. n \in Nat
  <2>1. Len(DenseTensors(o)) \in Nat BY DenseTensorsFacts
  <2> QED BY <2>1 DEF DenseMatrices
<1>5. m \in Nat BY BankOrderFacts DEF Distinct
<1>6. l \in Nat BY PleShardsFacts
<1>7. Plan(o).work = D \o E \o P BY DEF Plan
<1> HIDE DEF D, E, P, n, m, l
<1>8. D \in Seq(X) /\ E \in Seq(X) /\ P \in Seq(X)
  <2>1. \A k \in 1 .. n : D[k] \in X BY <1>1 DEF ToSet
  <2>2. \A k \in 1 .. m : E[k] \in X BY <1>2 DEF ToSet
  <2>3. \A k \in 1 .. l : P[k] \in X BY <1>3 DEF ToSet
  <2> HIDE DEF X
  <2>4. D \in Seq(X) BY <1>1, <1>4, <2>1
  <2>5. E \in Seq(X) BY <1>2, <1>5, <2>2
  <2>6. P \in Seq(X) BY <1>3, <1>6, <2>3
  <2> QED BY <2>4, <2>5, <2>6
<1> HIDE DEF X
<1>9. D \o E \in Seq(X) /\ \A x \in ToSet(D \o E) : x \in ToSet(D) \/ x \in ToSet(E) BY <1>8, ConcatElements
<1>10. \A x \in ToSet((D \o E) \o P) : x \in ToSet(D \o E) \/ x \in ToSet(P)
  <2> DEFINE s == D \o E
  <2>1. s \in Seq(X) BY <1>9
  <2> HIDE DEF s
  <2>2. \A x \in ToSet(s \o P) : x \in ToSet(s) \/ x \in ToSet(P) BY <1>8, <2>1, ConcatElements
  <2> QED BY <2>2 DEF s
<1>11. w \in ToSet(D) \/ w \in ToSet(E) \/ w \in ToSet(P) BY <1>7, <1>9, <1>10
<1>12. w \notin ToSet(D) BY <1>1 DEF ToSet
<1>13. w \notin ToSet(P) BY <1>3 DEF ToSet
<1>14. PICK k \in 1 .. m : w = E[k] BY <1>2, <1>11, <1>12, <1>13 DEF ToSet
<1> QED BY <1>2, <1>14 DEF E, m

\* The items of two experts share no byte, and are inside their region.
LEMMA ExpertsApart ==
  ASSUME NEW o, IsOrder(o), ~Refused(o), NEW payload, payload = BankRecord(o).payload
  PROVE  /\ \A v, w \in ToSet(Plan(o).work) :
              v.region = "experts" /\ w.region = "experts" /\ v # w =>
                v.at + payload <= w.at \/ w.at + payload <= v.at
         /\ \A w \in ToSet(Plan(o).work) :
              w.region = "experts" => w.at + payload <= Len(BankOrder(o)) * BankRecord(o).stride
<1> DEFINE ids == BankOrder(o)  m == Len(ids)  stride == BankRecord(o).stride
           S == IF HasExperts(o) THEN Chosen(o) ELSE {}
           index(k) == RecordIndex(o, ids[k][1], ids[k][2])
           E == ExpertWork(o)
<1>1. ids \in Distinct(S) /\ m \in Nat /\ DOMAIN ids = 1 .. m BY BankOrderFacts DEF Distinct
<1>2. o.profile \in Profiles BY DEF Refused
<1>3. /\ \A k \in 1 .. m : index(k) \in 0 .. m - 1
      /\ \A j, k \in 1 .. m : index(j) = index(k) => j = k
  <2> DEFINE B == ToSet(ids)
  <2>1. /\ \A x \in B : RecordIndex(o, x[1], x[2]) \in 0 .. Len(BankOrder(o)) - 1
        /\ \A x, y \in B : RecordIndex(o, x[1], x[2]) = RecordIndex(o, y[1], y[2]) => x = y
    BY <1>2, RecordIndexFacts
  <2>2. \A k \in 1 .. m : ids[k] \in B BY <1>1 DEF ToSet
  <2>3. \A j, k \in 1 .. m : ids[j] = ids[k] => j = k BY <1>1 DEF Distinct, IsInjective
  <2> HIDE DEF B
  <2> QED BY <2>1, <2>2, <2>3
<1>4. m > 0 => payload \in Nat /\ stride \in Nat /\ payload <= stride
  <2>1. m > 0 => ids # <<>> OBVIOUS
  <2> QED BY <2>1, RecordFacts
<1>5. ASSUME NEW w \in ToSet(Plan(o).work), w.region = "experts"
      PROVE  \E k \in 1 .. m : w = E[k] /\ w.at = index(k) * stride
  BY <1>5, ExpertItems
<1> HIDE DEF ids, m, stride, index, E
<1>6. ASSUME NEW i \in Nat, NEW j \in Nat, i < j, payload \in Nat, stride \in Nat, payload <= stride
      PROVE  i * stride + payload <= j * stride
  <2>1. stride * (i + 1) <= stride * j BY <1>6, TimesMonotone
  <2>2. stride * (i + 1) = i * stride + stride /\ stride * j = j * stride BY <1>6
  <2>3. i * stride \in Nat /\ j * stride \in Nat BY <1>6, TimesNat
  <2> DEFINE a == i * stride  b == j * stride
  <2>4. a \in Nat /\ b \in Nat /\ a + stride <= b BY <2>1, <2>2, <2>3
  <2> HIDE DEF a, b
  <2>5. a + payload <= b BY <1>6, <2>4
  <2> QED BY <2>5 DEF a, b
<1>7. ASSUME NEW v \in ToSet(Plan(o).work), NEW w \in ToSet(Plan(o).work),
             v.region = "experts", w.region = "experts", v # w
      PROVE  v.at + payload <= w.at \/ w.at + payload <= v.at
  <2>1. PICK j \in 1 .. m : v = E[j] /\ v.at = index(j) * stride BY <1>5, <1>7
  <2>2. PICK k \in 1 .. m : w = E[k] /\ w.at = index(k) * stride BY <1>5, <1>7
  <2>3. j # k /\ m > 0 BY <1>1, <1>7, <2>1, <2>2
  <2>4. index(j) \in Nat /\ index(k) \in Nat /\ index(j) # index(k) BY <1>3, <2>3
  <2>5. index(j) < index(k) \/ index(k) < index(j) BY <2>4
  <2>6. payload \in Nat /\ stride \in Nat /\ payload <= stride BY <1>4, <2>3
  <2> QED BY <1>6, <2>1, <2>2, <2>4, <2>5, <2>6
<1>8. ASSUME NEW w \in ToSet(Plan(o).work), w.region = "experts" PROVE w.at + payload <= m * stride
  <2>1. PICK k \in 1 .. m : w = E[k] /\ w.at = index(k) * stride BY <1>5, <1>8
  <2>2. m > 0 /\ index(k) \in Nat /\ index(k) < m BY <1>1, <1>3
  <2>3. payload \in Nat /\ stride \in Nat /\ payload <= stride BY <1>4, <2>2
  <2> QED BY <1>1, <1>6, <2>1, <2>2, <2>3
<1> QED BY <1>7, <1>8 DEF m, ids, stride

\* What the addresses of a plan are: no two items share a byte, and every item
\* is inside its region, whole rows in the pages of the table.
LEMMA AddressesApart ==
  ASSUME NEW o, IsOrder(o), ~Refused(o), NEW p, p = Plan(o)
  PROVE  /\ ~Overlap({<<DenseAt(p.dense, k), DenseAt(p.dense, k) + MatrixBytes(p.dense[k])>> :
                         k \in 1 .. Len(p.dense)}, p.bytes.dense)
         /\ \A v, w \in ToSet(p.work) :
              v.region = "experts" /\ w.region = "experts" /\ v # w =>
                v.at + p.record.payload <= w.at \/ w.at + p.record.payload <= v.at
         /\ \A w \in ToSet(p.work) :
              w.region = "experts" => w.at + p.record.payload <= p.bytes.experts
         /\ p.bytes.ple > 0 => \A i \in 0 .. PhysicalRows(o) - 1 :
              LET at == RowOffset(p.row, i)
              IN  /\ at + p.row.payload <= p.bytes.ple
                  /\ \A j \in 0 .. i - 1 : RowOffset(p.row, j) + p.row.payload <= at
                  /\ at % PageBytes = 0 \/ at \div PageBytes = (at + p.row.payload - 1) \div PageBytes
<1>1. /\ p.work = Plan(o).work /\ p.dense = DenseMatrices(o) /\ p.record = BankRecord(o)
      /\ p.bytes.dense = DenseAt(DenseMatrices(o), Len(DenseMatrices(o)) + 1)
      /\ p.bytes.experts = Len(BankOrder(o)) * BankRecord(o).stride
      /\ p.bytes.ple = IF HasPle(o) THEN TableBytes(Row(o), PhysicalRows(o)) ELSE 0
      /\ HasPle(o) => p.row = Row(o)
  BY DEF Plan
<1>2. ~Overlap({<<DenseAt(p.dense, k), DenseAt(p.dense, k) + MatrixBytes(p.dense[k])>> :
                  k \in 1 .. Len(p.dense)}, p.bytes.dense)
  BY <1>1, DenseEntriesApart
<1>3. /\ \A v, w \in ToSet(Plan(o).work) :
           v.region = "experts" /\ w.region = "experts" /\ v # w =>
             v.at + p.record.payload <= w.at \/ w.at + p.record.payload <= v.at
      /\ \A w \in ToSet(Plan(o).work) :
           w.region = "experts" => w.at + p.record.payload <= Len(BankOrder(o)) * BankRecord(o).stride
  <2> DEFINE payload == p.record.payload
  <2>1. payload = BankRecord(o).payload BY <1>1
  <2> HIDE DEF payload
  <2>2. /\ \A v, w \in ToSet(Plan(o).work) :
             v.region = "experts" /\ w.region = "experts" /\ v # w =>
               v.at + payload <= w.at \/ w.at + payload <= v.at
        /\ \A w \in ToSet(Plan(o).work) :
             w.region = "experts" => w.at + payload <= Len(BankOrder(o)) * BankRecord(o).stride
    BY <2>1, ExpertsApart
  <2> QED BY <2>2 DEF payload
<1>4. ASSUME p.bytes.ple > 0, NEW i \in 0 .. PhysicalRows(o) - 1
      PROVE  /\ RowOffset(p.row, i) + p.row.payload <= p.bytes.ple
             /\ \A j \in 0 .. i - 1 : RowOffset(p.row, j) + p.row.payload <= RowOffset(p.row, i)
             /\ \/ RowOffset(p.row, i) % PageBytes = 0
                \/ RowOffset(p.row, i) \div PageBytes = (RowOffset(p.row, i) + p.row.payload - 1) \div PageBytes
  <2>1. HasPle(o) BY <1>1, <1>4
  <2> DEFINE row == p.row  n == PhysicalRows(o)
  <2>2. IsPaged(row) /\ n \in Nat /\ i \in 0 .. n - 1 /\ p.bytes.ple = TableBytes(row, n)
    BY <1>1, <2>1, TableFacts
  <2> HIDE DEF row, n
  <2>3. /\ RowOffset(row, i) + row.payload <= TableBytes(row, n)
        /\ \/ RowOffset(row, i) % PageBytes = 0
           \/ RowOffset(row, i) \div PageBytes = (RowOffset(row, i) + row.payload - 1) \div PageBytes
    BY <2>2, RowsInPages
  <2>4. ASSUME NEW j \in 0 .. i - 1 PROVE RowOffset(row, j) + row.payload <= RowOffset(row, i)
    <3>1. i \in Nat BY <2>2
    <3> QED BY <2>2, <3>1, RowsApart
  <2> QED BY <2>2, <2>3, <2>4, Zenon DEF row
<1> QED BY <1>1, <1>2, <1>3, <1>4, Zenon

-----------------------------------------------------------------------------
(* What becomes of the parameters.                                         *)

\* The rows of a fused bank are those of one expert, once for every expert.
LEMMA TailSize ==
  ASSUME NEW s \in Shapes, Len(s) >= 2
  PROVE  Tail(s) \in Shapes /\ Size(s) = s[1] * Size(Tail(s))
<1> DEFINE n == Len(s)
           p == SubSeq(s, 1, n - 1)
           t == Tail(s)
           q == SubSeq(t, 1, Len(t) - 1)
<1>1. n \in Nat /\ n >= 2 /\ s \in Seq(Nat) /\ \A i \in 1 .. n : s[i] \in Nat \ {0} BY DEF Shapes
<1>2. t \in Seq(Nat \ {0}) /\ Len(t) = n - 1 /\ \A i \in 1 .. (n - 1) : t[i] = s[i + 1] BY DEF Shapes
<1>3. t \in Shapes BY <1>2 DEF Shapes
<1>4. p \in Seq(Nat) /\ Len(p) = n - 1 /\ \A i \in 1 .. (n - 1) : p[i] = s[i]
  <2>1. \A i \in 1 .. (n - 1) : s[i] \in Nat BY <1>1
  <2>2. n - 1 \in Nat /\ n - 1 <= Len(s) BY <1>1
  <2> QED BY <1>1, <2>1, <2>2, SubSeqProperties
<1>5. q \in Seq(Nat \ {0}) /\ Len(q) = n - 2 /\ \A i \in 1 .. (n - 2) : q[i] = t[i]
  <2> HIDE DEF t, n
  <2>1. \A i \in 1 .. (n - 2) : t[i] \in Nat \ {0} BY <1>1, <1>2
  <2>2. n - 2 \in Nat /\ n - 2 <= Len(t) /\ Len(t) - 1 = n - 2 BY <1>1, <1>2
  <2> QED BY <1>2, <2>1, <2>2, SubSeqProperties
<1>6. Tail(p) = q
  <2> HIDE DEF p, q, t, n
  <2>1. p # <<>> BY <1>1, <1>4
  <2>2. /\ Tail(p) \in Seq(Nat) /\ Len(Tail(p)) = n - 2
        /\ \A i \in 1 .. (n - 2) : Tail(p)[i] = p[i + 1]
    BY <1>1, <1>4, <2>1
  <2>3. q \in Seq(Nat) BY <1>5
  <2>4. ASSUME NEW i \in 1 .. (n - 2) PROVE Tail(p)[i] = q[i]
    <3>1. i + 1 \in 1 .. (n - 1) /\ i \in 1 .. (n - 1) BY <1>1
    <3>2. p[i + 1] = s[i + 1] /\ q[i] = t[i] /\ t[i] = s[i + 1] BY <1>2, <1>4, <1>5, <3>1
    <3> QED BY <2>2, <3>2
  <2> DEFINE r == Tail(p)
  <2>5. r \in Seq(Nat) /\ Len(r) = Len(q) /\ \A i \in 1 .. Len(r) : r[i] = q[i] BY <1>5, <2>2, <2>4
  <2> HIDE DEF r
  <2>6. r = q BY <2>3, <2>5
  <2> QED BY <2>6 DEF r
<1>7. Rows(s) = s[1] * Rows(t)
  <2>1. p # <<>> /\ p[1] = s[1]
    <3> HIDE DEF p
    <3>1. 1 \in 1 .. (n - 1) BY <1>1
    <3> QED BY <1>1, <1>4, <3>1
  <2>2. Product(p) = p[1] * Product(Tail(p)) BY <1>4, <2>1, ProductOfHead
  <2>3. Rows(s) = Product(p) /\ Rows(t) = Product(q) BY RowsIsProduct
  <2> QED BY <1>6, <2>1, <2>2, <2>3
<1>8. Cols(s) = Cols(t)
  <2>1. s # <<>> /\ t # <<>>
    <3>1. Len(s) # 0 /\ Len(t) # 0 BY <1>1, <1>2
    <3> HIDE DEF t
    <3> QED BY <3>1
  <2>2. Last(s) = s[n] /\ Last(t) = t[Len(t)] BY DEF Last
  <2>3. t[n - 1] = s[n]
    <3>1. n - 1 \in 1 .. (n - 1) /\ (n - 1) + 1 = n BY <1>1
    <3> QED BY <1>2, <3>1
  <2> QED BY <1>2, <2>1, <2>2, <2>3 DEF Cols
<1> DEFINE a == s[1]  b == Rows(t)  c == Cols(t)
<1>9. a \in Nat /\ b \in Nat /\ c \in Nat
  <2>1. 1 \in 1 .. n BY <1>1
  <2> QED BY <1>1, <1>3, <2>1, ShapeFacts
<1>10. Size(s) = (a * b) * c /\ Size(t) = b * c BY <1>7, <1>8 DEF Size
<1> HIDE DEF a, b, c
<1>11. (a * b) * c = a * (b * c) BY <1>9
<1> QED BY <1>3, <1>10, <1>11 DEF a

\* Parameters of some tensors of the checkpoint.
LEMMA ParamsAreSums ==
  ASSUME NEW o, IsOrder(o), NEW size, size = [t \in Tensors(o) |-> Size(t.shape)], NEW S \in SUBSET Tensors(o)
  PROVE  size \in [Tensors(o) -> Nat] /\ IsFiniteSet(S) /\ Params(S) = Sum(size, S)
<1> DEFINE w == [t \in S |-> Size(t.shape)]
<1>1. \A t \in Tensors(o) : Size(t.shape) \in Nat
  <2>1. \A t \in Tensors(o) : t.shape \in Shapes BY OrderFacts
  <2>2. \A sh \in Shapes : Size(sh) \in Nat BY ShapeFacts
  <2> QED BY <2>1, <2>2
<1>2. size \in [Tensors(o) -> Nat] /\ w \in [S -> Nat] /\ \A t \in S : w[t] = size[t] BY <1>1
<1>3. IsFiniteSet(S) BY OrderFacts, FS_Subset
<1>4. DOMAIN w = S /\ Params(S) = SumFunction(w) BY DEF Params
<1> HIDE DEF w
<1>5. Params(S) = Sum(w, S) BY <1>4 DEF SumFunction, Sum
<1>7. Sum(w, S) = Sum(size, S) BY <1>2, <1>3, SumsCoincide
<1> QED BY <1>2, <1>3, <1>5, <1>7

\* The parameters of an expert are those of its shares.
LEMMA SliceParams ==
  ASSUME NEW o, IsOrder(o), ~SliceError(o), NEW layer \in BankLayers(o), NEW e \in Nat,
         NEW A, A = SlicedFrom(o, layer, e), NEW w, w = [t \in A |-> Size(SliceOf(e, t).shape)]
  PROVE  w \in [A -> Nat] /\ Params(ToSet(Slices(o, layer, e))) = Sum(w, A)
<1> DEFINE S == {SliceOf(e, t) : t \in A}
           v == [s \in S |-> Size(s.shape)]
           f == [t \in A |-> SliceOf(e, t)]
<1>1. /\ IsFiniteSet(S) /\ ToSet(Slices(o, layer, e)) = S
      /\ \A t \in A : SliceOf(e, t).shape \in Shapes
      /\ \A s, t \in A : SliceOf(e, s) = SliceOf(e, t) => s = t
  <2>1. S = {SliceOf(e, t) : t \in A} OBVIOUS
  <2> HIDE DEF S
  <2>2. /\ IsFiniteSet(S) /\ Slices(o, layer, e) \in Seq(S) /\ ToSet(Slices(o, layer, e)) = S
        /\ \A t \in A : SliceOf(e, t).shape \in Shapes
        /\ \A s, t \in A : SliceOf(e, s) = SliceOf(e, t) => s = t
    BY <2>1, SlicesFacts
  <2> QED BY <2>2
<1>2. IsFiniteSet(A) BY SlicedFromFacts
<1>3. \A t \in A : Size(SliceOf(e, t).shape) \in Nat
  <2>1. \A sh \in Shapes : Size(sh) \in Nat BY ShapeFacts
  <2> QED BY <1>1, <2>1
<1>4. w \in [A -> Nat] BY <1>3
<1>5. v \in [S -> Nat] BY <1>3
<1>6. /\ f \in [A -> S] /\ \A a, b \in A : f[a] = f[b] => a = b
      /\ \A b \in S : \E a \in A : f[a] = b
      /\ \A a \in A : v[f[a]] = w[a]
  BY <1>1
<1>7. Params(S) = Sum(v, S)
  <2>1. DOMAIN v = S /\ Params(S) = SumFunction(v) BY DEF Params
  <2> HIDE DEF v, S
  <2> QED BY <2>1 DEF SumFunction, Sum
<1> HIDE DEF S, v, f
<1>8. Sum(v, S) = Sum(w, A) BY <1>2, <1>4, <1>5, <1>6, SumRenamed
<1> QED BY <1>1, <1>4, <1>7, <1>8

\* What the experts of a layer take is what its bank has, if no expert's number
\* lies beyond the routing.
LEMMA LayerParams ==
  ASSUME NEW o, IsOrder(o), ~SliceError(o), NEW layer \in BankLayers(o),
         \A t \in Of(o, "experts_routed") : t.part < o.experts,
         NEW size, size = [t \in Tensors(o) |-> Size(t.shape)],
         NEW X, NEW v \in [X -> Nat], NEW J \in SUBSET X, J = {layer} \X (0 .. o.experts - 1),
         \A x \in J : v[x] = Params(ToSet(Slices(o, x[1], x[2])))
  PROVE  Sum(v, J) = Sum(size, Bank(o, layer))
<1> DEFINE T == Tensors(o)
           n == o.experts
           B == Bank(o, layer)
<1>1. B \subseteq Of(o, "experts_routed") /\ B \in SUBSET T BY DEF Bank, Of
<1>2. size \in [T -> Nat] /\ IsFiniteSet(B)
  <2> HIDE DEF B
  <2> QED BY <1>1, ParamsAreSums
<1>3. n \in Nat BY OrderFacts
<1>4. IsFiniteSet(J) /\ Cardinality(J) = n
  <2> DEFINE N == 0 .. (n - 1)
  <2>1. IsFiniteSet(N) /\ Cardinality(N) = n
    <3>1. 0 \in Int /\ n - 1 \in Int BY <1>3
    <3> HIDE DEF n
    <3>2. IsFiniteSet(0 .. (n - 1)) /\ Cardinality(0 .. (n - 1)) = IF 0 > n - 1 THEN 0 ELSE (n - 1) - 0 + 1
      BY <3>1, FS_Interval
    <3> QED BY <1>3, <3>2
  <2>2. IsFiniteSet({layer}) /\ Cardinality({layer}) = 1 BY FS_Singleton
  <2>3. J = {layer} \X N OBVIOUS
  <2> HIDE DEF N, n
  <2>4. IsFiniteSet({layer} \X N) /\ Cardinality({layer} \X N) = Cardinality({layer}) * Cardinality(N)
    BY <2>1, <2>2, FS_Product
  <2>5. 1 * n = n BY <1>3
  <2> QED BY <2>1, <2>2, <2>3, <2>4, <2>5
<1>5. \A x \in J : x[1] = layer /\ x[2] \in Nat /\ x[2] \in 0 .. n - 1 /\ x = <<layer, x[2]>>
  BY <1>3
<1>6. CASE Fused(o, layer) # {}
  <2> DEFINE own == [t \in B |-> size[t]]
             w == [t \in B |-> Size(Tail(t.shape))]
             c == Sum(w, B)
  <2>1. B = Fused(o, layer)
    <3>1. ~(Fused(o, layer) # {} /\ Fused(o, layer) # Bank(o, layer)) BY DEF SliceError
    <3> QED BY <1>6, <3>1
  <2>2. ASSUME NEW t \in B
        PROVE  t.part < 0 /\ Size(Tail(t.shape)) \in Nat /\ size[t] = n * Size(Tail(t.shape))
    <3>1. t \in Fused(o, layer) /\ t \in T BY <1>1, <2>1
    <3>2. t.part < 0 BY <3>1 DEF Fused
    <3>3. t.shape \in Shapes /\ Len(t.shape) \in Nat
      <4>1. t.shape \in Shapes BY <3>1, OrderFacts
      <4> QED BY <4>1 DEF Shapes
    <3>4. ~(Len(t.shape) < 2 \/ t.shape[1] # o.experts) BY <3>1 DEF SliceError
    <3> DEFINE sh == t.shape
    <3>5. sh \in Shapes /\ Len(sh) >= 2 /\ sh[1] = n BY <3>3, <3>4
    <3>6. size[t] = Size(sh) BY <3>1
    <3> HIDE DEF sh, n
    <3>7. Tail(sh) \in Shapes /\ Size(sh) = sh[1] * Size(Tail(sh)) BY <3>5, TailSize
    <3>8. Size(Tail(sh)) \in Nat BY <3>7, ShapeFacts
    <3> QED BY <3>2, <3>5, <3>6, <3>7, <3>8 DEF sh
  <2>3. own \in [B -> Nat] /\ w \in [B -> Nat] /\ \A t \in B : own[t] = n * w[t] /\ own[t] = size[t]
    <3>1. \A t \in B : size[t] \in Nat BY <1>1, <1>2
    <3> HIDE DEF B, n
    <3> QED BY <2>2, <3>1
  <2>4. ASSUME NEW x \in J PROVE v[x] = c
    <3> DEFINE e == x[2]  A == SlicedFrom(o, layer, e)
               u == [t \in A |-> Size(SliceOf(e, t).shape)]
    <3>1. e \in Nat /\ v[x] = Params(ToSet(Slices(o, layer, e))) BY <1>5
    <3>2. A = B BY <1>6, <2>1 DEF SlicedFrom
    <3>3. \A t \in B : SliceOf(e, t).shape = Tail(t.shape) BY <2>2 DEF SliceOf
    <3> HIDE DEF e
    <3>4. A = SlicedFrom(o, layer, e) /\ u = [t \in A |-> Size(SliceOf(e, t).shape)] OBVIOUS
    <3>5. u = w BY <3>2, <3>3
    <3> HIDE DEF A, u, w, B
    <3>6. Params(ToSet(Slices(o, layer, e))) = Sum(u, A) BY <3>1, <3>4, SliceParams
    <3> QED BY <3>1, <3>2, <3>5, <3>6
  <2> HIDE DEF own, w
  <2>5. c \in Nat
    <3> HIDE DEF B
    <3>1. B \in SUBSET B OBVIOUS
    <3> QED BY <1>2, <2>3, <3>1, SumIsNat
  <2> HIDE DEF c
  <2>6. Sum(v, J) = c * Cardinality(J)
    <3> HIDE DEF B
    <3> QED BY <1>4, <2>4, <2>5, SumOfEqual
  <2>7. Sum(own, B) = n * Sum(w, B)
    <3> DEFINE S == B
    <3>1. S \in SUBSET B /\ IsFiniteSet(S) /\ n \in Nat BY <1>2, <1>3
    <3>2. \A t \in S : own[t] = n * w[t] BY <2>3
    <3>3. own \in [B -> Nat] /\ w \in [B -> Nat] BY <2>3
    <3> HIDE DEF S, B, n
    <3>4. Sum(own, S) = n * Sum(w, S) BY <3>1, <3>2, <3>3, SumScaled
    <3> QED BY <3>4 DEF S
  <2>8. Sum(own, B) = Sum(size, B)
    <3>1. \A t \in B : own[t] = size[t] BY <2>3
    <3> HIDE DEF B, n
    <3> QED BY <1>2, <3>1, SumsCoincide, ZenonT(60)
  <2>9. c * n = n * c BY <1>3, <2>5
  <2> QED BY <1>4, <2>6, <2>7, <2>8, <2>9 DEF c
<1>7. CASE Fused(o, layer) = {}
  <2> DEFINE part == [x \in J |-> Owned(o, layer, x[2])]
             u == [x \in J |-> v[x]]
  <2>1. \A t \in B : t.part \in 0 .. n - 1
    <3>1. \A t \in T : t.part \in Nat \union {-1} BY OrderFacts
    <3>2. \A t \in B : ~(t.part < 0) BY <1>7 DEF Fused
    <3> QED BY <1>1, <1>3, <3>1, <3>2
  <2>2. /\ \A x \in J : part[x] \subseteq B
        /\ \A x \in J : \A t \in part[x] : t.part = x[2]
    BY DEF Owned
  <2>3. \A t \in B : \E x \in J : t \in part[x]
    <3>1. ASSUME NEW t \in B PROVE \E x \in J : t \in part[x]
      <4>1. <<layer, t.part>> \in J BY <2>1
      <4>2. <<layer, t.part>>[2] = t.part OBVIOUS
      <4>3. t \in part[<<layer, t.part>>] BY <4>1, <4>2 DEF Owned
      <4> QED BY <4>1, <4>3
    <3> QED BY <3>1
  <2>4. ASSUME NEW x \in J PROVE u[x] = Sum(size, part[x]) /\ u[x] \in Nat
    <3> DEFINE e == x[2]  A == SlicedFrom(o, layer, e)
               w == [t \in A |-> Size(SliceOf(e, t).shape)]
    <3>1. e \in Nat /\ v[x] = Params(ToSet(Slices(o, layer, e))) /\ u[x] = v[x] /\ v[x] \in Nat BY <1>5
    <3>2. A = Owned(o, layer, e) /\ part[x] = A BY <1>7 DEF SlicedFrom
    <3>3. \A t \in A : t \in B BY <2>2, <3>2
    <3>4. \A t \in A : SliceOf(e, t).shape = t.shape
      <4>1. \A t \in A : ~(t.part < 0) BY <1>3, <2>1, <3>3
      <4> QED BY <4>1 DEF SliceOf
    <3>5. \A t \in A : size[t] = Size(t.shape) BY <1>1, <3>3
    <3> HIDE DEF e, part, u
    <3>6. A = SlicedFrom(o, layer, e) /\ w = [t \in A |-> Size(SliceOf(e, t).shape)] OBVIOUS
    <3>7. \A t \in A : w[t] = size[t] BY <3>4, <3>5
    <3> HIDE DEF A, w, B
    <3>8. Params(ToSet(Slices(o, layer, e))) = Sum(w, A) BY <3>1, <3>6, SliceParams
    <3>9. IsFiniteSet(A) BY <3>1, <3>6, SlicedFromFacts
    <3>10. Sum(w, A) = Sum(size, A) BY <3>7, <3>9, SumsCoincide
    <3> QED BY <3>1, <3>2, <3>8, <3>10
  <2> HIDE DEF u, part, B, T, n
  <2>5. part \in [J -> SUBSET T]
    <3>1. part = [x \in J |-> part[x]] BY DEF part
    <3> QED BY <1>1, <2>2, <3>1
  <2>6. \A x \in J : IsFiniteSet(part[x])
    <3>1. ASSUME NEW x \in J PROVE IsFiniteSet(part[x])
      <4>1. part[x] \subseteq B BY <2>2
      <4> QED BY <1>2, <4>1, FS_Subset
    <3> QED BY <3>1
  <2>7. PartsApart(J, part)
    <3>1. ASSUME NEW i \in J, NEW j \in J, i # j PROVE part[i] \intersect part[j] = {}
      <4>1. i[2] # j[2] BY <1>5, <3>1
      <4> QED BY <2>2, <4>1
    <3> QED BY <3>1 DEF PartsApart
  <2>8. u \in [J -> Nat] /\ \A x \in J : u[x] = Sum(size, part[x])
    <3>1. u = [x \in J |-> u[x]] BY DEF u
    <3> QED BY <2>4, <3>1
  <2>9. \A t \in T : t \in B <=> \E x \in J : t \in part[x] BY <2>2, <2>3
  <2>10. Sum(size, B) = Sum(u, J)
    <3> DEFINE I == J  s == size
    <3>1. s \in [T -> Nat] /\ IsFiniteSet(I) /\ B \in SUBSET T BY <1>1, <1>2, <1>4
    <3>2. u \in [I -> Nat] /\ \A x \in I : u[x] = Sum(s, part[x]) BY <2>8
    <3>3. part \in [I -> SUBSET T] /\ (\A x \in I : IsFiniteSet(part[x])) /\ PartsApart(I, part)
      BY <2>5, <2>6, <2>7
    <3>4. \A t \in T : t \in B <=> \E x \in I : t \in part[x] BY <2>9
    <3> HIDE DEF I, s
    <3>5. IsFiniteSet(B) /\ Sum(s, B) = Sum(u, I) BY <3>1, <3>2, <3>3, <3>4, SumByParts, SMTT(30)
    <3> QED BY <3>5 DEF I, s
  <2>11. \A x \in J : u[x] = v[x] BY DEF u
  <2>12. Sum(u, J) = Sum(v, J) BY <1>4, <2>11, SumsCoincide
  <2> QED BY <2>10, <2>12 DEF B
<1> QED BY <1>6, <1>7

\* A sum over a table is the sum of its rows.
LEMMA SumOfRows ==
  ASSUME NEW L, IsFiniteSet(L), NEW N, IsFiniteSet(N), NEW X, X = L \X N, NEW v \in [X -> Nat],
         NEW u \in [L -> Nat], \A l \in L : u[l] = Sum(v, {l} \X N)
  PROVE  IsFiniteSet(X) /\ Sum(v, X) = Sum(u, L)
<1> DEFINE part == [l \in L |-> {l} \X N]
<1>1. \A l \in L : part[l] = {l} \X N OBVIOUS
<1>2. part \in [L -> SUBSET X]
  <2>1. \A l \in L : {l} \X N \subseteq X OBVIOUS
  <2> QED BY <2>1
<1>3. \A l \in L : IsFiniteSet(part[l])
  <2>1. ASSUME NEW l \in L PROVE IsFiniteSet({l} \X N)
    <3>1. IsFiniteSet({l}) BY FS_Singleton
    <3> QED BY <3>1, FS_Product
  <2> QED BY <1>1, <2>1
<1>4. PartsApart(L, part) BY <1>1 DEF PartsApart
<1>5. \A x \in X : x \in X <=> \E l \in L : x \in part[l]
  <2>1. ASSUME NEW x \in X PROVE \E l \in L : x \in part[l]
    <3>1. x[1] \in L /\ x \in {x[1]} \X N OBVIOUS
    <3> QED BY <1>1, <3>1
  <2> QED BY <2>1
<1>6. \A l \in L : u[l] = Sum(v, part[l]) BY <1>1
<1>7. X \in SUBSET X OBVIOUS
<1> HIDE DEF part
<1> DEFINE U == X  Y == X  a == v  K == L  c == u
<1>8. /\ a \in [U -> Nat] /\ IsFiniteSet(K) /\ part \in [K -> SUBSET U]
      /\ (\A l \in K : IsFiniteSet(part[l])) /\ PartsApart(K, part)
  BY <1>2, <1>3, <1>4
<1>9. c \in [K -> Nat] /\ \A l \in K : c[l] = Sum(a, part[l]) BY <1>6
<1>10. Y \in SUBSET U /\ \A x \in U : x \in Y <=> \E l \in K : x \in part[l] BY <1>5, <1>7
<1> HIDE DEF U, Y, a, K, c
<1>11. IsFiniteSet(Y) /\ Sum(a, Y) = Sum(c, K) BY <1>8, <1>9, <1>10, SumByParts, SMTT(30)
<1> QED BY <1>11 DEF Y, a, K, c

\* The expert tensors are those of the layers.
LEMMA SumOfLayers ==
  ASSUME NEW o, IsOrder(o), NEW size, size = [t \in Tensors(o) |-> Size(t.shape)],
         NEW L, L = BankLayers(o), NEW u \in [L -> Nat], \A l \in L : u[l] = Sum(size, Bank(o, l))
  PROVE  Sum(size, Of(o, "experts_routed")) = Sum(u, L)
<1> DEFINE T == Tensors(o)
           S == Of(o, "experts_routed")
           part == [l \in L |-> Bank(o, l)]
<1>1. size \in [T -> Nat] /\ IsFiniteSet(S) /\ S \in SUBSET T
  <2>1. S \in SUBSET T BY DEF Of
  <2> HIDE DEF S
  <2> QED BY <2>1, ParamsAreSums
<1>2. IsFiniteSet(L) BY LayersFacts
<1>3. \A l \in L : part[l] = Bank(o, l) /\ Bank(o, l) \subseteq S BY DEF Bank
<1>4. part \in [L -> SUBSET T]
  <2>1. \A l \in L : Bank(o, l) \subseteq T BY <1>1, <1>3
  <2> QED BY <2>1
<1>5. \A l \in L : IsFiniteSet(part[l])
  <2> HIDE DEF part, S
  <2> QED BY <1>1, <1>3, FS_Subset
<1>6. PartsApart(L, part) BY <1>3 DEF PartsApart, Bank
<1>7. \A t \in T : t \in S <=> \E l \in L : t \in part[l]
  <2>1. \A t \in S : t.layer \in L /\ t \in Bank(o, t.layer) BY DEF BankLayers, Bank
  <2> HIDE DEF part, S
  <2> QED BY <1>3, <2>1
<1> DEFINE s == size  I == L
<1>8. /\ s \in [T -> Nat] /\ IsFiniteSet(I) /\ part \in [I -> SUBSET T]
      /\ (\A l \in I : IsFiniteSet(part[l])) /\ PartsApart(I, part)
  BY <1>1, <1>2, <1>4, <1>5, <1>6
<1>9. u \in [I -> Nat] /\ (\A l \in I : u[l] = Sum(s, part[l])) BY <1>3
<1>10. S \in SUBSET T /\ \A t \in T : t \in S <=> \E l \in I : t \in part[l] BY <1>1, <1>7
<1> HIDE DEF s, I, part, S, T
<1>11. IsFiniteSet(S) /\ Sum(s, S) = Sum(u, I) BY <1>8, <1>9, <1>10, SumByParts, SMTT(30)
<1> QED BY <1>11 DEF s, I, S

\* What a full bank has is what the expert tensors have.
LEMMA BankParams ==
  ASSUME NEW o, IsOrder(o), ~Refused(o), o.profile = "full",
         o.experts > 0 \/ BankLayers(o) = {},
         \A t \in Of(o, "experts_routed") : t.part < o.experts,
         NEW size, size = [t \in Tensors(o) |-> Size(t.shape)],
         NEW X, X = ToSet(BankOrder(o)),
         NEW v, v = [x \in X |-> Params(ToSet(Slices(o, x[1], x[2])))]
  PROVE  SumFunction(v) = Sum(size, Of(o, "experts_routed"))
<1> DEFINE L == BankLayers(o)
           N == 0 .. o.experts - 1
           E == Of(o, "experts_routed")
<1>1. SumFunction(v) = Sum(v, X)
  <2>1. DOMAIN v = X OBVIOUS
  <2> QED BY <2>1 DEF SumFunction, Sum
<1>2. X = IF HasExperts(o) THEN Chosen(o) ELSE {}
  <2> DEFINE S == IF HasExperts(o) THEN Chosen(o) ELSE {}
  <2>1. S = IF HasExperts(o) THEN Chosen(o) ELSE {} OBVIOUS
  <2> HIDE DEF S
  <2>2. /\ BankOrder(o) \in Distinct(S) /\ Len(BankOrder(o)) = Cardinality(S)
        /\ ToSet(BankOrder(o)) = S
    BY <2>1, BankOrderFacts
  <2> QED BY <2>1, <2>2
<1>3. CASE ~HasExperts(o)
  <2>1. X = {} /\ L = {} BY <1>2, <1>3 DEF HasExperts
  <2>2. E = {} BY <2>1 DEF BankLayers
  <2>3. Sum(v, {}) = 0 /\ Sum(size, {}) = 0 BY SumOfNone
  <2> QED BY <1>1, <2>1, <2>2, <2>3
<1>4. CASE HasExperts(o)
  <2>1. X = L \X N
    <3>1. Chosen(o) = L \X N BY <1>4, ChosenFacts
    <3> QED BY <1>2, <1>4, <3>1
  <2>2. ~SliceError(o) BY <1>4 DEF Refused
  <2>3. IsFiniteSet(L) BY LayersFacts
  <2>4. IsFiniteSet(N)
    <3>1. 0 \in Int /\ o.experts - 1 \in Int
      <4>1. o.experts \in Nat BY OrderFacts
      <4> QED BY <4>1
    <3> HIDE DEF N
    <3>2. IsFiniteSet(0 .. (o.experts - 1)) BY <3>1, FS_Interval
    <3> QED BY <3>2 DEF N
  <2>5. \A e \in N : e \in Nat BY OrderFacts
  <2>6. ASSUME NEW x \in X PROVE v[x] \in Nat
    <3> DEFINE l == x[1]  e == x[2]
               A == SlicedFrom(o, l, e)
               w == [t \in A |-> Size(SliceOf(e, t).shape)]
    <3>1. l \in BankLayers(o) /\ e \in Nat /\ v[x] = Params(ToSet(Slices(o, l, e))) BY <2>1, <2>5
    <3>2. A = SlicedFrom(o, l, e) /\ w = [t \in A |-> Size(SliceOf(e, t).shape)] OBVIOUS
    <3> HIDE DEF l, e, A, w
    <3>3. w \in [A -> Nat] /\ Params(ToSet(Slices(o, l, e))) = Sum(w, A) BY <2>2, <3>1, <3>2, SliceParams
    <3>4. IsFiniteSet(A) BY <2>2, <3>1, <3>2, SlicedFromFacts
    <3>5. A \in SUBSET A OBVIOUS
    <3>6. Sum(w, A) \in Nat BY <3>3, <3>4, <3>5, SumIsNat
    <3> QED BY <3>1, <3>3, <3>6
  <2>7. v \in [X -> Nat]
    <3>1. v = [x \in X |-> v[x]] OBVIOUS
    <3> QED BY <2>6, <3>1
  <2> DEFINE u == [l \in L |-> Sum(size, Bank(o, l))]
  <2>8. ASSUME NEW l \in L PROVE Sum(size, Bank(o, l)) = Sum(v, {l} \X N) /\ Sum(size, Bank(o, l)) \in Nat
    <3> DEFINE J == {l} \X N  B == Bank(o, l)
    <3>1. J \in SUBSET X /\ J = {l} \X (0 .. o.experts - 1) BY <2>1
    <3>2. \A x \in J : v[x] = Params(ToSet(Slices(o, x[1], x[2]))) BY <3>1
    <3>3. l \in BankLayers(o) OBVIOUS
    <3>4. B \in SUBSET Tensors(o) BY DEF Bank, Of
    <3> HIDE DEF J, L, N, B
    <3>5. Sum(v, J) = Sum(size, Bank(o, l)) BY <2>2, <2>7, <3>1, <3>2, <3>3, LayerParams
    <3>6. size \in [Tensors(o) -> Nat] /\ IsFiniteSet(B) BY <3>4, ParamsAreSums
    <3>7. Sum(size, B) \in Nat BY <3>4, <3>6, SumIsNat
    <3> QED BY <3>5, <3>7 DEF J, B
  <2>9. u \in [L -> Nat] /\ \A l \in L : u[l] = Sum(v, {l} \X N) /\ u[l] = Sum(size, Bank(o, l))
    BY <2>8
  <2>10. L = BankLayers(o) OBVIOUS
  <2> HIDE DEF u, L, N
  <2> DEFINE a == v  Y == X
  <2>11. Y = L \X N /\ a \in [Y -> Nat] /\ \A l \in L : u[l] = Sum(a, {l} \X N) BY <2>1, <2>7, <2>9
  <2> HIDE DEF a, Y
  <2>12. IsFiniteSet(Y) /\ Sum(a, Y) = Sum(u, L) BY <2>3, <2>4, <2>9, <2>11, SumOfRows, SMTT(30)
  <2>13. Sum(size, Of(o, "experts_routed")) = Sum(u, L)
    <3>1. u \in [L -> Nat] BY <2>9
    <3>2. \A l \in L : u[l] = Sum(size, Bank(o, l)) BY <2>9
    <3> QED BY <2>10, <3>1, <3>2, SumOfLayers
  <2> QED BY <1>1, <2>12, <2>13 DEF a, Y
<1> QED BY <1>3, <1>4

LEMMA MatrixSize ==
  ASSUME NEW s \in Shapes, Len(s) = 2 PROVE Size(s) = s[1] * Cols(s)
<1> DEFINE p == SubSeq(s, 1, 1)
<1>1. s \in Seq(Nat \ {0}) /\ s[1] \in Nat BY DEF Shapes
<1>2. p \in Seq(Nat) /\ p # <<>> /\ p[1] = s[1] /\ Tail(p) = <<>> BY <1>1
<1>3. Product(<<>>) = 1
  <2>1. DOMAIN <<>> = 1 .. 0 /\ 0 \in Nat OBVIOUS
  <2>2. Fold("product", <<>>, 1 .. 0) = 1 BY <2>1, FoldOfPrefix DEF FoldBase
  <2>3. Product(<<>>) = Fold("product", <<>>, DOMAIN <<>>) BY ProductIsFold
  <2> QED BY <2>1, <2>2, <2>3
<1>4. Rows(s) = Product(p)
  <2>1. Rows(s) = Product(SubSeq(s, 1, Len(s) - 1)) BY RowsIsProduct
  <2>2. Len(s) - 1 = 1 OBVIOUS
  <2> QED BY <2>1, <2>2
<1> HIDE DEF p
<1>5. Product(p) = p[1] * Product(Tail(p)) BY <1>2, ProductOfHead
<1>6. Rows(s) = s[1]
  <2>1. Product(p) = s[1] * 1 BY <1>2, <1>3, <1>5
  <2>2. s[1] * 1 = s[1] BY <1>1
  <2> QED BY <1>4, <2>1, <2>2
<1> QED BY <1>6 DEF Size

\* What a whole table has is what its shards have.
LEMMA PleParams ==
  ASSUME NEW o, IsOrder(o), o.profile = "full",
         NEW size, size = [t \in Tensors(o) |-> Size(t.shape)],
         NEW D, D = ToSet(PleShards(o)), NEW v, v = [s \in D |-> s.rows * s.width]
  PROVE  SumFunction(v) = Sum(size, Of(o, "ple_table"))
<1> DEFINE P == Of(o, "ple_table")
           d == PleShards(o)
           f == [t \in P |-> CHOOSE s \in D : s.tensor = t.name]
           w == [t \in P |-> size[t]]
<1>1. SumFunction(v) = Sum(v, D)
  <2>1. DOMAIN v = D OBVIOUS
  <2> QED BY <2>1 DEF SumFunction, Sum
<1>2. P \in SUBSET Tensors(o) BY DEF Of
<1>3. size \in [Tensors(o) -> Nat] /\ IsFiniteSet(P)
  <2> HIDE DEF P
  <2> QED BY <1>2, ParamsAreSums
<1>4. /\ Len(d) \in Nat /\ DOMAIN d = 1 .. Len(d)
      /\ \A k \in 1 .. Len(d) : \E t \in P :
           d[k].tensor = t.name /\ d[k].rows = t.shape[1] /\ d[k].width = Cols(t.shape)
      /\ \A i, j \in 1 .. Len(d) : d[i].tensor = d[j].tensor => i = j
      /\ \A t \in P : \E k \in 1 .. Len(d) : d[k].tensor = t.name
  <2> DEFINE e == PleShards(o)
  <2>1. P = Of(o, "ple_table") /\ e = PleShards(o) OBVIOUS
  <2> HIDE DEF P, e
  <2>2. /\ Len(e) \in Nat /\ DOMAIN e = 1 .. Len(e)
        /\ \A k \in 1 .. Len(e) : \E t \in P :
             e[k].tensor = t.name /\ e[k].rows = t.shape[1] /\ e[k].width = Cols(t.shape)
        /\ \A i, j \in 1 .. Len(e) : e[i].tensor = e[j].tensor => i = j
        /\ o.profile = "full" => \A t \in P : \E k \in 1 .. Len(e) : e[k].tensor = t.name
    BY <2>1, PleShardsFacts
  <2> QED BY <2>1, <2>2
<1>5. \A s, t \in P : s.name = t.name => s = t BY <1>2, OrderFacts
<1>6. \A t \in P : t.shape \in Shapes /\ Len(t.shape) = 2 /\ t.shape[1] \in Nat \ {0} /\ Cols(t.shape) \in Nat \ {0}
  BY ShardsFacts
<1>7. \A s \in D : \E k \in 1 .. Len(d) : d[k] = s BY <1>4 DEF ToSet
<1>8. \A k \in 1 .. Len(d) : d[k] \in D BY <1>4 DEF ToSet
<1> HIDE DEF P, d
<1>9. \A s \in D : \E t \in P : s.tensor = t.name /\ s.rows = t.shape[1] /\ s.width = Cols(t.shape)
  BY <1>4, <1>7
<1>10. \A r, s \in D : r.tensor = s.tensor => r = s
  <2>1. ASSUME NEW r \in D, NEW s \in D, r.tensor = s.tensor PROVE r = s
    <3>1. PICK i \in 1 .. Len(d) : d[i] = r BY <1>7
    <3>2. PICK j \in 1 .. Len(d) : d[j] = s BY <1>7
    <3>3. i = j BY <1>4, <2>1, <3>1, <3>2
    <3> QED BY <3>1, <3>2, <3>3
  <2> QED BY <2>1
<1>11. \A t \in P : \E s \in D : s.tensor = t.name BY <1>4, <1>8
<1>12. ASSUME NEW t \in P
       PROVE  f[t] \in D /\ f[t].tensor = t.name /\ v[f[t]] = w[t] /\ w[t] \in Nat
  <2> DEFINE s == CHOOSE s \in D : s.tensor = t.name
  <2>1. s \in D /\ s.tensor = t.name BY <1>11
  <2>2. f[t] = s OBVIOUS
  <2> HIDE DEF s, f
  <2>3. s.rows = t.shape[1] /\ s.width = Cols(t.shape) BY <1>5, <1>9, <2>1
  <2>4. v[s] = t.shape[1] * Cols(t.shape)  BY <2>1, <2>3
  <2>5. size[t] = Size(t.shape) BY <1>2
  <2>6. Size(t.shape) = t.shape[1] * Cols(t.shape) BY <1>6, MatrixSize
  <2>7. size[t] \in Nat BY <1>2, <1>3
  <2> QED BY <2>1, <2>2, <2>4, <2>5, <2>6, <2>7
<1>13. f \in [P -> D]
  <2>1. f = [t \in P |-> f[t]] OBVIOUS
  <2> HIDE DEF f
  <2> QED BY <1>12, <2>1
<1>14. w \in [P -> Nat]
  <2>1. w = [t \in P |-> w[t]] OBVIOUS
  <2> HIDE DEF w
  <2> QED BY <1>12, <2>1
<1>15. \A t \in P : w[t] = size[t] OBVIOUS
<1> HIDE DEF f, w
<1>16. \A s, t \in P : f[s] = f[t] => s = t BY <1>5, <1>12
<1>17. \A s \in D : \E t \in P : f[t] = s BY <1>9, <1>10, <1>12
<1>18. v \in [D -> Nat]
  <2>1. ASSUME NEW s \in D PROVE v[s] \in Nat
    <3>1. PICK t \in P : f[t] = s BY <1>17
    <3> QED BY <1>12, <3>1
  <2>2. v = [s \in D |-> v[s]] OBVIOUS
  <2> QED BY <2>1, <2>2
<1> DEFINE a == v  E == D
<1>19. /\ IsFiniteSet(P) /\ w \in [P -> Nat] /\ a \in [E -> Nat] /\ f \in [P -> E]
       /\ (\A s, t \in P : f[s] = f[t] => s = t) /\ (\A s \in E : \E t \in P : f[t] = s)
       /\ (\A t \in P : a[f[t]] = w[t])
  BY <1>3, <1>12, <1>13, <1>14, <1>16, <1>17, <1>18
<1> HIDE DEF a, E
<1>20. IsFiniteSet(E) /\ Sum(a, E) = Sum(w, P) BY <1>19, SumRenamed, SMTT(60)
<1>21. Sum(w, P) = Sum(size, P) BY <1>3, <1>15, SumsCoincide
<1> QED BY <1>1, <1>20, <1>21 DEF P, a, E

LEMMA PartsAdd ==
  ASSUME NEW U, IsFiniteSet(U), NEW w \in [U -> Nat],
         NEW R \in SUBSET U, NEW S \in SUBSET U, R \intersect S = {}
  PROVE  /\ Sum(w, R) \in Nat /\ Sum(w, S) \in Nat
         /\ Sum(w, R \union S) = Sum(w, R) + Sum(w, S)
<1>1. IsFiniteSet(R) /\ IsFiniteSet(S) BY FS_Subset
<1>2. Sum(w, R \union S) = Sum(w, R) + Sum(w, S) BY <1>1, SumOfUnion
<1>3. Sum(w, R) \in Nat BY <1>1, SumIsNat
<1>4. Sum(w, S) \in Nat BY <1>1, SumIsNat
<1> QED BY <1>2, <1>3, <1>4

\* Nothing of a checkpoint vanishes, and nothing is counted twice.
LEMMA TotalsAddUp ==
  ASSUME NEW o, IsOrder(o), ~Refused(o), o.profile = "full", "text" \in o.features,
         o.experts > 0 \/ BankLayers(o) = {},
         \A t \in Of(o, "experts_routed") : t.part < o.experts
  PROVE  Totals(o).packaged + Totals(o).dropped = Totals(o).source
<1> DEFINE T == Tensors(o)
           K == Kept(o)
           D == ToSet(DenseTensors(o))
           E == Of(o, "experts_routed")
           P == Of(o, "ple_table")
           I == IF HasPle(o) THEN Of(o, "ple_index") ELSE {}
           size == [t \in T |-> Size(t.shape)]
           bank == SumFunction([x \in ToSet(BankOrder(o)) |-> Params(ToSet(Slices(o, x[1], x[2])))])
           table == SumFunction([s \in ToSet(PleShards(o)) |-> s.rows * s.width])
           index == IF HasPle(o) THEN Params(Of(o, "ple_index")) ELSE 0
<1>1. /\ Totals(o).source = Params(T) /\ Totals(o).dropped = Params(T \ K)
      /\ Totals(o).packaged = Params(D) + bank + table + index
  BY DEF Totals
<1>2. D = {t \in K : /\ t.comp \notin {"experts_routed", "ple_table"}
                     /\ t.comp = "ple_index" => ~HasPle(o)}
  <2>1. DenseTensors(o) \in Seq(Tensors(o)) /\ ToSet(DenseTensors(o)) = DenseSet(o) BY DenseTensorsFacts
  <2> QED BY <2>1 DEF DenseSet
<1>3. K = {t \in T : t.cap \in o.features} BY DEF Kept
<1>4. /\ E = {t \in T : t.comp = "experts_routed"} /\ P = {t \in T : t.comp = "ple_table"}
      /\ I = IF HasPle(o) THEN {t \in T : t.comp = "ple_index"} ELSE {}
  BY DEF Of
<1>5. \A t \in T : t.comp \in {"experts_routed", "ple_table", "ple_index"} => t.cap = "text"
  BY DEF IsOrder
<1>6. bank = Sum(size, E)
  <2> DEFINE X == ToSet(BankOrder(o))
             v == [x \in X |-> Params(ToSet(Slices(o, x[1], x[2])))]
  <2>1. bank = SumFunction(v) OBVIOUS
  <2>2. /\ X = ToSet(BankOrder(o)) /\ v = [x \in X |-> Params(ToSet(Slices(o, x[1], x[2])))]
        /\ size = [t \in Tensors(o) |-> Size(t.shape)]
    OBVIOUS
  <2> HIDE DEF X, v, size, bank
  <2>3. SumFunction(v) = Sum(size, Of(o, "experts_routed")) BY <2>2, BankParams
  <2> QED BY <2>1, <2>3
<1>7. table = Sum(size, P)
  <2> DEFINE X == ToSet(PleShards(o))
             v == [s \in X |-> s.rows * s.width]
  <2>1. table = SumFunction(v) OBVIOUS
  <2>2. /\ X = ToSet(PleShards(o)) /\ v = [s \in X |-> s.rows * s.width]
        /\ size = [t \in Tensors(o) |-> Size(t.shape)]
    OBVIOUS
  <2> HIDE DEF X, v, size, table
  <2>3. SumFunction(v) = Sum(size, Of(o, "ple_table")) BY <2>2, PleParams
  <2> QED BY <2>1, <2>3
<1>8. size = [t \in Tensors(o) |-> Size(t.shape)] OBVIOUS
<1> HIDE DEF size, bank, table
<1>9. /\ K \subseteq T /\ D \subseteq T /\ E \subseteq T /\ P \subseteq T /\ I \subseteq T
      /\ D \intersect E = {} /\ (D \union E) \intersect P = {} /\ (D \union E \union P) \intersect I = {}
      /\ K = ((D \union E) \union P) \union I
  <2> HIDE DEF T, K, D, E, P, I
  <2> QED BY <1>2, <1>3, <1>4, <1>5
<1>10. index = Sum(size, I)
  <2>1. CASE HasPle(o)
    <3>1. I \in SUBSET Tensors(o) BY <1>9
    <3> DEFINE S == I
    <3>2. S \in SUBSET Tensors(o) BY <3>1
    <3> HIDE DEF S
    <3>3. size \in [Tensors(o) -> Nat] /\ IsFiniteSet(S) /\ Params(S) = Sum(size, S)
      BY <1>8, <3>2, ParamsAreSums
    <3> QED BY <2>1, <3>3 DEF S
  <2>2. CASE ~HasPle(o)
    <3>1. I = {} /\ index = 0 BY <2>2
    <3> QED BY <3>1, SumOfNone
  <2> QED BY <2>1, <2>2
<1> HIDE DEF K, D, E, P, I, index
<1> DEFINE R == T \ K  DE == D \union E  DEP == DE \union P
<1>11. /\ D \in SUBSET Tensors(o) /\ E \in SUBSET Tensors(o) /\ P \in SUBSET Tensors(o)
       /\ I \in SUBSET Tensors(o) /\ K \in SUBSET Tensors(o) /\ R \in SUBSET Tensors(o)
       /\ DE \in SUBSET Tensors(o) /\ DEP \in SUBSET Tensors(o)
       /\ D \intersect E = {} /\ DE \intersect P = {} /\ DEP \intersect I = {} /\ K \intersect R = {}
       /\ K = DEP \union I /\ T = K \union R
  BY <1>9
<1>12. Params(D) = Sum(size, D) BY <1>8, <1>11, ParamsAreSums
<1>13. Params(T) = Sum(size, T)
  <2>1. T \in SUBSET Tensors(o) OBVIOUS
  <2> HIDE DEF T
  <2>2. size \in [Tensors(o) -> Nat] /\ IsFiniteSet(T) /\ Params(T) = Sum(size, T)
    BY <1>8, <2>1, ParamsAreSums
  <2> QED BY <2>2
<1>14. Params(R) = Sum(size, R)
  <2> HIDE DEF R
  <2> QED BY <1>8, <1>11, ParamsAreSums
<1> DEFINE U == T
<1>a. /\ D \in SUBSET U /\ E \in SUBSET U /\ P \in SUBSET U /\ I \in SUBSET U /\ K \in SUBSET U
      /\ R \in SUBSET U /\ DE \in SUBSET U /\ DEP \in SUBSET U
      /\ D \intersect E = {} /\ DE \intersect P = {} /\ DEP \intersect I = {} /\ K \intersect R = {}
      /\ DE = D \union E /\ DEP = DE \union P /\ K = DEP \union I /\ T = K \union R
  BY <1>11
<1>b. IsFiniteSet(U) /\ size \in [U -> Nat]
  <2>1. T \in SUBSET Tensors(o) OBVIOUS
  <2> HIDE DEF T
  <2>2. size \in [Tensors(o) -> Nat] /\ IsFiniteSet(T) /\ Params(T) = Sum(size, T)
    BY <1>8, <2>1, ParamsAreSums
  <2> QED BY <2>2 DEF T
<1> HIDE DEF U, T
<1>15. /\ Sum(size, D) \in Nat /\ Sum(size, E) \in Nat
       /\ Sum(size, DE) = Sum(size, D) + Sum(size, E)
  <2>1. D \in SUBSET U /\ E \in SUBSET U /\ D \intersect E = {} BY <1>a
  <2> HIDE DEF R, DE, DEP
  <2>2. /\ Sum(size, D) \in Nat /\ Sum(size, E) \in Nat
        /\ Sum(size, D \union E) = Sum(size, D) + Sum(size, E)
    BY <1>b, <2>1, PartsAdd, SMTT(30)
  <2>3. DE = D \union E BY <1>a
  <2> QED BY <2>2, <2>3
<1>16. /\ Sum(size, DE) \in Nat /\ Sum(size, P) \in Nat
       /\ Sum(size, DEP) = Sum(size, DE) + Sum(size, P)
  <2>1. DE \in SUBSET U /\ P \in SUBSET U /\ DE \intersect P = {} BY <1>a
  <2> HIDE DEF R, DE, DEP
  <2>2. /\ Sum(size, DE) \in Nat /\ Sum(size, P) \in Nat
        /\ Sum(size, DE \union P) = Sum(size, DE) + Sum(size, P)
    BY <1>b, <2>1, PartsAdd, SMTT(30)
  <2>3. DEP = DE \union P BY <1>a
  <2> QED BY <2>2, <2>3
<1>17. /\ Sum(size, DEP) \in Nat /\ Sum(size, I) \in Nat
       /\ Sum(size, K) = Sum(size, DEP) + Sum(size, I)
  <2>1. DEP \in SUBSET U /\ I \in SUBSET U /\ DEP \intersect I = {} BY <1>a
  <2> HIDE DEF R, DE, DEP
  <2>2. /\ Sum(size, DEP) \in Nat /\ Sum(size, I) \in Nat
        /\ Sum(size, DEP \union I) = Sum(size, DEP) + Sum(size, I)
    BY <1>b, <2>1, PartsAdd, SMTT(30)
  <2>3. K = DEP \union I BY <1>a
  <2> QED BY <2>2, <2>3
<1>18. /\ Sum(size, K) \in Nat /\ Sum(size, R) \in Nat
       /\ Sum(size, T) = Sum(size, K) + Sum(size, R)
  <2>1. K \in SUBSET U /\ R \in SUBSET U /\ K \intersect R = {} BY <1>a
  <2> HIDE DEF R, DE, DEP
  <2>2. /\ Sum(size, K) \in Nat /\ Sum(size, R) \in Nat
        /\ Sum(size, K \union R) = Sum(size, K) + Sum(size, R)
    BY <1>b, <2>1, PartsAdd, SMTT(30)
  <2>3. T = K \union R BY <1>a
  <2> QED BY <2>2, <2>3
<1>19. /\ Totals(o).source = Sum(size, T) /\ Totals(o).dropped = Sum(size, R)
       /\ Totals(o).packaged = Sum(size, D) + Sum(size, E) + Sum(size, P) + Sum(size, I)
  BY <1>1, <1>6, <1>7, <1>10, <1>12, <1>13, <1>14
<1> HIDE DEF R, DE, DEP, T
<1> QED BY <1>15, <1>16, <1>17, <1>18, <1>19

-----------------------------------------------------------------------------
(* The codec: what a quantizer packs is what a reader unpacks.             *)

\* A code fits into a byte, or the weight is stored as fp16.
Widths == {b \in Nat \ {0} : b <= 8 \/ b >= 16}

LEMMA NarrowWidth == \A bits \in Widths : ~(bits >= 16) => bits \in 1 .. 8
BY DEF Widths

\* A matrix as Matrix makes it: whole groups in a row, one section after the other.
IsMatrix(m) ==
  /\ m.rows \in Nat \ {0} /\ m.cols \in Nat \ {0} /\ m.group \in Nat \ {0} /\ m.cols % m.group = 0
  /\ m.bits \in Widths
  /\ m.spans.codes.at = 0
  /\ m.spans.scales.at = WeightBytes(m.rows * m.cols, m.bits)
  /\ m.spans.zeros.at = m.spans.scales.at
       + (IF m.bits >= 16 THEN 0 ELSE m.rows * (m.cols \div m.group) * MetaBytes)

LEMMA WholeGroups ==
  ASSUME NEW cols \in Nat \ {0}, NEW group \in Nat \ {0}, cols % group = 0, NEW p, p = cols \div group
  PROVE  p \in Nat \ {0} /\ cols = group * p /\ cols = p * group /\ CeilDiv(cols, group) = p
<1>1. cols \in Nat /\ cols \in Int OBVIOUS
<1>2. p \in Nat BY <1>1, DivIsNat
<1>3. cols = group * p + (cols % group) BY <1>1, DivFacts
<1>4. group * p \in Nat /\ group * p = p * group BY <1>2, TimesNat, TimesType
<1>5. cols = group * p BY <1>3, <1>4
<1>6. p # 0
  <2>1. p = 0 => group * p = 0 OBVIOUS
  <2> QED BY <1>5, <2>1
<1>7. CeilDiv(cols, group) = p
  <2> DEFINE r == group - 1
  <2>1. r \in 0 .. group - 1 /\ p \in Int BY <1>2
  <2>2. cols + group - 1 = group * p + r BY <1>4, <1>5
  <2> HIDE DEF r
  <2>3. (group * p + r) \div group = p BY <2>1, DivIsUnique
  <2> QED BY <2>2, <2>3 DEF CeilDiv
<1> QED BY <1>2, <1>4, <1>5, <1>6, <1>7

\* The group a row is divided into divides it.
LEMMA GroupDivides ==
  ASSUME NEW in \in Nat \ {0}, NEW group \in Int
  PROVE  in % ResolveGroup(in, group) = 0
<1>1. CASE group <= 0 \/ group >= in
  <2>1. 0 \in 0 .. in - 1 /\ 1 \in Int OBVIOUS
  <2>2. (in * 1 + 0) % in = 0 BY <2>1, DivIsUnique
  <2>3. in * 1 + 0 = in OBVIOUS
  <2> QED BY <1>1, <2>2, <2>3 DEF ResolveGroup
<1>2. CASE ~(group <= 0 \/ group >= in)
  <2> DEFINE S == {g \in 1 .. group : in % g = 0}
  <2>1. 1 \in S
    <3>1. 0 \in 0 .. 1 - 1 /\ in \in Int OBVIOUS
    <3>2. (1 * in + 0) % 1 = 0 BY <3>1, DivIsUnique
    <3>3. 1 * in + 0 = in OBVIOUS
    <3> QED BY <1>2, <3>2, <3>3
  <2>2. \E g \in S : \A h \in S : g >= h
    <3> DEFINE N == {group - g : g \in S}
    <3>1. N \in SUBSET Nat /\ N # {} BY <2>1
    <3>2. PICK k \in N : \A j \in N : k <= j
      <4> HIDE DEF N
      <4> QED BY <3>1, LeastNumber
    <3>3. PICK g \in S : k = group - g OBVIOUS
    <3>4. \A h \in S : g >= h
      <4>1. ASSUME NEW h \in S PROVE g >= h
        <5>1. group - h \in N OBVIOUS
        <5>2. group - g <= group - h BY <3>2, <3>3, <5>1
        <5>3. g \in Nat /\ h \in Nat OBVIOUS
        <5> HIDE DEF S, N
        <5> QED BY <5>2, <5>3
      <4> QED BY <4>1
    <3> QED BY <3>4
  <2>3. Max(S) \in S BY <2>2 DEF Max
  <2>4. ResolveGroup(in, group) = Max(S) BY <1>2 DEF ResolveGroup
  <2> QED BY <2>3, <2>4
<1> QED BY <1>1, <1>2

LEMMA GroupIsResolved ==
  ASSUME NEW in \in Nat \ {0}, NEW group \in Nat \ {0}, in % group = 0
  PROVE  ResolveGroup(in, group) = group
<1> DEFINE p == in \div group
           S == {g \in 1 .. group : in % g = 0}
<1>1. p = in \div group OBVIOUS
<1> HIDE DEF p
<1>2. p \in Nat \ {0} /\ in = group * p BY <1>1, WholeGroups
<1>3. group <= in
  <2>1. group * 1 <= group * p BY <1>2, TimesMonotone
  <2> QED BY <1>2, <2>1
<1>4. CASE group = in BY <1>4 DEF ResolveGroup
<1>5. CASE group < in
  <2>1. ResolveGroup(in, group) = Max(S) BY <1>5 DEF ResolveGroup
  <2>2. group \in S /\ \A g \in S : g <= group /\ g \in Nat OBVIOUS
  <2> HIDE DEF S
  <2>3. Max(S) = group
    <3>1. \E g \in S : \A h \in S : g >= h BY <2>2
    <3> DEFINE x == Max(S)
    <3>2. x \in S /\ \A h \in S : x >= h BY <3>1 DEF Max
    <3> HIDE DEF x
    <3>3. x <= group /\ x >= group /\ x \in Nat BY <2>2, <3>2
    <3>4. x = group BY <3>3
    <3> QED BY <3>4 DEF x
  <2> QED BY <2>1, <2>3
<1> QED BY <1>3, <1>4, <1>5

\* What plan_package lays out is such a matrix.
LEMMA MatricesAreMatrices ==
  ASSUME NEW shape \in Shapes, NEW entry \in Precisions, entry.bits \in Widths,
         NEW m, m = Matrix(shape, entry)
  PROVE  IsMatrix(m) /\ m.rows * m.cols = Size(shape)
<1> DEFINE R == Rows(shape)  C == Cols(shape)  g == ResolveGroup(C, entry.group)  p == C \div g
<1>1. R \in Nat \ {0} /\ C \in Nat \ {0} BY ShapeFacts
<1>2. entry.group \in Int BY DEF Precisions
<1>3. g \in Nat \ {0} /\ C % g = 0
  <2> HIDE DEF C
  <2> QED BY <1>1, <1>2, GroupFacts, GroupDivides
<1>4. m.rows = R /\ m.cols = C /\ m.group = g /\ m.bits = entry.bits
      /\ m.spans = Spans(R, C, entry.bits, g, entry.sym)
  <2>1. m = [rows |-> R, cols |-> C, bits |-> entry.bits, group |-> g, sym |-> entry.sym,
             spans |-> Spans(R, C, entry.bits, g, entry.sym)]
    BY DEF Matrix
  <2> HIDE DEF R, C, g
  <2> QED BY <2>1
<1>11. ResolveGroup(C, g) = g
  <2> HIDE DEF C, g
  <2> QED BY <1>1, <1>3, GroupIsResolved
<1>5. /\ m.spans.codes.at = 0
      /\ m.spans.scales.at
           = WeightBytes(R * (IF entry.bits >= 16 THEN C ELSE CeilDiv(C, g) * g), entry.bits)
      /\ m.spans.zeros.at = m.spans.scales.at
           + (IF entry.bits >= 16 THEN 0 ELSE R * CeilDiv(C, g) * MetaBytes)
  BY <1>4, <1>11 DEF Spans
<1>6. Size(shape) = R * C BY DEF Size
<1>7. p = C \div g OBVIOUS
<1> HIDE DEF R, C, g, p
<1>8. p \in Nat \ {0} /\ C = g * p /\ C = p * g /\ CeilDiv(C, g) = p BY <1>1, <1>3, <1>7, WholeGroups
<1>9. R * (IF entry.bits >= 16 THEN C ELSE CeilDiv(C, g) * g) = R * C BY <1>8
<1>10. /\ m.spans.scales.at = WeightBytes(m.rows * m.cols, m.bits)
       /\ m.spans.zeros.at = m.spans.scales.at
            + (IF m.bits >= 16 THEN 0 ELSE m.rows * (m.cols \div m.group) * MetaBytes)
  BY <1>4, <1>5, <1>7, <1>8, <1>9
<1> QED BY <1>1, <1>3, <1>4, <1>5, <1>6, <1>10 DEF IsMatrix

\* A weight's place in its row is that in the matrix.
LEMMA FlatIsPlace ==
  ASSUME NEW m, IsMatrix(m), NEW k \in 0 .. m.rows * m.cols - 1, NEW tensor, NEW first
  PROVE  Weight(tensor, first, Flat(m, k)) = <<tensor, first + k>>
<1> DEFINE R == m.rows  C == m.cols  g == m.group  p == C \div g  q == k \div C  c == k % C
<1>1. R \in Nat \ {0} /\ C \in Nat \ {0} /\ g \in Nat \ {0} /\ C % g = 0 BY DEF IsMatrix
<1>2. p = C \div g /\ Flat(m, k) = IF k >= R * (CeilDiv(C, g) * g) \/ k % (CeilDiv(C, g) * g) >= C
                                  THEN -1 ELSE (k \div (CeilDiv(C, g) * g)) * C + (k % (CeilDiv(C, g) * g))
  BY DEF Flat
<1>3. k \in 0 .. R * C - 1 OBVIOUS
<1> HIDE DEF R, C, g, p
<1>4. CeilDiv(C, g) = p /\ C = p * g BY <1>1, <1>2, WholeGroups
<1>5. R * C \in Nat BY <1>1, TimesNat
<1>6. k \in Nat /\ k < R * C BY <1>3, <1>5
<1>7. q \in Nat /\ c \in 0 .. C - 1 /\ k = C * q + c
  <2>1. q \in Nat BY <1>1, <1>6, DivIsNat
  <2>2. k \in Int BY <1>6
  <2>3. c \in 0 .. C - 1 /\ k = C * q + c BY <1>1, <2>2, DivFacts
  <2> QED BY <2>1, <2>3
<1>11. q = k \div C /\ c = k % C OBVIOUS
<1> HIDE DEF q, c
<1>8. Flat(m, k) = q * C + c
  <2>1. CeilDiv(C, g) * g = C BY <1>4
  <2>2. Flat(m, k) = IF k >= R * C \/ c >= C THEN -1 ELSE q * C + c BY <1>2, <1>11, <2>1
  <2>3. ~(k >= R * C) /\ ~(c >= C) BY <1>1, <1>5, <1>6, <1>7
  <2> QED BY <2>2, <2>3
<1>9. q * C = C * q BY <1>1, <1>7
<1>10. Flat(m, k) = k BY <1>7, <1>8, <1>9
<1> QED BY <1>6, <1>10 DEF Weight

\* Codes to a byte: the byte of a code and its place in it.
LEMMA CodePlace ==
  ASSUME NEW n \in Nat \ {0}, NEW bits \in 1 .. 8, NEW k \in 0 .. n - 1
  PROVE  LET P == PerByte(bits)
         IN  /\ P \in Nat \ {0} /\ k \div P \in Nat /\ k % P \in 0 .. P - 1
             /\ (k \div P) + 1 \in 1 .. PackedBytes(n, bits) /\ k = P * (k \div P) + (k % P)
<1> DEFINE P == PerByte(bits)
<1>0. P = PerByte(bits) OBVIOUS
<1> HIDE DEF P
<1>1. P \in Nat \ {0}
  <2>1. 8 \div bits \in Nat BY DivIsNat
  <2>2. 8 = bits * (8 \div bits) + (8 % bits) /\ 8 % bits \in 0 .. bits - 1
    <3>1. 8 \in Int /\ bits \in Nat \ {0} OBVIOUS
    <3> QED BY <3>1, DivFacts
  <2>3. 8 \div bits # 0
    <3> SUFFICES ASSUME 8 \div bits = 0 PROVE FALSE OBVIOUS
    <3>1. bits * (8 \div bits) = 0 OBVIOUS
    <3> QED BY <2>2, <3>1
  <2> QED BY <1>0, <2>1, <2>3 DEF PerByte
<1>2. k \in Nat /\ k \in Int OBVIOUS
<1> DEFINE q == k \div P  r == k % P
<1>3. q \in Nat BY <1>1, <1>2, DivIsNat
<1>4. r \in 0 .. P - 1 /\ k = P * q + r BY <1>1, <1>2, DivFacts
<1> HIDE DEF q, r
<1>5. q + 1 \in 1 .. PackedBytes(n, bits)
  <2>1. CASE bits = 8
    <3>1. P = 1 BY <1>0, <2>1 DEF PerByte
    <3>2. PackedBytes(n, bits) = n
      <4>1. (n * 8 + 8 - 1) \div 8 = n OBVIOUS
      <4> QED BY <2>1, <4>1 DEF PackedBytes, CeilDiv
    <3>3. 1 * q = q BY <1>3
    <3> QED BY <1>3, <1>4, <3>1, <3>2, <3>3
  <2>2. CASE bits < 8
    <3> DEFINE d == CeilDiv(n, P)
    <3>1. PackedBytes(n, bits) = d BY <1>0, <2>2 DEF PackedBytes
    <3>2. d \in Nat /\ n <= P * d BY <1>1, CeilDivFacts
    <3> HIDE DEF d
    <3>3. ~(d <= q)
      <4> SUFFICES ASSUME d <= q PROVE FALSE OBVIOUS
      <4>1. P * d <= P * q BY <1>1, <1>3, <3>2, TimesMonotone
      <4>2. P * d \in Nat /\ P * q \in Nat BY <1>1, <1>3, <3>2, TimesNat
      <4> QED BY <1>1, <1>4, <3>2, <4>1, <4>2
    <3> QED BY <1>3, <3>1, <3>2, <3>3
  <2> QED BY <2>1, <2>2
<1>6. /\ k \div P \in Nat /\ k % P \in 0 .. P - 1
      /\ (k \div P) + 1 \in 1 .. PackedBytes(n, bits) /\ k = P * (k \div P) + (k % P)
  BY <1>3, <1>4, <1>5 DEF q, r
<1> QED BY <1>1, <1>6, Zenon DEF P

\* Groups of a matrix: the group of a weight and its place in it.
IsPlaced(height, cols, group, r, c) ==
  LET p == cols \div group  k == r * cols + c  g == r * p + (c \div group)
  IN  /\ k \in 0 .. height * cols - 1 /\ g \in 0 .. height * p - 1
      /\ c % group \in 0 .. group - 1 /\ k = g * group + (c % group)

LEMMA GroupPlace ==
  ASSUME NEW height \in Nat \ {0}, NEW cols \in Nat \ {0}, NEW group \in Nat \ {0}, cols % group = 0,
         NEW r \in 0 .. height - 1, NEW c \in 0 .. cols - 1
  PROVE  IsPlaced(height, cols, group, r, c)
<1> DEFINE p == cols \div group  k == r * cols + c  g == r * p + (c \div group)
<1>0. p = cols \div group /\ k = r * cols + c /\ g = r * p + (c \div group) OBVIOUS
<1> HIDE DEF p, k, g
<1>1. p \in Nat \ {0} /\ cols = group * p /\ cols = p * group
  <2>1. p = cols \div group /\ cols % group = 0 BY <1>0
  <2> QED BY <2>1, WholeGroups
<1> DEFINE d == c \div group  e == c % group
<1>2. c \in Nat /\ c \in Int OBVIOUS
<1>3. d \in Nat BY <1>2, DivIsNat
<1>4. e \in 0 .. group - 1 /\ c = group * d + e BY <1>2, DivFacts
<1>5. g = r * p + d /\ k = r * cols + c BY <1>0
<1> HIDE DEF d, e
<1>6. d < p
  <2> SUFFICES ASSUME p <= d PROVE FALSE BY <1>1, <1>3
  <2>1. group * p <= group * d BY <1>1, <1>3, TimesMonotone
  <2>2. group * p \in Nat /\ group * d \in Nat BY <1>1, <1>3, TimesNat
  <2> QED BY <1>1, <1>4, <2>1, <2>2
<1>7. r \in Nat /\ r + 1 <= height OBVIOUS
<1>8. k \in 0 .. height * cols - 1
  <2>1. cols * (r + 1) <= cols * height BY <1>7, TimesMonotone
  <2>2. cols * (r + 1) = r * cols + cols /\ cols * height = height * cols /\ r * cols \in Nat BY <1>7
  <2> QED BY <1>2, <1>5, <2>1, <2>2
<1>9. g \in 0 .. height * p - 1
  <2>1. p * (r + 1) <= p * height BY <1>1, <1>7, TimesMonotone
  <2>2. \A x, y \in Nat : x * (y + 1) = y * x + x /\ x * y = y * x OBVIOUS
  <2>4. p * (r + 1) = r * p + p /\ p * height = height * p BY <1>1, <1>7, <2>2
  <2>5. r * p \in Nat BY <1>1, <1>7, TimesNat
  <2> QED BY <1>1, <1>3, <1>5, <1>6, <2>1, <2>4, <2>5
<1>10. k = g * group + e
  <2>1. \A x, y, z, w \in Nat : (x * y + w) * z = x * (y * z) + z * w OBVIOUS
  <2>2. g * group = r * (p * group) + group * d BY <1>1, <1>3, <1>5, <1>7, <2>1
  <2>3. g * group = r * cols + group * d BY <1>1, <2>2
  <2>4. r * cols \in Nat /\ group * d \in Nat BY <1>3, <1>7, TimesNat
  <2> QED BY <1>4, <1>5, <2>3, <2>4
<1>11. c % group \in 0 .. group - 1 /\ k = g * group + (c % group) BY <1>4, <1>10 DEF e
<1> QED BY <1>8, <1>9, <1>11, Zenon DEF IsPlaced, p, k, g

LEMMA FunctionIsSeq ==
  ASSUME NEW S, NEW n \in Nat, NEW f \in [1 .. n -> S]
  PROVE  f \in Seq(S) /\ Len(f) = n
<1>1. f \in Seq(S) BY SeqDef
<1>2. DOMAIN f = 1 .. n /\ Len(f) \in Nat /\ DOMAIN f = 1 .. Len(f) BY <1>1, LenProperties
<1>3. Len(f) = n BY <1>2
<1> QED BY <1>1, <1>3

\* Where the elements of three sequences, one after the other, are.
AreJoined(s, l, a, m, b, n, c) ==
  /\ DOMAIN s = 1 .. l + m + n
  /\ \A i \in 1 .. l : s[i] = a[i]
  /\ \A i \in 1 .. m : s[l + i] = b[i]
  /\ \A i \in 1 .. n : s[l + m + i] = c[i]

LEMMA ThreeJoined ==
  ASSUME NEW S, NEW l \in Nat, NEW m \in Nat, NEW n \in Nat,
         NEW a \in [1 .. l -> S], NEW b \in [1 .. m -> S], NEW c \in [1 .. n -> S]
  PROVE  AreJoined((a \o b) \o c, l, a, m, b, n, c)
<1> DEFINE ab == a \o b
           s == ab \o c
<1>1. a \in Seq(S) /\ Len(a) = l BY FunctionIsSeq
<1>2. b \in Seq(S) /\ Len(b) = m BY FunctionIsSeq
<1>3. c \in Seq(S) /\ Len(c) = n BY FunctionIsSeq
<1>0. s = ab \o c OBVIOUS
<1>4. /\ ab \in Seq(S) /\ Len(ab) = l + m
      /\ \A i \in 1 .. l + m : ab[i] = IF i <= l THEN a[i] ELSE b[i - l]
  BY <1>1, <1>2, ConcatProperties
<1> HIDE DEF ab, s
<1>5. /\ s \in Seq(S) /\ Len(s) = l + m + n
      /\ \A i \in 1 .. l + m + n : s[i] = IF i <= l + m THEN ab[i] ELSE c[i - (l + m)]
  <2>1. c \in Seq(S) /\ Len(c) = n /\ ab \in Seq(S) /\ Len(ab) = l + m BY <1>3, <1>4
  <2>2. /\ ab \o c \in Seq(S) /\ Len(ab \o c) = Len(ab) + Len(c)
        /\ \A i \in 1 .. Len(ab) + Len(c) : (ab \o c)[i] = IF i <= Len(ab) THEN ab[i] ELSE c[i - Len(ab)]
    BY <2>1, ConcatProperties
  <2> QED BY <1>0, <2>1, <2>2
<1>6. DOMAIN s = 1 .. l + m + n BY <1>5
<1>7. \A i \in 1 .. l : s[i] = a[i]
  <2> SUFFICES ASSUME NEW i \in 1 .. l PROVE s[i] = a[i] OBVIOUS
  <2>1. i \in 1 .. l + m /\ i \in 1 .. l + m + n /\ i <= l /\ i <= l + m OBVIOUS
  <2> QED BY <1>4, <1>5, <2>1
<1>8. \A i \in 1 .. m : s[l + i] = b[i]
  <2> SUFFICES ASSUME NEW i \in 1 .. m PROVE s[l + i] = b[i] OBVIOUS
  <2>1. /\ l + i \in 1 .. l + m /\ l + i \in 1 .. l + m + n
        /\ ~(l + i <= l) /\ l + i <= l + m /\ l + i - l = i
    OBVIOUS
  <2> QED BY <1>4, <1>5, <2>1
<1>9. \A i \in 1 .. n : s[l + m + i] = c[i]
  <2> SUFFICES ASSUME NEW i \in 1 .. n PROVE s[l + m + i] = c[i] OBVIOUS
  <2> DEFINE j == l + m + i
  <2>1. j \in 1 .. l + m + n /\ ~(j <= l + m) /\ j - (l + m) = i OBVIOUS
  <2> HIDE DEF j
  <2>2. s[j] = c[j - (l + m)] BY <1>5, <2>1
  <2> QED BY <2>1, <2>2 DEF j
<1> QED BY <1>6, <1>7, <1>8, <1>9 DEF AreJoined, s, ab

\* A payload has these bytes from an offset on.
Holds(payload, base, bytes) ==
  \A i \in DOMAIN bytes : base + i \in DOMAIN payload /\ payload[base + i] = bytes[i]

NumberCount(m, kind) ==
  IF m.bits >= 16 \/ (kind = "zeros" /\ m.sym) THEN 0 ELSE m.rows * (m.cols \div m.group)

\* What a quantizer packs, section after section: l bytes of codes, x scales, y zero points.
SectionsOf(m, tensor, first, l, x, y) ==
  LET a == Codes(tensor, first, m)
      b == Numbers("scales", tensor, first, m)
      c == Numbers("zeros", tensor, first, m)
  IN  /\ DOMAIN a = 1 .. l /\ DOMAIN b = 1 .. x * 2 /\ DOMAIN c = 1 .. y * 2
      /\ l \in Nat /\ x \in Nat /\ y \in Nat
      /\ AreJoined(Encode(tensor, first, m), l, a, x * 2, b, y * 2, c)

\* Two bytes for a weight that is stored as it is.
LEMMA StoredBytes ==
  ASSUME NEW m, IsMatrix(m), m.bits >= 16 PROVE WeightBytes(m.rows * m.cols, m.bits) = 2 * m.rows * m.cols
<1>1. 2 * (m.rows * m.cols) = 2 * m.rows * m.cols BY DEF IsMatrix
<1> QED BY <1>1 DEF WeightBytes

LEMMA Sections ==
  ASSUME NEW m, IsMatrix(m), NEW tensor, NEW first
  PROVE  SectionsOf(m, tensor, first, WeightBytes(m.rows * m.cols, m.bits),
                    NumberCount(m, "scales"), NumberCount(m, "zeros"))
<1> DEFINE R == m.rows  C == m.cols  g == m.group  p == C \div g
           l == WeightBytes(R * C, m.bits)
           x == NumberCount(m, "scales")  y == NumberCount(m, "zeros")
           a == Codes(tensor, first, m)
           b == Numbers("scales", tensor, first, m)
           c == Numbers("zeros", tensor, first, m)
<1>1. R \in Nat \ {0} /\ C \in Nat \ {0} /\ g \in Nat \ {0} /\ C % g = 0 /\ m.bits \in Nat \ {0}
  BY DEF IsMatrix, Widths
<1>2. CeilDiv(C, g) = p /\ C = p * g /\ p \in Nat \ {0}
  <2>1. p = C \div g OBVIOUS
  <2> HIDE DEF p, C, g
  <2> QED BY <1>1, <2>1, WholeGroups
<1>3. R * p * g = R * C
  <2> HIDE DEF R, C, g, p
  <2>1. \A u, v, w \in Nat : u * v * w = u * (v * w) OBVIOUS
  <2> QED BY <1>1, <1>2, <2>1
<1>4. l \in Nat
  <2> HIDE DEF R, C
  <2>1. R * C \in Nat \ {0} BY <1>1
  <2> QED BY <1>1, <2>1, WeightFacts
<1>5. R * p \in Nat
  <2> HIDE DEF R, p
  <2> QED BY <1>1, <1>2, TimesNat
<1>6. x \in Nat /\ y \in Nat BY <1>5 DEF NumberCount
<1>7. DOMAIN a = 1 .. l /\ a = [i \in 1 .. l |-> a[i]]
  <2>1. R * CeilDiv(C, g) * g = R * C BY <1>2, <1>3
  <2>2. CASE m.bits >= 16
    <3>1. l = 2 * R * C BY <2>2, StoredBytes
    <3>2. a = [j \in 1 .. 2 * R * C |-> <<"packed", {Weight(tensor, first, (j - 1) \div 2)}, (j - 1) % 2>>]
      BY <2>2 DEF Codes
    <3> HIDE DEF l, a
    <3> QED BY <3>1, <3>2
  <2>3. CASE ~(m.bits >= 16)
    <3>1. a = [j \in 1 .. l |-> <<"codes", [i \in 1 .. PerByte(m.bits) |->
                 Weight(tensor, first, Flat(m, ((j - 1) * PerByte(m.bits)) + i - 1))], 0>>]
      BY <2>1, <2>3 DEF Codes, WeightBytes
    <3> HIDE DEF l, a
    <3> QED BY <3>1
  <2> QED BY <2>2, <2>3
<1>8. DOMAIN b = 1 .. x * 2 /\ b = [i \in 1 .. x * 2 |-> b[i]]
  BY <1>2 DEF Numbers, NumberCount, MetaBytes
<1>9. DOMAIN c = 1 .. y * 2 /\ c = [i \in 1 .. y * 2 |-> c[i]]
  BY <1>2 DEF Numbers, NumberCount, MetaBytes
<1>10. Encode(tensor, first, m) = (a \o b) \o c BY DEF Encode
<1> HIDE DEF a, b, c, x, y, l
<1>11. x * 2 \in Nat /\ y * 2 \in Nat BY <1>6
<1>12. AreJoined((a \o b) \o c, l, a, x * 2, b, y * 2, c)
  <2>2. a = [i \in 1 .. l |-> a[i]] /\ b = [i \in 1 .. x * 2 |-> b[i]] /\ c = [i \in 1 .. y * 2 |-> c[i]]
    BY <1>7, <1>8, <1>9
  <2> DEFINE u == x * 2  v == y * 2
  <2>3. u \in Nat /\ v \in Nat BY <1>11
  <2> HIDE DEF u, v
  <2>4. a = [i \in 1 .. l |-> a[i]] /\ b = [i \in 1 .. u |-> b[i]] /\ c = [i \in 1 .. v |-> c[i]]
    BY <2>2 DEF u, v
  <2> DEFINE S == {a[i] : i \in 1 .. l} \union {b[i] : i \in 1 .. u} \union {c[i] : i \in 1 .. v}
  <2>6. a \in [1 .. l -> S] /\ b \in [1 .. u -> S] /\ c \in [1 .. v -> S]
    <3> DEFINE f == [i \in 1 .. l |-> a[i]]  g1 == [i \in 1 .. u |-> b[i]]  h == [i \in 1 .. v |-> c[i]]
    <3>1. f \in [1 .. l -> S] /\ g1 \in [1 .. u -> S] /\ h \in [1 .. v -> S] OBVIOUS
    <3>2. f = a /\ g1 = b /\ h = c BY <2>4
    <3> HIDE DEF S, f, g1, h
    <3> QED BY <3>1, <3>2
  <2> HIDE DEF S
  <2>7. AreJoined((a \o b) \o c, l, a, u, b, v, c) BY <1>4, <2>3, <2>6, ThreeJoined, Zenon
  <2> QED BY <2>7 DEF u, v
<1>13. DOMAIN a = 1 .. l /\ DOMAIN b = 1 .. x * 2 /\ DOMAIN c = 1 .. y * 2 BY <1>7, <1>8, <1>9
<1>14. AreJoined(Encode(tensor, first, m), l, a, x * 2, b, y * 2, c) BY <1>10, <1>12
<1> QED BY <1>4, <1>6, <1>13, <1>14 DEF SectionsOf, a, b, c, x, y, l

\* The two halves of a number.
LEMMA HalvesRead ==
  ASSUME NEW payload, NEW at \in Int, NEW kind, NEW content,
         at + 1 \in DOMAIN payload, payload[at + 1] = <<kind, content, 0>>,
         at + 2 \in DOMAIN payload, payload[at + 2] = <<kind, content, 1>>
  PROVE  NumberAt(payload, at, kind) = content
<1>1. CellAt(payload, at) = <<kind, content, 0>> BY DEF CellAt
<1>2. at + 1 + 1 = at + 2 OBVIOUS
<1>3. CellAt(payload, at + 1) = <<kind, content, 1>> BY <1>2 DEF CellAt
<1> DEFINE low == CellAt(payload, at)  high == CellAt(payload, at + 1)
<1>4. low[1] = kind /\ low[2] = content /\ low[3] = 0 BY <1>1
<1>5. high[1] = kind /\ high = <<kind, low[2], 1>> BY <1>1, <1>3
<1>6. NumberAt(payload, at, kind)
        = IF low[1] = kind /\ high[1] = kind /\ low[3] = 0 /\ high = <<kind, low[2], 1>>
          THEN low[2] ELSE {}
  BY DEF NumberAt
<1> HIDE DEF low, high
<1> QED BY <1>4, <1>5, <1>6

\* Halves in a section: the number i of a section begins at the byte 2 * i.
LEMMA HalvesOfSection ==
  ASSUME NEW x \in Nat, NEW i \in 0 .. x - 1
  PROVE  /\ 2 * i + 1 \in 1 .. x * 2 /\ 2 * i + 2 \in 1 .. x * 2
         /\ (2 * i + 1 - 1) \div 2 = i /\ (2 * i + 1 - 1) % 2 = 0
         /\ (2 * i + 2 - 1) \div 2 = i /\ (2 * i + 2 - 1) % 2 = 1
OBVIOUS

IsCodeAt(payload, at, bits, k, weight) ==
  LET cell == CellAt(payload, at)
  IN  cell[1] = "codes" /\ cell[2][(k % PerByte(bits)) + 1] = weight

\* The code of a weight is found where its place in the matrix says.
LEMMA CodeUnpacked ==
  ASSUME NEW m, IsMatrix(m), m.bits \in 1 .. 8, NEW tensor, NEW first,
         NEW payload, NEW base \in Nat, Holds(payload, base, Encode(tensor, first, m)),
         NEW k \in 0 .. m.rows * m.cols - 1
  PROVE  IsCodeAt(payload, base + (k \div PerByte(m.bits)), m.bits, k, <<tensor, first + k>>)
<1> DEFINE P == PerByte(m.bits)
           cell == CellAt(payload, base + (k \div P))
<1>0. P = PerByte(m.bits) /\ cell = CellAt(payload, base + (k \div P)) OBVIOUS
<1> HIDE DEF P, cell
<1> DEFINE bytes == Encode(tensor, first, m)
           l == WeightBytes(m.rows * m.cols, m.bits)
           a == Codes(tensor, first, m)
           n == m.rows * m.cols  q == k \div P  r == k % P  j == q + 1
           content == [i \in 1 .. P |-> Weight(tensor, first, Flat(m, ((j - 1) * P) + i - 1))]
<1>1. n \in Nat \ {0} BY DEF IsMatrix
<1>2. /\ P \in Nat \ {0} /\ q \in Nat /\ r \in 0 .. P - 1
      /\ q + 1 \in 1 .. l /\ k = P * q + r
  <2>1. n = m.rows * m.cols /\ q = k \div P /\ r = k % P /\ l = PackedBytes(n, m.bits)
    BY DEF WeightBytes
  <2>2. k \in 0 .. n - 1 OBVIOUS
  <2> HIDE DEF n, q, r, l
  <2>3. /\ P \in Nat \ {0} /\ k \div P \in Nat /\ k % P \in 0 .. P - 1
        /\ (k \div P) + 1 \in 1 .. PackedBytes(n, m.bits) /\ k = P * (k \div P) + (k % P)
    BY <1>0, <1>1, <2>2, CodePlace
  <2> QED BY <2>1, <2>3
<1>3. DOMAIN a = 1 .. l /\ \A i \in DOMAIN a : i \in DOMAIN bytes /\ bytes[i] = a[i]
  <2> DEFINE x == NumberCount(m, "scales")  y == NumberCount(m, "zeros")
  <2>0. SectionsOf(m, tensor, first, l, x, y) BY Sections
  <2>1. /\ DOMAIN bytes = 1 .. l + x * 2 + y * 2 /\ DOMAIN a = 1 .. l
        /\ l \in Nat /\ x \in Nat /\ y \in Nat
        /\ \A i \in 1 .. l : bytes[i] = a[i]
    BY <2>0, Zenon DEF SectionsOf, AreJoined
  <2> HIDE DEF l, x, y, a, bytes
  <2>2. 1 .. l \subseteq 1 .. l + x * 2 + y * 2 BY <2>1
  <2> QED BY <2>1, <2>2
<1> HIDE DEF j
<1>4. a[j] = <<"codes", content, 0>>
  <2>1. ~(m.bits >= 16) OBVIOUS
  <2>3. j \in DOMAIN a BY <1>2, <1>3 DEF j
  <2>4. a[j] = IF m.bits >= 16
               THEN <<"packed", {Weight(tensor, first, (j - 1) \div 2)}, (j - 1) % 2>>
               ELSE <<"codes", [i \in 1 .. PerByte(m.bits) |->
                       Weight(tensor, first, Flat(m, ((j - 1) * PerByte(m.bits)) + i - 1))], 0>>
    BY <2>3 DEF Codes
  <2>5. a[j] = <<"codes", [i \in 1 .. P |-> Weight(tensor, first, Flat(m, ((j - 1) * P) + i - 1))], 0>>
    BY <1>0, <2>1, <2>4
  <2> QED BY <2>5
<1>5. base + q + 1 = base + (q + 1) BY <1>2
<1>6. cell = a[j]
  <2>1. q + 1 \in DOMAIN bytes /\ bytes[q + 1] = a[q + 1] BY <1>2, <1>3
  <2>2. base + (q + 1) \in DOMAIN payload /\ payload[base + (q + 1)] = bytes[q + 1] BY <2>1 DEF Holds
  <2>3. cell = CellAt(payload, base + q) BY <1>0
  <2> HIDE DEF q, bytes, a
  <2> QED BY <1>5, <2>1, <2>2, <2>3 DEF CellAt, j
<1>7. content[r + 1] = <<tensor, first + k>>
  <2>1. r + 1 \in 1 .. P
    <3> HIDE DEF q, r
    <3> QED BY <1>2
  <2>2. content[r + 1] = Weight(tensor, first, Flat(m, ((j - 1) * P) + (r + 1) - 1)) BY <2>1
  <2>3. ((j - 1) * P) + (r + 1) - 1 = k
    <3> HIDE DEF q, r
    <3>1. j - 1 = q /\ q * P = P * q /\ q * P \in Nat BY <1>2 DEF j
    <3> QED BY <1>2, <3>1
  <2>4. Weight(tensor, first, Flat(m, k)) = <<tensor, first + k>> BY FlatIsPlace
  <2> HIDE DEF content, q, r
  <2> QED BY <2>2, <2>3, <2>4
<1> HIDE DEF content, a
<1>8. cell = <<"codes", content, 0>> BY <1>4, <1>6
<1>9. cell[1] = "codes" /\ cell[2] = content BY <1>8
<1>10. cell[1] = "codes" /\ cell[2][(k % P) + 1] = <<tensor, first + k>> BY <1>7, <1>9
<1> QED BY <1>10, Zenon DEF IsCodeAt, P, cell

\* A section of one fp16 number per group begins here.
SectionAt(m, kind) == IF kind = "scales" THEN m.spans.scales.at ELSE m.spans.zeros.at

\* The number of a group is found where its place says, made of the group's weights.
LEMMA NumberUnpacked ==
  ASSUME NEW m, IsMatrix(m), m.bits \in 1 .. 8, NEW tensor, NEW first,
         NEW payload, NEW base \in Nat, Holds(payload, base, Encode(tensor, first, m)),
         NEW kind \in {"scales", "zeros"}, NEW i \in 0 .. NumberCount(m, kind) - 1
  PROVE  NumberAt(payload, base + SectionAt(m, kind) + i * MetaBytes, kind)
           = {Weight(tensor, first, Flat(m, (i * m.group) + j)) : j \in 0 .. m.group - 1}
<1> DEFINE bytes == Encode(tensor, first, m)
           l == WeightBytes(m.rows * m.cols, m.bits)
           x == NumberCount(m, "scales")  y == NumberCount(m, "zeros")
           a == Codes(tensor, first, m)
           b == Numbers("scales", tensor, first, m)
           c == Numbers("zeros", tensor, first, m)
           d == Numbers(kind, tensor, first, m)
           n == NumberCount(m, kind)
           s == SectionAt(m, kind)
           at == base + s + i * MetaBytes
           content == {Weight(tensor, first, Flat(m, (i * m.group) + j)) : j \in 0 .. m.group - 1}
<1>1. SectionsOf(m, tensor, first, l, x, y) BY Sections
<1>2. /\ DOMAIN b = 1 .. x * 2 /\ DOMAIN c = 1 .. y * 2 /\ l \in Nat /\ x \in Nat /\ y \in Nat
      /\ AreJoined(bytes, l, a, x * 2, b, y * 2, c)
  BY <1>1, Zenon DEF SectionsOf
<1>3. /\ DOMAIN bytes = 1 .. l + x * 2 + y * 2
      /\ \A k \in 1 .. x * 2 : bytes[l + k] = b[k]
      /\ \A k \in 1 .. y * 2 : bytes[l + x * 2 + k] = c[k]
  BY <1>2, Zenon DEF AreJoined
<1>4. x = m.rows * (m.cols \div m.group) BY DEF NumberCount
<1>5. SectionAt(m, "scales") = l /\ SectionAt(m, "zeros") = l + x * 2
  <2>1. ~(m.bits >= 16) OBVIOUS
  <2>2. m.spans.scales.at = l BY DEF IsMatrix
  <2>3. m.spans.zeros.at = m.spans.scales.at
          + (IF m.bits >= 16 THEN 0 ELSE m.rows * (m.cols \div m.group) * MetaBytes)
    BY DEF IsMatrix
  <2>4. m.spans.zeros.at = l + x * 2 BY <1>4, <2>1, <2>2, <2>3 DEF MetaBytes
  <2>5. "zeros" # "scales" OBVIOUS
  <2> QED BY <2>2, <2>4, <2>5, Zenon DEF SectionAt
<1>6. s \in Nat /\ \A k \in 1 .. n * 2 : s + k \in DOMAIN bytes /\ bytes[s + k] = d[k]
  <2> HIDE DEF l, x, y, b, c, bytes
  <2>1. CASE kind = "scales"
    <3>1. s = l /\ n = x /\ d = b BY <1>5, <2>1 DEF b, x
    <3> HIDE DEF s, n, d
    <3>2. \A k \in 1 .. x * 2 : l + k \in DOMAIN bytes BY <1>2, <1>3
    <3> QED BY <1>2, <1>3, <3>1, <3>2
  <2>2. CASE kind = "zeros"
    <3>1. s = l + x * 2 /\ n = y /\ d = c BY <1>5, <2>2 DEF c, y
    <3> HIDE DEF s, n, d
    <3>2. \A k \in 1 .. y * 2 : l + x * 2 + k \in DOMAIN bytes BY <1>2, <1>3
    <3>3. l + x * 2 \in Nat BY <1>2
    <3> QED BY <1>2, <1>3, <3>1, <3>2, <3>3
  <2> QED BY <2>1, <2>2
<1>7. n \in Nat /\ i \in 0 .. n - 1
  <2>1. n \in Nat
    <3> HIDE DEF x, y
    <3>1. n = x \/ n = y BY DEF x, y
    <3> QED BY <1>2, <3>1
  <2> QED BY <2>1
<1>8. /\ 2 * i + 1 \in 1 .. n * 2 /\ 2 * i + 2 \in 1 .. n * 2
      /\ (2 * i + 1 - 1) \div 2 = i /\ (2 * i + 1 - 1) % 2 = 0
      /\ (2 * i + 2 - 1) \div 2 = i /\ (2 * i + 2 - 1) % 2 = 1
  <2> HIDE DEF n
  <2> QED BY <1>7, HalvesOfSection
<1>9. /\ DOMAIN d = 1 .. n * 2
      /\ \A k \in 1 .. n * 2 :
           d[k] = <<kind, {Weight(tensor, first, Flat(m, (((k - 1) \div 2) * m.group) + j)) :
                              j \in 0 .. m.group - 1}, (k - 1) % 2>>
  <2>1. m.rows \in Nat \ {0} /\ m.cols \in Nat \ {0} /\ m.group \in Nat \ {0} /\ m.cols % m.group = 0
    BY DEF IsMatrix
  <2>2. CeilDiv(m.cols, m.group) = m.cols \div m.group BY <2>1, WholeGroups
  <2>3. n = IF m.bits >= 16 \/ (kind = "zeros" /\ m.sym) THEN 0 ELSE m.rows * CeilDiv(m.cols, m.group)
    BY <2>2 DEF NumberCount
  <2>4. d = [k \in 1 .. n * 2 |->
               <<kind, {Weight(tensor, first, Flat(m, (((k - 1) \div 2) * m.group) + j)) :
                          j \in 0 .. m.group - 1}, (k - 1) % 2>>]
    BY <2>3, Zenon DEF Numbers, MetaBytes
  <2> HIDE DEF d, n
  <2> QED BY <2>4
<1>10. d[2 * i + 1] = <<kind, content, 0>>
  <2> DEFINE k == 2 * i + 1
  <2>1. k \in 1 .. n * 2 /\ (k - 1) \div 2 = i /\ (k - 1) % 2 = 0 BY <1>8
  <2> HIDE DEF k, n, d
  <2>2. d[k] = <<kind, {Weight(tensor, first, Flat(m, (((k - 1) \div 2) * m.group) + j)) :
                          j \in 0 .. m.group - 1}, (k - 1) % 2>>
    BY <1>9, <2>1, Zenon
  <2> QED BY <2>1, <2>2 DEF k
<1>11. d[2 * i + 2] = <<kind, content, 1>>
  <2> DEFINE k == 2 * i + 2
  <2>1. k \in 1 .. n * 2 /\ (k - 1) \div 2 = i /\ (k - 1) % 2 = 1 BY <1>8
  <2> HIDE DEF k, n, d
  <2>2. d[k] = <<kind, {Weight(tensor, first, Flat(m, (((k - 1) \div 2) * m.group) + j)) :
                          j \in 0 .. m.group - 1}, (k - 1) % 2>>
    BY <1>9, <2>1, Zenon
  <2> QED BY <2>1, <2>2 DEF k
<1>12. \A k \in 1 .. n * 2 : base + (s + k) \in DOMAIN payload /\ payload[base + (s + k)] = d[k]
  <2> HIDE DEF n, s, d
  <2> QED BY <1>6 DEF Holds
<1>13. /\ at \in Int
       /\ at + 1 = base + (s + (2 * i + 1)) /\ at + 2 = base + (s + (2 * i + 2))
  <2>1. s \in Nat /\ i \in Nat BY <1>6, <1>7
  <2> HIDE DEF s
  <2> QED BY <2>1 DEF MetaBytes
<1> HIDE DEF at, s, n, d, content
<1>14. /\ at + 1 \in DOMAIN payload /\ payload[at + 1] = <<kind, content, 0>>
       /\ at + 2 \in DOMAIN payload /\ payload[at + 2] = <<kind, content, 1>>
  BY <1>8, <1>10, <1>11, <1>12, <1>13
<1>15. NumberAt(payload, at, kind) = content BY <1>13, <1>14, HalvesRead
<1> QED BY <1>15 DEF at, s, content

\* A weight that is stored as it is.
LEMMA StoredUnpacked ==
  ASSUME NEW m, IsMatrix(m), m.bits >= 16, NEW tensor, NEW first,
         NEW payload, NEW base \in Nat, Holds(payload, base, Encode(tensor, first, m)),
         NEW k \in 0 .. m.rows * m.cols - 1
  PROVE  NumberAt(payload, base + 2 * k, "packed") = {<<tensor, first + k>>}
<1> DEFINE bytes == Encode(tensor, first, m)
           l == WeightBytes(m.rows * m.cols, m.bits)
           n == m.rows * m.cols
           a == Codes(tensor, first, m)
           content == {<<tensor, first + k>>}
           at == base + 2 * k
<1>1. n \in Nat /\ k \in 0 .. n - 1 BY DEF IsMatrix
<1>2. l = n * 2
  <2>1. l = 2 * m.rows * m.cols /\ m.rows \in Nat /\ m.cols \in Nat BY StoredBytes DEF IsMatrix
  <2> QED BY <2>1
<1>3. DOMAIN a = 1 .. l /\ \A i \in DOMAIN a : i \in DOMAIN bytes /\ bytes[i] = a[i]
  <2> DEFINE x == NumberCount(m, "scales")  y == NumberCount(m, "zeros")
  <2>0. SectionsOf(m, tensor, first, l, x, y) BY Sections
  <2>1. /\ DOMAIN bytes = 1 .. l + x * 2 + y * 2 /\ DOMAIN a = 1 .. l
        /\ l \in Nat /\ x \in Nat /\ y \in Nat
        /\ \A i \in 1 .. l : bytes[i] = a[i]
    BY <2>0, Zenon DEF SectionsOf, AreJoined
  <2> HIDE DEF l, x, y, a, bytes
  <2>2. 1 .. l \subseteq 1 .. l + x * 2 + y * 2 BY <2>1
  <2> QED BY <2>1, <2>2
<1>4. /\ 2 * k + 1 \in 1 .. n * 2 /\ 2 * k + 2 \in 1 .. n * 2
      /\ (2 * k + 1 - 1) \div 2 = k /\ (2 * k + 1 - 1) % 2 = 0
      /\ (2 * k + 2 - 1) \div 2 = k /\ (2 * k + 2 - 1) % 2 = 1
  <2> HIDE DEF n
  <2> QED BY <1>1, HalvesOfSection
<1>5. Weight(tensor, first, k) = <<tensor, first + k>> BY <1>1 DEF Weight
<1>6. \A j \in DOMAIN a : a[j] = <<"packed", {Weight(tensor, first, (j - 1) \div 2)}, (j - 1) % 2>>
  <2>1. m.bits >= 16 OBVIOUS
  <2> SUFFICES ASSUME NEW j \in DOMAIN a
               PROVE  a[j] = <<"packed", {Weight(tensor, first, (j - 1) \div 2)}, (j - 1) % 2>>
    OBVIOUS
  <2>2. a[j] = IF m.bits >= 16
               THEN <<"packed", {Weight(tensor, first, (j - 1) \div 2)}, (j - 1) % 2>>
               ELSE <<"codes", [i \in 1 .. PerByte(m.bits) |->
                       Weight(tensor, first, Flat(m, ((j - 1) * PerByte(m.bits)) + i - 1))], 0>>
    BY DEF Codes
  <2> QED BY <2>1, <2>2
<1> HIDE DEF a, n, l, bytes
<1>7. /\ 2 * k + 1 \in DOMAIN a /\ a[2 * k + 1] = <<"packed", content, 0>>
      /\ 2 * k + 2 \in DOMAIN a /\ a[2 * k + 2] = <<"packed", content, 1>>
  <2>1. 2 * k + 1 \in DOMAIN a /\ 2 * k + 2 \in DOMAIN a BY <1>2, <1>3, <1>4
  <2>2. a[2 * k + 1] = <<"packed", {Weight(tensor, first, k)}, 0>>
    <3> DEFINE j == 2 * k + 1
    <3>1. j \in DOMAIN a /\ (j - 1) \div 2 = k /\ (j - 1) % 2 = 0 BY <1>4, <2>1
    <3> HIDE DEF j
    <3>2. a[j] = <<"packed", {Weight(tensor, first, (j - 1) \div 2)}, (j - 1) % 2>> BY <1>6, <3>1
    <3> QED BY <3>1, <3>2 DEF j
  <2>3. a[2 * k + 2] = <<"packed", {Weight(tensor, first, k)}, 1>>
    <3> DEFINE j == 2 * k + 2
    <3>1. j \in DOMAIN a /\ (j - 1) \div 2 = k /\ (j - 1) % 2 = 1 BY <1>4, <2>1
    <3> HIDE DEF j
    <3>2. a[j] = <<"packed", {Weight(tensor, first, (j - 1) \div 2)}, (j - 1) % 2>> BY <1>6, <3>1
    <3> QED BY <3>1, <3>2 DEF j
  <2> QED BY <1>5, <2>1, <2>2, <2>3
<1>8. \A j \in DOMAIN a : base + j \in DOMAIN payload /\ payload[base + j] = a[j]
  BY <1>3 DEF Holds, bytes
<1>9. at \in Int /\ at + 1 = base + (2 * k + 1) /\ at + 2 = base + (2 * k + 2) BY <1>1
<1> HIDE DEF at, content
<1>10. /\ at + 1 \in DOMAIN payload /\ payload[at + 1] = <<"packed", content, 0>>
       /\ at + 2 \in DOMAIN payload /\ payload[at + 2] = <<"packed", content, 1>>
  BY <1>7, <1>8, <1>9
<1>11. NumberAt(payload, at, "packed") = content BY <1>9, <1>10, HalvesRead
<1> QED BY <1>11 DEF at, content

\* A view v that begins at "at" has in (row, c) the place that (r, c) has in m at base.
IsView(m, base, v, at, row, r, c) ==
  LET k == r * m.cols + c    g == r * (m.cols \div m.group) + (c \div m.group)
      j == row * m.cols + c  h == row * (m.cols \div m.group) + (c \div m.group)
  IN  /\ v.bits = m.bits /\ v.cols = m.cols /\ v.group = m.group /\ v.sym = m.sym
      /\ m.bits >= 16 => at + 2 * j = base + 2 * k
      /\ ~(m.bits >= 16) =>
           /\ at + v.spans.codes.at + (j \div PerByte(m.bits)) = base + (k \div PerByte(m.bits))
           /\ j % PerByte(m.bits) = k % PerByte(m.bits)
           /\ \A kind \in {"scales", "zeros"} :
                at + SectionAt(v, kind) + h * MetaBytes = base + SectionAt(m, kind) + g * MetaBytes

\* A reader's view of a matrix shows a weight where the record has it.
LEMMA WeightUnpacked ==
  ASSUME NEW m, IsMatrix(m), NEW tensor, NEW first,
         NEW payload, NEW base \in Nat, Holds(payload, base, Encode(tensor, first, m)),
         NEW v, NEW at, NEW row, NEW r \in 0 .. m.rows - 1, NEW c \in 0 .. m.cols - 1,
         IsView(m, base, v, at, row, r, c)
  PROVE  DecodedWeight(payload, at, v, row, c) = <<tensor, first + (r * m.cols + c)>>
<1> DEFINE k == r * m.cols + c    g == r * (m.cols \div m.group) + (c \div m.group)
           j == row * m.cols + c  h == row * (m.cols \div m.group) + (c \div m.group)
           R == m.rows  C == m.cols  G == m.group  p == C \div G
           weight == <<tensor, first + k>>
<1>5. /\ v.bits = m.bits /\ v.cols = m.cols /\ v.group = m.group /\ v.sym = m.sym
      /\ m.bits >= 16 => at + 2 * j = base + 2 * k
      /\ ~(m.bits >= 16) =>
           /\ at + v.spans.codes.at + (j \div PerByte(m.bits)) = base + (k \div PerByte(m.bits))
           /\ j % PerByte(m.bits) = k % PerByte(m.bits)
           /\ \A kind \in {"scales", "zeros"} :
                at + SectionAt(v, kind) + h * MetaBytes = base + SectionAt(m, kind) + g * MetaBytes
  BY Zenon DEF IsView
<1>6. /\ k = r * m.cols + c    /\ g = r * (m.cols \div m.group) + (c \div m.group)
      /\ j = row * m.cols + c  /\ h = row * (m.cols \div m.group) + (c \div m.group)
  OBVIOUS
<1> HIDE DEF k, g, j, h
<1>1. R \in Nat \ {0} /\ C \in Nat \ {0} /\ G \in Nat \ {0} /\ C % G = 0 BY DEF IsMatrix
<1>2. k \in 0 .. R * C - 1 /\ g \in 0 .. R * p - 1 /\ c % G \in 0 .. G - 1 /\ k = g * G + (c % G)
  <2>1. k = r * C + c /\ g = r * (C \div G) + (c \div G) /\ r \in 0 .. R - 1 /\ c \in 0 .. C - 1
    BY <1>6
  <2> HIDE DEF R, C, G
  <2>2. IsPlaced(R, C, G, r, c) BY <1>1, <2>1, GroupPlace
  <2>3. /\ r * C + c \in 0 .. R * C - 1 /\ r * (C \div G) + (c \div G) \in 0 .. R * (C \div G) - 1
        /\ c % G \in 0 .. G - 1
        /\ r * C + c = (r * (C \div G) + (c \div G)) * G + (c % G)
    BY <2>2, Zenon DEF IsPlaced
  <2> QED BY <2>1, <2>3
<1>3. CASE m.bits >= 16
  <2>1. NumberAt(payload, base + 2 * k, "packed") = {weight} BY <1>2, <1>3, StoredUnpacked
  <2>2. NumberAt(payload, at + 2 * (row * v.cols + c), "packed") = {weight} BY <1>3, <1>5, <1>6, <2>1
  <2>3. v.bits >= 16 BY <1>3, <1>5
  <2> DEFINE raw == NumberAt(payload, at + 2 * (row * v.cols + c), "packed")
  <2>4. DecodedWeight(payload, at, v, row, c) = IF raw = {} THEN Garbage ELSE CHOOSE w \in raw : TRUE
    BY <2>3, Zenon DEF DecodedWeight
  <2> HIDE DEF raw
  <2>5. raw = {weight} BY <2>2 DEF raw
  <2> HIDE DEF weight
  <2> QED BY <1>6, <2>4, <2>5 DEF weight
<1>4. CASE ~(m.bits >= 16)
  <2>0. m.bits \in Widths BY DEF IsMatrix
  <2>1. m.bits \in 1 .. 8 /\ ~(v.bits >= 16) BY <1>4, <1>5, <2>0, NarrowWidth
  <2> DEFINE P == PerByte(m.bits)
             cell == CellAt(payload, base + (k \div P))
             code == CodeAt(payload, at + v.spans.codes.at, v.bits, (row * v.cols) + c)
             number(kind, s) == NumberAt(payload, at + s.at + h * MetaBytes, kind)
             content == {Weight(tensor, first, Flat(m, (g * m.group) + i)) : i \in 0 .. m.group - 1}
  <2>2. cell[1] = "codes" /\ cell[2][(k % P) + 1] = weight 
    <3>1. IsCodeAt(payload, base + (k \div PerByte(m.bits)), m.bits, k, <<tensor, first + k>>)
      BY <1>2, <2>1, CodeUnpacked
    <3> QED BY <3>1, Zenon DEF IsCodeAt
  <2>3. code = weight
    <3>1. code = IF cell[1] = "codes" THEN cell[2][(k % P) + 1] ELSE Garbage BY <1>4, <1>5, <1>6 DEF CodeAt
    <3> HIDE DEF code, cell, weight
    <3> QED BY <2>2, <3>1
  <2>4. weight \in content
    <3>1. (g * m.group) + (c % G) = k BY <1>2
    <3>2. Weight(tensor, first, Flat(m, k)) = weight BY <1>2, FlatIsPlace
    <3> QED BY <1>2, <3>1, <3>2
  <2>5. ASSUME NEW kind \in {"scales", "zeros"}, NumberCount(m, kind) = R * p
        PROVE  NumberAt(payload, at + SectionAt(v, kind) + h * MetaBytes, kind) = content
    <3>1. g \in 0 .. NumberCount(m, kind) - 1 BY <1>2, <2>5
    <3>2. NumberAt(payload, base + SectionAt(m, kind) + g * MetaBytes, kind) = content
      BY <2>1, <3>1, NumberUnpacked
    <3> HIDE DEF content
    <3> QED BY <1>4, <1>5, <3>2
  <2>6. number("scales", v.spans.scales) = content
    <3>1. NumberCount(m, "scales") = R * p BY <2>1 DEF NumberCount
    <3> HIDE DEF content, R, p
    <3>2. NumberAt(payload, at + SectionAt(v, "scales") + h * MetaBytes, "scales") = content
      BY <2>5, <3>1
    <3> QED BY <3>2 DEF SectionAt
  <2>7. m.sym \/ number("zeros", v.spans.zeros) = content
    <3> SUFFICES ASSUME ~m.sym PROVE number("zeros", v.spans.zeros) = content OBVIOUS
    <3>1. NumberCount(m, "zeros") = R * p BY <2>1 DEF NumberCount
    <3> HIDE DEF content, R, p
    <3>2. NumberAt(payload, at + SectionAt(v, "zeros") + h * MetaBytes, "zeros") = content
      BY <2>5, <3>1
    <3> QED BY <3>2 DEF SectionAt
  <2>8. DecodedWeight(payload, at, v, row, c)
          = IF code \in number("scales", v.spans.scales)
               /\ (v.sym \/ code \in number("zeros", v.spans.zeros))
            THEN code ELSE Garbage
    BY <1>5, <1>6, <2>1 DEF DecodedWeight
  <2> HIDE DEF code, number, content, weight
  <2>9. DecodedWeight(payload, at, v, row, c) = code BY <1>5, <2>3, <2>4, <2>6, <2>7, <2>8
  <2> QED BY <1>6, <2>3, <2>9 DEF weight
<1> QED BY <1>3, <1>4

\* n weights of a tensor, one after the other.
Stretch(tensor, first, n) == [k \in 1 .. n |-> <<tensor, first + (k - 1)>>]

\* Where the k-th weight of a matrix is, its rows one after the other.
IsRowPlace(height, cols, k) ==
  LET i == k - 1  q == i \div cols  c == i % cols
  IN  q \in 0 .. height - 1 /\ c \in 0 .. cols - 1 /\ i = q * cols + c

LEMMA PlaceInRows ==
  ASSUME NEW height \in Nat \ {0}, NEW cols \in Nat \ {0}, NEW k \in 1 .. height * cols
  PROVE  IsRowPlace(height, cols, k)
<1> DEFINE i == k - 1  q == i \div cols  c == i % cols
<1>1. height * cols \in Nat BY TimesNat
<1>2. i \in Nat /\ i \in Int /\ i < height * cols BY <1>1
<1>3. q \in Nat BY <1>2, DivIsNat
<1>4. c \in 0 .. cols - 1 /\ i = cols * q + c BY <1>2, DivFacts
<1> HIDE DEF i, q, c
<1>5. q < height
  <2> SUFFICES ASSUME height <= q PROVE FALSE BY <1>3
  <2>1. cols * height <= cols * q BY <1>3, TimesMonotone
  <2>2. cols * height = height * cols /\ cols * q \in Nat BY <1>3, TimesNat
  <2> QED BY <1>1, <1>2, <1>4, <2>1, <2>2
<1>6. q \in 0 .. height - 1 BY <1>3, <1>5
<1>7. i = q * cols + c BY <1>3, <1>4
<1> QED BY <1>4, <1>6, <1>7, Zenon DEF IsRowPlace, i, q, c

\* decode_record gives a matrix back that was packed at its base.
LEMMA RecordUnpacked ==
  ASSUME NEW m, IsMatrix(m), NEW tensor, NEW first,
         NEW payload, NEW base \in Nat, Holds(payload, base, Encode(tensor, first, m))
  PROVE  DecodeRecord(payload, base, m) = Stretch(tensor, first, m.rows * m.cols)
<1>1. m.rows \in Nat \ {0} /\ m.cols \in Nat \ {0} /\ m.spans.codes.at = 0 /\ m.group \in Nat \ {0}
  BY DEF IsMatrix
<1>2. ASSUME NEW i \in 1 .. m.rows * m.cols
      PROVE  DecodedWeight(payload, base, m, (i - 1) \div m.cols, (i - 1) % m.cols)
               = <<tensor, first + (i - 1)>>
  <2> DEFINE r == (i - 1) \div m.cols  c == (i - 1) % m.cols  k == i - 1
             g == r * (m.cols \div m.group) + (c \div m.group)
  <2>1. r \in 0 .. m.rows - 1 /\ c \in 0 .. m.cols - 1 /\ k = r * m.cols + c
    <3>1. IsRowPlace(m.rows, m.cols, i) BY <1>1, PlaceInRows
    <3> QED BY <3>1, Zenon DEF IsRowPlace
  <2>2. g = r * (m.cols \div m.group) + (c \div m.group) OBVIOUS
  <2>3. base + m.spans.codes.at + (k \div PerByte(m.bits)) = base + (k \div PerByte(m.bits))
    <3>1. base + m.spans.codes.at = base BY <1>1
    <3> QED BY <3>1
  <2> HIDE DEF r, c, k, g
  <2>4. DecodedWeight(payload, base, m, r, c) = <<tensor, first + k>>
    <3>1. IsView(m, base, m, base, r, r, c)
      <4>1. r * m.cols + c = k /\ r * (m.cols \div m.group) + (c \div m.group) = g BY <2>1, <2>2
      <4> QED BY <2>1, <2>3, <4>1, Zenon DEF IsView
    <3>2. DecodedWeight(payload, base, m, r, c) = <<tensor, first + (r * m.cols + c)>>
      BY <2>1, <3>1, WeightUnpacked
    <3> QED BY <2>1, <3>2
  <2> QED BY <2>4 DEF r, c, k
<1> QED BY <1>2, Zenon DEF DecodeRecord, Stretch

Section == [at : Nat, len : Nat]
MatrixRecords == [rows : Nat, cols : Nat, bits : Nat, group : Nat, sym : BOOLEAN,
                  spans : [codes : Section, scales : Section, zeros : Section]]

LEMMA RowsOfMatrix ==
  ASSUME NEW m \in MatrixRecords, NEW n, NEW v, v = [m EXCEPT !.rows = n]
  PROVE  /\ v.rows = n /\ v.cols = m.cols /\ v.bits = m.bits /\ v.group = m.group /\ v.sym = m.sym
         /\ v.spans = m.spans
BY DEF MatrixRecords

LEMMA SectionMoved ==
  ASSUME NEW s \in Section, NEW x \in Nat, NEW t, t = [s EXCEPT !.at = @ + x]
  PROVE  t \in Section /\ t.at = s.at + x
BY DEF Section

\* What DecodeRows reads as the n rows that begin x bytes of codes and y bytes
\* of numbers further on.
PartOf(m, n, x, y) ==
  [m EXCEPT !.rows = n, !.spans.codes.at = @ + x, !.spans.scales.at = @ + y,
            !.spans.zeros.at = @ + y]

IsPart(m, v, n, x, y) ==
  /\ v.rows = n /\ v.cols = m.cols /\ v.bits = m.bits /\ v.group = m.group /\ v.sym = m.sym
  /\ v.spans.codes.at = m.spans.codes.at + x
  /\ SectionAt(v, "scales") = SectionAt(m, "scales") + y
  /\ SectionAt(v, "zeros") = SectionAt(m, "zeros") + y

LEMMA PartOfMatrix ==
  ASSUME NEW m \in MatrixRecords, NEW n \in Nat, NEW x \in Nat, NEW y \in Nat
  PROVE  IsPart(m, PartOf(m, n, x, y), n, x, y)
<1> DEFINE v == PartOf(m, n, x, y)
           a == [m EXCEPT !.rows = n]
           p == [a.spans.codes EXCEPT !.at = @ + x]
           b == [a EXCEPT !.spans = [@ EXCEPT !.codes = p]]
           q == [b.spans.scales EXCEPT !.at = @ + y]
           c == [b EXCEPT !.spans = [@ EXCEPT !.scales = q]]
           r == [c.spans.zeros EXCEPT !.at = @ + y]
           d == [c EXCEPT !.spans = [@ EXCEPT !.zeros = r]]
<1>1. v = d BY DEF PartOf
<1>2. a \in MatrixRecords /\ a.rows = n /\ a.cols = m.cols /\ a.bits = m.bits /\ a.group = m.group
      /\ a.sym = m.sym /\ a.spans = m.spans
  BY DEF MatrixRecords
<1>3. p = [a.spans.codes EXCEPT !.at = @ + x] /\ b = [a EXCEPT !.spans = [@ EXCEPT !.codes = p]] OBVIOUS
<1>4. q = [b.spans.scales EXCEPT !.at = @ + y] /\ c = [b EXCEPT !.spans = [@ EXCEPT !.scales = q]] OBVIOUS
<1>5. r = [c.spans.zeros EXCEPT !.at = @ + y] /\ d = [c EXCEPT !.spans = [@ EXCEPT !.zeros = r]] OBVIOUS
<1> HIDE DEF a, p, b, q, c, r, d
<1>6. p \in Section /\ p.at = m.spans.codes.at + x
  <2>1. a.spans.codes \in Section BY <1>2 DEF MatrixRecords
  <2> QED BY <1>2, <1>3, <2>1, SectionMoved
<1>7. b \in MatrixRecords /\ b.rows = a.rows /\ b.cols = a.cols /\ b.bits = a.bits /\ b.group = a.group
      /\ b.sym = a.sym /\ b.spans.codes = p /\ b.spans.scales = a.spans.scales
      /\ b.spans.zeros = a.spans.zeros
  BY <1>2, <1>3, <1>6 DEF MatrixRecords
<1>8. q \in Section /\ q.at = m.spans.scales.at + y
  <2>1. b.spans.scales \in Section BY <1>7 DEF MatrixRecords
  <2> QED BY <1>2, <1>4, <1>7, <2>1, SectionMoved
<1>9. c \in MatrixRecords /\ c.rows = b.rows /\ c.cols = b.cols /\ c.bits = b.bits /\ c.group = b.group
      /\ c.sym = b.sym /\ c.spans.codes = b.spans.codes /\ c.spans.scales = q
      /\ c.spans.zeros = b.spans.zeros
  BY <1>4, <1>7, <1>8 DEF MatrixRecords
<1>10. r \in Section /\ r.at = m.spans.zeros.at + y
  <2>1. c.spans.zeros \in Section BY <1>9 DEF MatrixRecords
  <2> QED BY <1>2, <1>5, <1>7, <1>9, <2>1, SectionMoved
<1>11. d.rows = c.rows /\ d.cols = c.cols /\ d.bits = c.bits /\ d.group = c.group /\ d.sym = c.sym
       /\ d.spans.codes = c.spans.codes /\ d.spans.scales = c.spans.scales /\ d.spans.zeros = r
  BY <1>5, <1>9, <1>10 DEF MatrixRecords
<1>12. SectionAt(v, "scales") = v.spans.scales.at /\ SectionAt(m, "scales") = m.spans.scales.at
       /\ SectionAt(v, "zeros") = v.spans.zeros.at /\ SectionAt(m, "zeros") = m.spans.zeros.at
  BY DEF SectionAt
<1> HIDE DEF v
<1>13. /\ v.rows = n /\ v.cols = m.cols /\ v.bits = m.bits /\ v.group = m.group /\ v.sym = m.sym
       /\ v.spans.codes.at = m.spans.codes.at + x
       /\ SectionAt(v, "scales") = SectionAt(m, "scales") + y
       /\ SectionAt(v, "zeros") = SectionAt(m, "zeros") + y
  BY <1>1, <1>2, <1>6, <1>7, <1>8, <1>9, <1>10, <1>11, <1>12
<1> QED BY <1>13, Zenon DEF IsPart, v

LEMMA DistributeRows == \A f, q, n \in Nat : (f + q) * n = f * n + q * n
OBVIOUS

\* Rows begin on a byte: a row is a whole number of bytes.
LEMMA RowStride ==
  ASSUME NEW m, IsMatrix(m), ~(m.bits >= 16), RowsAligned(m)
  PROVE  /\ WeightBytes(m.cols, m.bits) \in Nat
         /\ m.cols = PerByte(m.bits) * WeightBytes(m.cols, m.bits)
<1> DEFINE C == m.cols  b == m.bits  P == PerByte(b)
<1>0. b \in Widths /\ ~(b >= 16) BY DEF IsMatrix
<1>1. C \in Nat \ {0} /\ b \in 1 .. 8 BY <1>0, NarrowWidth DEF IsMatrix
<1>2. P = PerByte(b) OBVIOUS
<1>3. b >= 8 \/ C % P = 0 BY DEF RowsAligned
<1>6. WeightBytes(C, b) = PackedBytes(C, b) BY DEF WeightBytes
<1> HIDE DEF C, b, P
<1>4. CASE b = 8
  <2>1. P = 1 BY <1>2, <1>4 DEF PerByte
  <2>2. (C * 8 + 8 - 1) \div 8 = C BY <1>1
  <2>3. PackedBytes(C, b) = C BY <1>4, <2>2 DEF PackedBytes, CeilDiv
  <2> QED BY <1>1, <1>2, <1>6, <2>1, <2>3 DEF C, b
<1>5. CASE b < 8
  <2>1. P \in Nat \ {0}
    <3>1. 0 \in 0 .. 1 - 1 /\ 1 \in Nat \ {0} OBVIOUS
    <3>2. LET Q == PerByte(b)
          IN  /\ Q \in Nat \ {0} /\ 0 \div Q \in Nat /\ 0 % Q \in 0 .. Q - 1
              /\ (0 \div Q) + 1 \in 1 .. PackedBytes(1, b) /\ 0 = Q * (0 \div Q) + (0 % Q)
      BY <1>1, <3>1, CodePlace
    <3> QED BY <1>2, <3>2
  <2>2. C % P = 0 BY <1>1, <1>3, <1>5
  <2> DEFINE d == C \div P
  <2>3. d = C \div P OBVIOUS
  <2> HIDE DEF d
  <2>4. d \in Nat \ {0} /\ C = P * d /\ CeilDiv(C, P) = d BY <1>1, <2>1, <2>2, <2>3, WholeGroups
  <2>5. PackedBytes(C, b) = d BY <1>1, <1>2, <1>5, <2>4 DEF PackedBytes
  <2> QED BY <1>2, <1>6, <2>4, <2>5 DEF C, b
<1> QED BY <1>1, <1>4, <1>5

\* Row q of the rows that begin with row f.
LEMMA StoredRowView ==
  ASSUME NEW m, IsMatrix(m), m.bits >= 16, NEW f \in Nat, NEW q \in Nat, NEW c \in 0 .. m.cols - 1,
         NEW v, v.bits = m.bits, v.cols = m.cols, v.group = m.group, v.sym = m.sym
  PROVE  IsView(m, 0, v, f * WeightBytes(m.cols, m.bits), q, f + q, c)
<1> DEFINE C == m.cols  j == q * C + c  k == (f + q) * C + c
<1>1. C \in Nat /\ c \in Nat BY DEF IsMatrix
<1>2. WeightBytes(C, m.bits) = 2 * C BY DEF WeightBytes
<1>3. f * (2 * C) + 2 * (q * C + c) = 0 + 2 * ((f + q) * C + c)
  <2> HIDE DEF C
  <2>1. (f + q) * C = f * C + q * C BY <1>1, DistributeRows
  <2>2. f * (2 * C) = 2 * (f * C) BY <1>1
  <2>3. f * C \in Nat /\ q * C \in Nat BY <1>1, TimesNat
  <2> QED BY <1>1, <2>1, <2>2, <2>3
<1>4. m.bits >= 16 => f * WeightBytes(C, m.bits) + 2 * (q * C + c) = 0 + 2 * ((f + q) * C + c)
  BY <1>2, <1>3
<1>5. ~(~(m.bits >= 16)) OBVIOUS
<1> QED BY <1>4, <1>5, Zenon DEF IsView

LEMMA PackedRowView ==
  ASSUME NEW m, IsMatrix(m), ~(m.bits >= 16), RowsAligned(m),
         NEW f \in Nat, NEW q \in Nat, NEW c \in 0 .. m.cols - 1,
         NEW v, v.bits = m.bits, v.cols = m.cols, v.group = m.group, v.sym = m.sym,
         v.spans.codes.at = m.spans.codes.at + f * WeightBytes(m.cols, m.bits),
         SectionAt(m, "scales") \in Nat, SectionAt(m, "zeros") \in Nat,
         SectionAt(v, "scales") = SectionAt(m, "scales") + f * ((m.cols \div m.group) * MetaBytes),
         SectionAt(v, "zeros") = SectionAt(m, "zeros") + f * ((m.cols \div m.group) * MetaBytes)
  PROVE  IsView(m, 0, v, 0, q, f + q, c)
<1> DEFINE C == m.cols  P == PerByte(m.bits)  w == WeightBytes(C, m.bits)
           p == C \div m.group  e == c \div m.group
           j == q * C + c  k == (f + q) * C + c
           h == q * p + e  g == (f + q) * p + e
<1>1. C \in Nat \ {0} /\ c \in Nat /\ m.group \in Nat \ {0} /\ m.spans.codes.at = 0 BY DEF IsMatrix
<1>2. w \in Nat /\ C = P * w BY RowStride
<1>3. P \in Nat \ {0}
  <2>0. m.bits \in Widths /\ ~(m.bits >= 16) BY DEF IsMatrix
  <2>1. m.bits \in 1 .. 8 BY <2>0, NarrowWidth
  <2>2. 0 \in 0 .. 1 - 1 /\ 1 \in Nat \ {0} OBVIOUS
  <2>3. LET Q == PerByte(m.bits)
        IN  /\ Q \in Nat \ {0} /\ 0 \div Q \in Nat /\ 0 % Q \in 0 .. Q - 1
            /\ (0 \div Q) + 1 \in 1 .. PackedBytes(1, m.bits) /\ 0 = Q * (0 \div Q) + (0 % Q)
    BY <2>1, <2>2, CodePlace
  <2> QED BY <2>3
<1>4. p \in Nat /\ e \in Nat
  <2>1. C \in Nat BY <1>1
  <2> QED BY <1>1, <2>1, DivIsNat
<1>5. j \in Nat /\ k = f * C + j
  <2> HIDE DEF C
  <2>1. (f + q) * C = f * C + q * C BY <1>1, DistributeRows
  <2>2. f * C \in Nat /\ q * C \in Nat BY <1>1, TimesNat
  <2> QED BY <1>1, <2>1, <2>2
<1>6. k \div P = f * w + (j \div P) /\ k % P = j % P /\ j \div P \in Nat /\ f * w \in Nat
  <2> DEFINE x == j \div P  y == j % P
  <2> HIDE DEF C, P, w, j, k
  <2>1. x \in Nat BY <1>3, <1>5, DivIsNat
  <2>2. y \in 0 .. P - 1 /\ j = P * x + y
    <3>1. j \in Int BY <1>5
    <3> QED BY <1>3, <3>1, DivFacts
  <2> HIDE DEF x, y
  <2>3. f * w \in Nat BY <1>2, TimesNat
  <2>4. f * C = P * (f * w)
    <3>1. \A s, t, u \in Nat : s * (t * u) = t * (s * u) OBVIOUS
    <3> QED BY <1>2, <1>3, <3>1
  <2>5. P * (f * w + x) = P * (f * w) + P * x
    <3>1. \A s, t, u \in Nat : s * (t + u) = s * t + s * u OBVIOUS
    <3> QED BY <1>3, <2>1, <2>3, <3>1
  <2>6. k = P * (f * w + x) + y
    <3>1. P * (f * w) \in Nat /\ P * x \in Nat BY <1>3, <2>1, <2>3, TimesNat
    <3> QED BY <1>5, <2>2, <2>4, <2>5, <3>1
  <2>7. f * w + x \in Int BY <2>1, <2>3
  <2>8. (P * (f * w + x) + y) \div P = f * w + x /\ (P * (f * w + x) + y) % P = y
    <3> DEFINE z == f * w + x
    <3> HIDE DEF z
    <3>1. z \in Int BY <2>7 DEF z
    <3>2. (P * z + y) \div P = z /\ (P * z + y) % P = y BY <1>3, <2>2, <3>1, DivIsUnique
    <3> QED BY <3>2 DEF z
  <2> QED BY <2>1, <2>3, <2>6, <2>8 DEF x, y
<1>7. g * 2 = f * (p * 2) + h * 2 /\ h \in Nat /\ f * (p * 2) \in Nat
  <2> HIDE DEF p, e
  <2>1. (f + q) * p = f * p + q * p BY <1>4, DistributeRows
  <2>2. f * p \in Nat /\ q * p \in Nat BY <1>4, TimesNat
  <2>3. f * (p * 2) = (f * p) * 2 BY <1>4
  <2> QED BY <1>4, <2>1, <2>2, <2>3
<1>8. 0 + v.spans.codes.at + (j \div P) = 0 + (k \div P)
  <2>1. v.spans.codes.at = f * w BY <1>1, <1>6
  <2> HIDE DEF j, k, P, w
  <2> QED BY <1>6, <2>1
<1>9. \A kind \in {"scales", "zeros"} :
        0 + SectionAt(v, kind) + h * MetaBytes = 0 + SectionAt(m, kind) + g * MetaBytes
  <2> DEFINE t == f * (p * 2)
  <2>1. \A kind \in {"scales", "zeros"} :
          SectionAt(m, kind) \in Nat /\ SectionAt(v, kind) = SectionAt(m, kind) + t
    BY DEF MetaBytes
  <2> HIDE DEF h, g, t
  <2>2. t \in Nat /\ g * 2 = t + h * 2 BY <1>7 DEF t
  <2> QED BY <1>7, <2>1, <2>2 DEF MetaBytes
<1>10. /\ ~(m.bits >= 16) =>
            /\ 0 + v.spans.codes.at + (j \div P) = 0 + (k \div P)
            /\ j % P = k % P
            /\ \A kind \in {"scales", "zeros"} :
                 0 + SectionAt(v, kind) + h * MetaBytes = 0 + SectionAt(m, kind) + g * MetaBytes
       /\ m.bits >= 16 => 0 + 2 * j = 0 + 2 * k
  BY <1>6, <1>8, <1>9, Zenon
<1> QED BY <1>10, Zenon DEF IsView, j, k, h, g, P

\* Part of a run of weights is a run of weights.
IsCut(tensor, first, n, a, b) ==
  SubSeq(Stretch(tensor, first, n), a + 1, b) = Stretch(tensor, first + a, b - a)

LEMMA StretchOfStretch ==
  ASSUME NEW tensor, NEW first \in Int, NEW n \in Nat, NEW a \in Nat, NEW b \in Nat, a <= b, b <= n
  PROVE  IsCut(tensor, first, n, a, b)
<1> DEFINE s == Stretch(tensor, first, n)  T == {tensor} \X Int
           u == SubSeq(s, a + 1, b)
<1>1. s \in [1 .. n -> T] /\ \A i \in 1 .. n : s[i] = <<tensor, first + (i - 1)>> BY DEF Stretch
<1> HIDE DEF s, T
<1>2. s \in Seq(T) /\ Len(s) = n BY <1>1, FunctionIsSeq
<1>3. /\ u \in Seq(T) /\ Len(u) = b - a
      /\ \A i \in 1 .. b - a : u[i] = s[a + i]
  <2>1. CASE a < b
    <3>1. a + 1 \in 1 .. n /\ b \in a + 1 - 1 .. n BY <2>1
    <3>2. /\ u \in Seq(T) /\ Len(u) = b - (a + 1) + 1
          /\ \A i \in 1 .. b - (a + 1) + 1 : u[i] = s[a + 1 + i - 1]
      BY <1>2, <3>1, SubSeqProperties
    <3> QED BY <3>2
  <2>2. CASE a = b
    <3>1. u = << >> BY <1>2, <2>2, EmptySeq DEF u
    <3> QED BY <2>2, <3>1
  <2> QED BY <2>1, <2>2
<1>4. DOMAIN u = 1 .. b - a /\ u = [i \in DOMAIN u |-> u[i]] BY <1>3
<1>5. \A i \in 1 .. b - a : u[i] = <<tensor, (first + a) + (i - 1)>>
  <2> SUFFICES ASSUME NEW i \in 1 .. b - a PROVE u[i] = <<tensor, (first + a) + (i - 1)>> OBVIOUS
  <2>1. a + i \in 1 .. n BY <1>2
  <2>2. u[i] = <<tensor, first + (a + i - 1)>> BY <1>1, <1>3, <2>1
  <2>3. first + (a + i - 1) = (first + a) + (i - 1) OBVIOUS
  <2> QED BY <2>2, <2>3
<1> HIDE DEF u
<1>6. u = [i \in 1 .. b - a |-> <<tensor, (first + a) + (i - 1)>>] BY <1>4, <1>5
<1> QED BY <1>6, Zenon DEF IsCut, Stretch, s, u

\* decode_rows gives the rows asked for, of whichever width.
LEMMA RowsUnpacked ==
  ASSUME NEW m \in MatrixRecords, IsMatrix(m), NEW tensor, NEW first \in Int,
         NEW payload, Holds(payload, 0, Encode(tensor, first, m)),
         NEW from \in Nat, NEW to \in Nat, from <= to, to <= m.rows
  PROVE  DecodeRows(payload, m, from, to) = Stretch(tensor, first + from * m.cols, (to - from) * m.cols)
<1> DEFINE C == m.cols  n == to - from  meta == (C \div m.group) * MetaBytes
           stride == WeightBytes(C, m.bits)
           whole == [m EXCEPT !.rows = n]
           part == [m EXCEPT !.rows = n, !.spans.codes.at = @ + from * stride,
                      !.spans.scales.at = @ + from * meta, !.spans.zeros.at = @ + from * meta]
<1>1. C \in Nat \ {0} /\ m.rows \in Nat \ {0} /\ m.group \in Nat \ {0} BY DEF IsMatrix
<1>2. n \in Nat /\ 0 \in Nat OBVIOUS
<1>3. ASSUME NEW v, v.rows = n, v.cols = C, NEW at,
             \A q \in 0 .. n - 1 : \A c \in 0 .. C - 1 : IsView(m, 0, v, at, q, from + q, c)
      PROVE  DecodeRecord(payload, at, v) = Stretch(tensor, first + from * C, n * C)
  <2>1. ASSUME NEW k \in 1 .. n * C
        PROVE  DecodedWeight(payload, at, v, (k - 1) \div C, (k - 1) % C)
                 = <<tensor, (first + from * C) + (k - 1)>>
    <3> DEFINE q == (k - 1) \div C  c == (k - 1) % C  i == k - 1
    <3>1. n # 0
      <4>1. n = 0 => n * C = 0 BY <1>1
      <4> HIDE DEF n, C
      <4> QED BY <4>1
    <3>2. q \in 0 .. n - 1 /\ c \in 0 .. C - 1 /\ i = q * C + c
      <4>1. n \in Nat \ {0} /\ C \in Nat \ {0} /\ k \in 1 .. n * C BY <1>1, <1>2, <3>1
      <4> HIDE DEF n, C
      <4>2. IsRowPlace(n, C, k) BY <4>1, PlaceInRows
      <4> QED BY <4>2, Zenon DEF IsRowPlace
    <3> HIDE DEF q, c, i
    <3>3. from + q \in 0 .. m.rows - 1 BY <1>1, <3>2
    <3>4. DecodedWeight(payload, at, v, q, c) = <<tensor, first + ((from + q) * m.cols + c)>>
      BY <1>2, <1>3, <3>2, <3>3, WeightUnpacked
    <3>5. first + ((from + q) * C + c) = (first + from * C) + i
      <4> HIDE DEF C, n
      <4>1. (from + q) * C = from * C + q * C BY <1>1, <1>2, <3>2, DistributeRows
      <4>2. from * C \in Nat /\ q * C \in Nat BY <1>1, <1>2, <3>2, TimesNat
      <4> QED BY <1>2, <3>2, <4>1, <4>2
    <3> QED BY <3>4, <3>5 DEF q, c, i
  <2>2. DecodeRecord(payload, at, v)
          = [k \in 1 .. n * C |-> DecodedWeight(payload, at, v, (k - 1) \div C, (k - 1) % C)]
    BY <1>3 DEF DecodeRecord
  <2> HIDE DEF n, C
  <2> QED BY <2>1, <2>2, Zenon DEF Stretch
<1>4. CASE m.bits >= 16
  <2>1. whole.rows = n /\ whole.cols = m.cols /\ whole.bits = m.bits /\ whole.group = m.group
        /\ whole.sym = m.sym
    BY RowsOfMatrix
  <2>2. \A q \in 0 .. n - 1 : \A c \in 0 .. C - 1 : IsView(m, 0, whole, from * stride, q, from + q, c)
    <3> SUFFICES ASSUME NEW q \in 0 .. n - 1, NEW c \in 0 .. C - 1
                 PROVE  IsView(m, 0, whole, from * stride, q, from + q, c)
      OBVIOUS
    <3> HIDE DEF whole
    <3>1. q \in Nat OBVIOUS
    <3> QED BY <1>4, <2>1, <3>1, StoredRowView
  <2> HIDE DEF whole
  <2>3. DecodeRecord(payload, from * stride, whole) = Stretch(tensor, first + from * C, n * C)
    BY <1>3, <2>1, <2>2
  <2>4. m.bits >= 16 BY <1>4
  <2> QED BY <2>3, <2>4, Zenon DEF DecodeRows, whole
<1>5. CASE ~(m.bits >= 16) /\ RowsAligned(m)
  <2>1. from * stride \in Nat /\ from * meta \in Nat
    <3>1. stride \in Nat BY <1>5, RowStride
    <3>2. C \div m.group \in Nat
      <4>1. C \in Nat BY <1>1
      <4> QED BY <1>1, <4>1, DivIsNat
    <3>3. meta \in Nat BY <3>2 DEF MetaBytes
    <3> HIDE DEF stride, meta
    <3> QED BY <3>1, <3>3, TimesNat
  <2>2. /\ part.rows = n /\ part.cols = m.cols /\ part.bits = m.bits /\ part.group = m.group
        /\ part.sym = m.sym /\ part.spans.codes.at = m.spans.codes.at + from * stride
        /\ SectionAt(part, "scales") = SectionAt(m, "scales") + from * meta
        /\ SectionAt(part, "zeros") = SectionAt(m, "zeros") + from * meta
    <3> DEFINE x == from * stride  y == from * meta
    <3>1. x \in Nat /\ y \in Nat BY <2>1
    <3>2. part = PartOf(m, n, x, y) BY DEF PartOf
    <3> HIDE DEF x, y, part
    <3>3. /\ part.rows = n /\ part.cols = m.cols /\ part.bits = m.bits /\ part.group = m.group
          /\ part.sym = m.sym /\ part.spans.codes.at = m.spans.codes.at + x
          /\ SectionAt(part, "scales") = SectionAt(m, "scales") + y
          /\ SectionAt(part, "zeros") = SectionAt(m, "zeros") + y
      <4> HIDE DEF n, meta, stride
      <4>1. IsPart(m, PartOf(m, n, x, y), n, x, y) BY <1>2, <3>1, PartOfMatrix
      <4> QED BY <3>2, <4>1, Zenon DEF IsPart
    <3> QED BY <3>3 DEF x, y
  <2> HIDE DEF part
  <2>3. SectionAt(m, "scales") \in Nat /\ SectionAt(m, "zeros") \in Nat
    BY DEF MatrixRecords, Section, SectionAt
  <2>4. \A q \in 0 .. n - 1 : \A c \in 0 .. C - 1 : IsView(m, 0, part, 0, q, from + q, c)
    <3> SUFFICES ASSUME NEW q \in 0 .. n - 1, NEW c \in 0 .. C - 1
                 PROVE  IsView(m, 0, part, 0, q, from + q, c)
      OBVIOUS
    <3>1. q \in Nat OBVIOUS
    <3> QED BY <1>5, <2>2, <2>3, <3>1, PackedRowView
  <2>5. DecodeRecord(payload, 0, part) = Stretch(tensor, first + from * C, n * C)
    BY <1>3, <2>2, <2>4
  <2>6. ~(m.bits >= 16) BY <1>5 DEF IsMatrix, Widths
  <2> QED BY <1>5, <2>5, <2>6, Zenon DEF DecodeRows, part
<1>6. CASE ~(m.bits >= 16) /\ ~RowsAligned(m)
  <2> DEFINE a == from * C  b == to * C  N == m.rows * C
  <2>1. a \in Nat /\ b \in Nat /\ N \in Nat BY <1>1, TimesNat
  <2>2. a <= b /\ b <= N
    <3>1. C * from <= C * to /\ C * to <= C * m.rows
      <4>1. C \in Nat /\ m.rows \in Nat BY <1>1
      <4> QED BY <4>1, TimesMonotone
    <3>2. C * from = a /\ C * to = b /\ C * m.rows = N
      <4>1. \A x, y \in Nat : x * y = y * x OBVIOUS
      <4> QED BY <1>1, <4>1
    <3> QED BY <3>1, <3>2
  <2>3. DecodeRecord(payload, 0, m) = Stretch(tensor, first, N) BY RecordUnpacked
  <2>4. b - a = n * C
    <3>1. (from + n) * C = from * C + n * C BY <1>1, <1>2, DistributeRows
    <3>2. from + n = to OBVIOUS
    <3>3. n * C \in Nat BY <1>1, <1>2, TimesNat
    <3> QED BY <2>1, <3>1, <3>2, <3>3
  <2>5. ~(m.bits >= 16) BY <1>6 DEF IsMatrix, Widths
  <2>6. DecodeRows(payload, m, from, to) = SubSeq(DecodeRecord(payload, 0, m), a + 1, b)
    BY <1>6, <2>5, Zenon DEF DecodeRows
  <2> HIDE DEF a, b, N
  <2>7. SubSeq(Stretch(tensor, first, N), a + 1, b) = Stretch(tensor, first + a, b - a)
    <3>1. IsCut(tensor, first, N, a, b) BY <2>1, <2>2, StretchOfStretch
    <3> QED BY <3>1, Zenon DEF IsCut
  <2> QED BY <2>3, <2>4, <2>6, <2>7 DEF a
<1> QED BY <1>4, <1>5, <1>6

LEMMA MatrixIsRecord ==
  ASSUME NEW shape \in Shapes, NEW entry \in Precisions, NEW m, m = Matrix(shape, entry)
  PROVE  m \in MatrixRecords
<1> DEFINE b == entry.bits  R == Rows(shape)  C == Cols(shape)  g == ResolveGroup(C, entry.group)
           q == ResolveGroup(C, g)  p == CeilDiv(C, q)  w == IF b >= 16 THEN C ELSE p * q
           codes == WeightBytes(R * w, b)
           meta == IF b >= 16 THEN 0 ELSE R * p * MetaBytes
           zeros == IF entry.sym THEN 0 ELSE meta
<1>1. b \in Nat \ {0} /\ entry.group \in Int /\ entry.sym \in BOOLEAN BY DEF Precisions
<1>2. R \in Nat \ {0} /\ C \in Nat \ {0} BY ShapeFacts
<1>3. m = [rows |-> R, cols |-> C, bits |-> b, group |-> g, sym |-> entry.sym,
           spans |-> [codes |-> [at |-> 0, len |-> codes], scales |-> [at |-> codes, len |-> meta],
                      zeros |-> [at |-> codes + meta, len |-> zeros]]]
  BY Zenon DEF Matrix, Spans
<1> HIDE DEF b, R, C
<1>4. g \in Nat \ {0} BY <1>1, <1>2, GroupFacts
<1> HIDE DEF g
<1>5. q \in Nat \ {0} BY <1>2, <1>4, GroupFacts
<1> HIDE DEF q
<1>6. p \in Nat \ {0} BY <1>2, <1>5, CeilDivFacts
<1> HIDE DEF p
<1>7. R * p \in Nat \ {0} /\ R * w \in Nat \ {0}
  <2>1. \A x, y \in Nat \ {0} : x * y \in Nat \ {0} OBVIOUS
  <2>2. w \in Nat \ {0} BY <1>2, <1>5, <1>6, <2>1
  <2> HIDE DEF w
  <2> QED BY <1>2, <1>6, <2>1, <2>2
<1>8. codes \in Nat /\ meta \in Nat
  <2>1. codes \in Nat
    <3> DEFINE n == R * w
    <3> HIDE DEF n
    <3>1. n \in Nat \ {0} BY <1>7 DEF n
    <3>2. WeightBytes(n, b) \in Nat \ {0} BY <1>1, <3>1, WeightFacts
    <3> QED BY <3>2 DEF n
  <2>2. R * p * 2 \in Nat BY <1>7, TimesNat
  <2> QED BY <2>1, <2>2 DEF MetaBytes
<1> HIDE DEF codes, meta
<1>9. zeros \in Nat BY <1>8
<1> HIDE DEF zeros
<1>10. codes + meta \in Nat BY <1>8
<1> QED BY <1>1, <1>2, <1>3, <1>4, <1>8, <1>9, <1>10 DEF MatrixRecords, Section

\* The sections of a matrix are as long as what is reserved for it.
LEMMA LengthReserved ==
  ASSUME NEW shape \in Shapes, NEW entry \in Precisions, entry.bits \in Widths,
         NEW m, m = Matrix(shape, entry)
  PROVE  MatrixBytes(m) = WeightBytes(m.rows * m.cols, m.bits)
           + NumberCount(m, "scales") * 2 + NumberCount(m, "zeros") * 2
<1> DEFINE R == Rows(shape)  C == Cols(shape)  g == ResolveGroup(C, entry.group)  b == entry.bits
           meta == IF b >= 16 THEN 0 ELSE R * CeilDiv(C, g) * MetaBytes
           l == WeightBytes(R * (IF b >= 16 THEN C ELSE CeilDiv(C, g) * g), b)
<1>1. R \in Nat \ {0} /\ C \in Nat \ {0} /\ b \in Nat \ {0} /\ entry.group \in Int
      /\ entry.sym \in BOOLEAN
  BY ShapeFacts DEF Precisions
<1>2. g \in Nat \ {0} /\ C % g = 0
  <2> HIDE DEF C
  <2> QED BY <1>1, GroupFacts, GroupDivides
<1>3. ResolveGroup(C, g) = g
  <2> HIDE DEF C, g
  <2> QED BY <1>1, <1>2, GroupIsResolved
<1>4. /\ m.rows = R /\ m.cols = C /\ m.group = g /\ m.bits = b /\ m.sym = entry.sym
      /\ m.spans.codes.len = l /\ m.spans.scales.len = meta
      /\ m.spans.zeros.len = IF entry.sym THEN 0 ELSE meta
  BY <1>3 DEF Matrix, Spans
<1>5. CeilDiv(C, g) = C \div g /\ CeilDiv(C, g) \in Nat \ {0} /\ CeilDiv(C, g) * g = C
  <2> DEFINE p == C \div g
  <2>1. p = C \div g OBVIOUS
  <2> HIDE DEF C, g, p
  <2> QED BY <1>1, <1>2, <2>1, WholeGroups
<1>6. l = WeightBytes(m.rows * m.cols, m.bits) BY <1>4, <1>5
<1>7. /\ NumberCount(m, "scales") * 2 = meta
      /\ NumberCount(m, "zeros") * 2 = IF entry.sym THEN 0 ELSE meta
  <2>1. "scales" # "zeros" OBVIOUS
  <2> DEFINE n == R * CeilDiv(C, g)
  <2>2. n \in Nat
    <3> HIDE DEF R, C, g
    <3> QED BY <1>1, <1>5, TimesNat
  <2>3. /\ NumberCount(m, "scales") = IF b >= 16 THEN 0 ELSE n
        /\ NumberCount(m, "zeros") = IF b >= 16 \/ entry.sym THEN 0 ELSE n
    BY <1>4, <1>5, <2>1 DEF NumberCount
  <2>4. meta = IF b >= 16 THEN 0 ELSE n * 2 BY DEF MetaBytes
  <2> HIDE DEF n, meta
  <2> QED BY <2>2, <2>3, <2>4
<1> QED BY <1>4, <1>6, <1>7 DEF MatrixBytes, SpanBytes

\* For every shape and every precision a quantizer packs (up to eight bits, or
\* kept as fp16 from sixteen on): a record is as long as the plan reserved for it,
\* and what a quantizer packs, a reader gets back weight for weight, the whole
\* matrix (decode_record) or any of its rows (decode_rows), each weight with the
\* scale and the zero point of its own group, whether rows begin on a byte or not.
THEOREM QuantizedIsUnpacked ==
  ASSUME NEW shape \in Shapes, NEW entry \in Precisions, NEW m, m = Matrix(shape, entry),
         Packable(m), NEW tensor, NEW first \in Int
  PROVE  LET bytes == Encode(tensor, first, m)
         IN  /\ DOMAIN bytes = 1 .. MatrixBytes(m)
             /\ DecodeRecord(bytes, 0, m) = Stretch(tensor, first, Size(shape))
             /\ \A from, to \in Nat : from <= to /\ to <= m.rows =>
                  DecodeRows(bytes, m, from, to)
                    = Stretch(tensor, first + from * m.cols, (to - from) * m.cols)
<1> DEFINE bytes == Encode(tensor, first, m)
<1>0. entry.bits \in Widths BY DEF Packable, Matrix, Widths, Precisions
<1>1. IsMatrix(m) /\ m.rows * m.cols = Size(shape) BY <1>0, MatricesAreMatrices
<1>2. m \in MatrixRecords BY MatrixIsRecord
<1>3. DOMAIN bytes = 1 .. MatrixBytes(m) /\ Holds(bytes, 0, bytes) /\ 0 \in Nat
  <2> DEFINE l == WeightBytes(m.rows * m.cols, m.bits)
             x == NumberCount(m, "scales")  y == NumberCount(m, "zeros")
  <2>1. SectionsOf(m, tensor, first, l, x, y) BY <1>1, Sections
  <2>2. DOMAIN bytes = 1 .. l + x * 2 + y * 2 BY <2>1, Zenon DEF SectionsOf, AreJoined
  <2>3. MatrixBytes(m) = l + x * 2 + y * 2 BY <1>0, LengthReserved
  <2> HIDE DEF bytes, l, x, y
  <2>4. \A i \in DOMAIN bytes : 0 + i = i BY <2>2
  <2> QED BY <2>2, <2>3, <2>4 DEF Holds
<1> HIDE DEF bytes
<1>4. DecodeRecord(bytes, 0, m) = Stretch(tensor, first, Size(shape))
  <2>1. Holds(bytes, 0, Encode(tensor, first, m)) BY <1>3 DEF bytes
  <2>2. DecodeRecord(bytes, 0, m) = Stretch(tensor, first, m.rows * m.cols)
    BY <1>1, <1>3, <2>1, RecordUnpacked
  <2> QED BY <1>1, <2>2
<1>5. ASSUME NEW from \in Nat, NEW to \in Nat, from <= to, to <= m.rows
      PROVE  DecodeRows(bytes, m, from, to)
               = Stretch(tensor, first + from * m.cols, (to - from) * m.cols)
  <2>1. Holds(bytes, 0, Encode(tensor, first, m)) BY <1>3 DEF bytes
  <2> QED BY <1>1, <1>2, <1>5, <2>1, RowsUnpacked
<1> QED BY <1>3, <1>4, <1>5 DEF bytes

-----------------------------------------------------------------------------
(* The plan of a package, from the order it was made for.                  *)

PlanInv ==
  /\ order \in Orders
  /\ stage = "planned" => plan = Plan(order) /\ ~Refused(order)

LEMMA PlanInvStarts == Init => PlanInv
BY DEF Init, PlanInv

LEMMA PlanInvKept == PlanInv /\ [Next]_vars => PlanInv'
<1> SUFFICES ASSUME PlanInv, [Next]_vars PROVE PlanInv' OBVIOUS
<1>1. CASE PlanPackage BY <1>1 DEF PlanPackage, PlanInv
<1>2. CASE StartBuild BY <1>2 DEF StartBuild, PlanInv
<1>3. CASE WriteItem BY <1>3 DEF WriteItem, PlanInv
<1>4. CASE WriteMetadata BY <1>4 DEF WriteMetadata, PlanInv
<1>5. CASE Finish BY <1>5 DEF Finish, PlanInv
<1>6. ASSUME NEW what, Damage(what) PROVE PlanInv' BY <1>6 DEF Damage, PlanInv
<1>7. ASSUME NEW r \in Regions,
             (\E i \in 1 .. Len(files[r]) : Corrupt(r, i)) \/ Truncate(r) \/ Delete(r) \/ Undescribe(r)
      PROVE  PlanInv'
  BY <1>6, <1>7 DEF Corrupt, Truncate, Delete, Undescribe
<1>8. CASE ReplaceConfig BY <1>6, <1>8 DEF ReplaceConfig
<1>9. ASSUME NEW mode, Validate(mode) PROVE PlanInv' BY <1>9 DEF Validate, PlanInv
<1>10. ASSUME NEW n, ReadLinear(n) \/ \E ids \in Histories : ReadEmbedding(n, ids) PROVE PlanInv'
  BY <1>10 DEF ReadLinear, ReadEmbedding, PlanInv
<1>11. ASSUME NEW layer, NEW e, ReadExpert(layer, e) PROVE PlanInv' BY <1>11 DEF ReadExpert, PlanInv
<1>12. CASE LoadModel BY <1>12 DEF LoadModel, PlanInv
<1>13. ASSUME NEW tokens, ReadStep(tokens) PROVE PlanInv' BY <1>13 DEF ReadStep, PlanInv
<1>14. CASE UNCHANGED vars BY <1>14 DEF vars, PlanInv
<1> QED BY <1>1, <1>2, <1>3, <1>4, <1>5, <1>7, <1>8, <1>9, <1>10, <1>11, <1>12, <1>13, <1>14 DEF Next

LEMMA PlanInvIsSound == PlanInv => PlanIsSound
<1> SUFFICES ASSUME PlanInv PROVE PlanIsSound OBVIOUS
<1>1. IsOrder(order) BY PackageAssumption DEF PlanInv
<1>2. ItemsApart
  <2> SUFFICES ASSUME stage = "planned" PROVE ItemsApart BY DEF ItemsApart
  <2>1. plan = Plan(order) /\ ~Refused(order) BY DEF PlanInv
  <2>2. /\ ~Overlap({<<DenseAt(plan.dense, k), DenseAt(plan.dense, k) + MatrixBytes(plan.dense[k])>> :
                        k \in 1 .. Len(plan.dense)}, plan.bytes.dense)
        /\ \A v, w \in ToSet(plan.work) :
             v.region = "experts" /\ w.region = "experts" /\ v # w =>
               v.at + plan.record.payload <= w.at \/ w.at + plan.record.payload <= v.at
        /\ \A w \in ToSet(plan.work) :
             w.region = "experts" => w.at + plan.record.payload <= plan.bytes.experts
        /\ plan.bytes.ple > 0 => \A i \in 0 .. PhysicalRows(order) - 1 :
             LET at == RowOffset(plan.row, i)
             IN  /\ at + plan.row.payload <= plan.bytes.ple
                 /\ \A j \in 0 .. i - 1 : RowOffset(plan.row, j) + plan.row.payload <= at
                 /\ at % PageBytes = 0 \/ at \div PageBytes = (at + plan.row.payload - 1) \div PageBytes
    BY <1>1, <2>1, AddressesApart, Zenon
  <2> QED BY <2>2, Zenon DEF ItemsApart, DenseLayoutErrors
<1>3. NothingVanishes
  <2> SUFFICES ASSUME stage = "planned", order.profile = "full", "text" \in order.features,
                      order.experts > 0 \/ BankLayers(order) = {},
                      \A t \in Of(order, "experts_routed") : t.part < order.experts
               PROVE  Totals(order).packaged + Totals(order).dropped = Totals(order).source
    BY DEF NothingVanishes
  <2>1. ~Refused(order) BY DEF PlanInv
  <2> QED BY <1>1, <2>1, TotalsAddUp
<1> QED BY <1>2, <1>3 DEF PlanIsSound

\* For every checkpoint, precision map and profile that plan_package does not
\* refuse: no two items of the plan share a byte of their region, every item lies
\* inside it, a row of the table that fits into a page lies within one, and what
\* a full package holds and what its features leave out are together, parameter
\* for parameter, what the checkpoint has.
THEOREM PlansAreSound == Spec => []PlanIsSound
<1>1. Init => PlanInv BY PlanInvStarts
<1>2. PlanInv /\ [Next]_vars => PlanInv' BY PlanInvKept
<1>3. PlanInv => PlanIsSound BY PlanInvIsSound
<1> QED BY <1>1, <1>2, <1>3, PTL DEF Spec
==============================================================================
