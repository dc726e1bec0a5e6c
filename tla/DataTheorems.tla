---------------------------- MODULE DataTheorems ----------------------------
(***************************************************************************)
(* What the library's operators on finite data do, for any data: sums over *)
(* sets, least elements, sequences of distinct elements.  The models use   *)
(* these operators for byte budgets, for the rows of an index and for      *)
(* ordered dicts.                                                          *)
(***************************************************************************)
EXTENDS SequencesExt, SequenceTheorems, FiniteSetTheorems, TLAPS

-----------------------------------------------------------------------------
(* Least and largest numbers.                                              *)

LEMMA LeastNumber ==
  ASSUME NEW C \in SUBSET Nat, C # {}
  PROVE  \E n \in C : \A m \in C : n <= m
<1> DEFINE R == {ss \in Nat \X Nat : ss[1] < ss[2]}
<1>1. IsWellFoundedOn(R, Nat) BY NatLessThanWellFounded DEF OpToRel
<1>2. PICK n \in C : \A m \in C : <<m, n>> \notin R
  <2> HIDE DEF R
  <2> QED BY <1>1, WFMin
<1>3. ASSUME NEW m \in C PROVE n <= m
  <2>1. <<m, n>> \in Nat \X Nat /\ <<m, n>>[1] = m /\ <<m, n>>[2] = n OBVIOUS
  <2> QED BY <1>2, <2>1
<1> QED BY <1>3

LEMMA MinFacts ==
  ASSUME NEW C \in SUBSET Nat, C # {}
  PROVE  Min(C) \in C /\ \A m \in C : Min(C) <= m
BY LeastNumber DEF Min

LEMMA MaxOfTwo ==
  ASSUME NEW a \in Int, NEW b \in Int
  PROVE  Max({a, b}) = IF a >= b THEN a ELSE b
<1>1. \E x \in {a, b} : \A y \in {a, b} : x >= y OBVIOUS
<1> DEFINE m == CHOOSE x \in {a, b} : \A y \in {a, b} : x >= y
<1>2. m \in {a, b} /\ \A y \in {a, b} : m >= y BY <1>1
<1> HIDE DEF m
<1>3. m = IF a >= b THEN a ELSE b BY <1>2
<1> QED BY <1>3 DEF Max, m

LEMMA MinOfTwo ==
  ASSUME NEW a \in Int, NEW b \in Int
  PROVE  Min({a, b}) = IF a <= b THEN a ELSE b
<1>1. \E x \in {a, b} : \A y \in {a, b} : x <= y OBVIOUS
<1> DEFINE m == CHOOSE x \in {a, b} : \A y \in {a, b} : x <= y
<1>2. m \in {a, b} /\ \A y \in {a, b} : m <= y BY <1>1
<1> HIDE DEF m
<1>3. m = IF a <= b THEN a ELSE b BY <1>2
<1> QED BY <1>3 DEF Min, m

-----------------------------------------------------------------------------
(* Quotients and rests.                                                    *)

\* A number is its quotient times the divisor, and a rest below the divisor.
LEMMA DivFacts ==
  ASSUME NEW a \in Int, NEW b \in Nat \ {0}
  PROVE  /\ a \div b \in Int /\ a % b \in 0 .. b - 1
         /\ a = b * (a \div b) + (a % b)
OBVIOUS

\* Quotient and rest of numbers are numbers.
LEMMA DivIsNat == ASSUME NEW a \in Nat, NEW b \in Nat \ {0} PROVE a \div b \in Nat /\ a % b \in Nat
OBVIOUS

\* Products are numbers and commute.
LEMMA TimesType ==
  ASSUME NEW a \in Int, NEW b \in Int PROVE a * b \in Int /\ a * b = b * a
OBVIOUS

\* Products of naturals are natural.
LEMMA TimesNat == ASSUME NEW a \in Nat, NEW b \in Nat PROVE a * b \in Nat
OBVIOUS

\* A larger factor gives a larger product.
LEMMA TimesMonotone ==
  ASSUME NEW a \in Int, NEW b \in Int, NEW c \in Nat, a <= b
  PROVE  c * a <= c * b
OBVIOUS

\* A quotient and its rest are those of one number only.
LEMMA DivIsUnique ==
  ASSUME NEW b \in Nat \ {0}, NEW q \in Int, NEW r \in 0 .. b - 1
  PROVE  (b * q + r) \div b = q /\ (b * q + r) % b = r
<1> DEFINE a == b * q + r
<1>1. a \in Int BY TimesType
<1> HIDE DEF a
<1>2. /\ a \div b \in Int /\ a % b \in 0 .. b - 1 /\ a = b * (a \div b) + (a % b)
  BY <1>1, DivFacts
<1> DEFINE p == a \div b
           s == a % b
<1>3. p \in Int /\ s \in 0 .. b - 1 /\ b * q + r = b * p + s BY <1>2 DEF a
<1> HIDE DEF p, s
<1>4. p = q
  <2>1. CASE p < q
    <3>1. b * (p + 1) <= b * q BY <1>3, <2>1, TimesMonotone
    <3>2. b * (p + 1) = b * p + b BY <1>3
    <3> QED BY <1>3, <3>1, <3>2, TimesType
  <2>2. CASE q < p
    <3>1. b * (q + 1) <= b * p BY <1>3, <2>2, TimesMonotone
    <3>2. b * (q + 1) = b * q + b BY <1>3
    <3> QED BY <1>3, <3>1, <3>2, TimesType
  <2> QED BY <1>3, <2>1, <2>2
<1>5. s = r BY <1>3, <1>4, TimesType
<1> QED BY <1>4, <1>5 DEF p, s, a

\* Whole parts in front of a number raise its quotient and leave its rest.
LEMMA DivOfSum ==
  ASSUME NEW b \in Nat \ {0}, NEW n \in Int, NEW k \in Int
  PROVE  (b * n + k) \div b = n + (k \div b) /\ (b * n + k) % b = k % b
<1> DEFINE q == k \div b
           r == k % b
<1>1. q \in Int /\ r \in 0 .. b - 1 /\ k = b * q + r BY DivFacts
<1> HIDE DEF q, r
<1>2. b * n + k = b * (n + q) + r BY <1>1
<1>3. n + q \in Int BY <1>1
<1>4. (b * (n + q) + r) \div b = n + q /\ (b * (n + q) + r) % b = r
  BY <1>1, <1>3, DivIsUnique
<1> QED BY <1>2, <1>4 DEF q, r

\* The quotient rounded up is enough, and less than one too many.
LEMMA RoundedUp ==
  ASSUME NEW a \in Nat, NEW b \in Nat \ {0}
  PROVE  /\ (a + b - 1) \div b \in Nat
         /\ a <= b * ((a + b - 1) \div b)
         /\ b * ((a + b - 1) \div b) <= a + b - 1
         /\ a > 0 => (a + b - 1) \div b > 0
<1> DEFINE c == a + b - 1
           q == c \div b
           r == c % b
<1>1. c \in Nat /\ c = a + b - 1 OBVIOUS
<1> HIDE DEF c
<1>2. q \in Nat /\ r \in 0 .. b - 1 /\ c = b * q + r
  <2>1. q \in Int /\ r \in 0 .. b - 1 /\ c = b * q + r BY <1>1, DivFacts
  <2>2. q \in Nat BY <1>1, DivIsNat
  <2> QED BY <2>1, <2>2
<1> HIDE DEF q, r
<1>3. b * q \in Int BY <1>2, TimesType
<1>4. a <= b * q /\ b * q <= a + b - 1 BY <1>1, <1>2, <1>3
<1>5. a > 0 => q > 0
  <2>1. q = 0 => b * q = 0 BY <1>2
  <2> QED BY <1>2, <1>4, <2>1
<1> QED BY <1>2, <1>4, <1>5 DEF q, c

-----------------------------------------------------------------------------
(* Sequences of distinct elements.                                         *)

Distinct(K) == {d \in Seq(K) : IsInjective(d)}

LEMMA EmptyFacts == ASSUME NEW K PROVE <<>> \in Distinct(K) /\ ToSet(<<>>) = {}
BY DEF Distinct, IsInjective, ToSet

\* An element appended to a sequence that lacks it.
LEMMA AppendFacts ==
  ASSUME NEW K, NEW d \in Distinct(K), NEW k \in K, k \notin ToSet(d)
  PROVE  /\ Append(d, k) \in Distinct(K)
         /\ ToSet(Append(d, k)) = ToSet(d) \union {k}
         /\ Len(Append(d, k)) = Len(d) + 1
<1> d \in Seq(K) BY DEF Distinct
<1> DEFINE e == Append(d, k)
<1>1. /\ e \in Seq(K) /\ Len(e) = Len(d) + 1 /\ e[Len(d) + 1] = k
      /\ \A i \in 1..Len(d) : e[i] = d[i]
  OBVIOUS
<1>2. DOMAIN e = 1..(Len(d) + 1) /\ DOMAIN d = 1..Len(d) /\ Len(d) \in Nat
  BY <1>1
<1> HIDE DEF e
<1>3. ToSet(e) = ToSet(d) \union {k}
  <2>1. ASSUME NEW x \in ToSet(e) PROVE x \in ToSet(d) \union {k}
    <3>1. PICK i \in DOMAIN e : e[i] = x BY DEF ToSet
    <3> QED BY <3>1, <1>1, <1>2 DEF ToSet
  <2>2. ASSUME NEW x \in ToSet(d) PROVE x \in ToSet(e)
    <3>1. PICK i \in DOMAIN d : d[i] = x BY DEF ToSet
    <3>2. i \in DOMAIN e /\ e[i] = x BY <3>1, <1>1, <1>2
    <3> QED BY <3>2 DEF ToSet
  <2>3. k \in ToSet(e)
    <3>1. Len(d) + 1 \in DOMAIN e BY <1>2
    <3> QED BY <3>1, <1>1 DEF ToSet
  <2> QED BY <2>1, <2>2, <2>3
<1>4. IsInjective(e)
  <2>1. SUFFICES ASSUME NEW a \in DOMAIN e, NEW b \in DOMAIN e, e[a] = e[b] PROVE a = b
    BY DEF IsInjective
  <2>2. \A i \in 1..Len(d) : d[i] # k BY <1>2 DEF ToSet
  <2>3. \A i, j \in 1..Len(d) : d[i] = d[j] => i = j BY <1>2 DEF Distinct, IsInjective
  <2> QED BY <2>1, <2>2, <2>3, <1>1, <1>2
<1> QED BY <1>1, <1>3, <1>4 DEF e, Distinct

\* One position taken out.
LEMMA RemoveAtFacts ==
  ASSUME NEW K, NEW d \in Distinct(K), NEW n \in DOMAIN d
  PROVE  /\ RemoveAt(d, n) \in Distinct(K)
         /\ ToSet(RemoveAt(d, n)) = ToSet(d) \ {d[n]}
         /\ Len(RemoveAt(d, n)) = Len(d) - 1
<1> DEFINE e == RemoveAt(d, n)
<1> d \in Seq(K) /\ DOMAIN d = 1..Len(d) /\ Len(d) \in Nat BY DEF Distinct
<1>1. /\ e \in Seq(K) /\ Len(e) = Len(d) - 1
      /\ \A i \in 1..(Len(d) - 1) : e[i] = IF i < n THEN d[i] ELSE d[i + 1]
  <2> DEFINE p == SubSeq(d, 1, n - 1)
             q == SubSeq(d, n + 1, Len(d))
  <2>1. p \in Seq(K) /\ Len(p) = n - 1 /\ \A i \in 1..(n - 1) : p[i] = d[i]
    OBVIOUS
  <2>2. /\ q \in Seq(K) /\ Len(q) = Len(d) - n
        /\ \A i \in 1..(Len(d) - n) : q[i] = d[n + i]
    OBVIOUS
  <2>3. e = p \o q BY DEF RemoveAt
  <2> HIDE DEF p, q, e
  <2>n. n \in 1..Len(d) /\ Len(d) \in Nat OBVIOUS
  <2>4. e \in Seq(K) /\ Len(e) = Len(d) - 1
    <3>1. p \o q \in Seq(K) BY <2>1, <2>2, ConcatProperties
    <3>2. Len(p \o q) = Len(p) + Len(q) BY <2>1, <2>2, ConcatProperties
    <3>3. e \in Seq(K) BY <3>1, <2>3
    <3>4. Len(e) = (n - 1) + (Len(d) - n) BY <3>2, <2>1, <2>2, <2>3
    <3> QED BY <3>3, <3>4, <2>n
  <2>5. ASSUME NEW i \in 1..(Len(d) - 1)
        PROVE  e[i] = IF i < n THEN d[i] ELSE d[i + 1]
    <3>1. e[i] = IF i <= Len(p) THEN p[i] ELSE q[i - Len(p)] BY <2>1, <2>2, <2>3
    <3> QED BY <3>1, <2>1, <2>2
  <2> QED BY <2>4, <2>5
<1>2. DOMAIN e = 1..(Len(d) - 1) BY <1>1
<1> HIDE DEF e
<1>3. \A i, j \in 1..Len(d) : d[i] = d[j] => i = j BY DEF Distinct, IsInjective
<1>4. ToSet(e) = ToSet(d) \ {d[n]}
  <2>1. ASSUME NEW x \in ToSet(e) PROVE x \in ToSet(d) /\ x # d[n]
    <3>1. PICK i \in DOMAIN e : e[i] = x BY DEF ToSet
    <3>2. PICK j \in 1..Len(d) : j # n /\ d[j] = x BY <3>1, <1>1, <1>2
    <3> QED BY <3>2, <1>3 DEF ToSet
  <2>2. ASSUME NEW x \in ToSet(d), x # d[n] PROVE x \in ToSet(e)
    <3>1. PICK i \in DOMAIN d : d[i] = x BY DEF ToSet
    <3>2. PICK j \in DOMAIN e : e[j] = x
      <4>1. CASE i < n BY <4>1, <3>1, <1>1, <1>2
      <4>2. CASE i > n
        <5>1. i - 1 \in 1..(Len(d) - 1) /\ ~(i - 1 < n) BY <4>2
        <5>2. e[i - 1] = d[i] BY <5>1, <1>1
        <5> QED BY <5>1, <5>2, <3>1, <1>2
      <4> QED BY <4>1, <4>2, <2>2, <3>1
    <3> QED BY <3>2 DEF ToSet
  <2> QED BY <2>1, <2>2
<1>5. IsInjective(e) BY <1>1, <1>2, <1>3 DEF IsInjective
<1> QED BY <1>1, <1>4, <1>5 DEF e, Distinct

\* The head of a sequence of distinct elements, and the rest.
LEMMA TailFacts ==
  ASSUME NEW K, NEW d \in Distinct(K), d # <<>>
  PROVE  /\ Head(d) \in K /\ Tail(d) \in Seq(K) /\ Len(Tail(d)) = Len(d) - 1
         /\ ToSet(d) = ToSet(Tail(d)) \union {Head(d)} /\ Head(d) \notin ToSet(Tail(d))
<1> DEFINE e == Tail(d)
<1>1. /\ d \in Seq(K) /\ Len(d) \in Nat \ {0} /\ DOMAIN d = 1..Len(d)
      /\ \A i, j \in 1..Len(d) : d[i] = d[j] => i = j
  BY DEF Distinct, IsInjective
<1>2. /\ Head(d) = d[1] /\ d[1] \in K /\ e \in Seq(K) /\ Len(e) = Len(d) - 1
      /\ \A i \in 1..(Len(d) - 1) : e[i] = d[i + 1]
  BY <1>1
<1>3. DOMAIN e = 1..(Len(d) - 1) BY <1>1, <1>2
<1> HIDE DEF e
<1>4. ASSUME NEW x \in ToSet(d) PROVE x \in ToSet(e) \union {d[1]}
  <2>1. PICK i \in 1..Len(d) : d[i] = x BY <1>1 DEF ToSet
  <2>2. CASE i = 1 BY <2>1, <2>2
  <2>3. CASE i # 1
    <3>1. i - 1 \in 1..(Len(d) - 1) /\ (i - 1) + 1 = i BY <1>1, <2>3
    <3>2. e[i - 1] = x BY <1>2, <2>1, <3>1
    <3> QED BY <1>3, <3>1, <3>2 DEF ToSet
  <2> QED BY <2>2, <2>3
<1>5. ASSUME NEW x \in ToSet(e) PROVE x \in ToSet(d) /\ x # d[1]
  <2>1. PICK i \in 1..(Len(d) - 1) : e[i] = x BY <1>3 DEF ToSet
  <2>2. i + 1 \in 1..Len(d) /\ i + 1 # 1 /\ 1 \in 1..Len(d) BY <1>1
  <2>3. d[i + 1] = x BY <1>2, <2>1
  <2> QED BY <1>1, <2>2, <2>3 DEF ToSet
<1>6. d[1] \in ToSet(d) BY <1>1 DEF ToSet
<1> QED BY <1>2, <1>4, <1>5, <1>6 DEF e

\* The first element taken out: popitem(last=False) of an ordered dict.
LEMMA TailIsRemoval ==
  ASSUME NEW K, NEW d \in Seq(K), d # <<>>
  PROVE  1 \in DOMAIN d /\ Head(d) = d[1] /\ Tail(d) = RemoveAt(d, 1)
<1>1. DOMAIN d = 1..Len(d) /\ Len(d) \in Nat \ {0} OBVIOUS
<1>2. SubSeq(d, 1, 0) = <<>> OBVIOUS
<1>3. Tail(d) = SubSeq(d, 2, Len(d)) OBVIOUS
<1>4. <<>> \o SubSeq(d, 2, Len(d)) = SubSeq(d, 2, Len(d)) OBVIOUS
<1> QED BY <1>1, <1>2, <1>3, <1>4 DEF RemoveAt

LEMMA PoppedFirst ==
  ASSUME NEW K, NEW d \in Distinct(K), d # <<>>
  PROVE  /\ Tail(d) \in Distinct(K) /\ Head(d) \in ToSet(d)
         /\ ToSet(Tail(d)) = ToSet(d) \ {Head(d)} /\ Len(Tail(d)) = Len(d) - 1
<1>1. d \in Seq(K) BY DEF Distinct
<1>2. 1 \in DOMAIN d /\ Head(d) = d[1] /\ Tail(d) = RemoveAt(d, 1) BY <1>1, TailIsRemoval
<1>3. 1 \in DOMAIN d BY <1>2
<1> DEFINE r == RemoveAt(d, 1)
<1>5. r \in Distinct(K) /\ ToSet(r) = ToSet(d) \ {d[1]} /\ Len(r) = Len(d) - 1
  BY <1>3, RemoveAtFacts
<1> HIDE DEF r
<1>6. Tail(d) = r BY <1>2 DEF r
<1>4. /\ Tail(d) \in Distinct(K) /\ Len(Tail(d)) = Len(d) - 1
      /\ ToSet(Tail(d)) = ToSet(d) \ {d[1]}
  BY <1>5, <1>6
<1> QED BY <1>2, <1>4 DEF ToSet

\* A sequence has finitely many elements.
LEMMA ElementsAreFinite ==
  ASSUME NEW K, NEW d \in Seq(K)
  PROVE  IsFiniteSet(ToSet(d)) /\ ToSet(d) \in SUBSET K
<1>1. Len(d) \in Nat /\ d \in [1..Len(d) -> ToSet(d)] BY DEF ToSet
<1>2. \A x \in ToSet(d) : \E i \in 1..Len(d) : d[i] = x BY DEF ToSet
<1>3. ExistsSurjection(1..Len(d), ToSet(d)) BY <1>1, <1>2 DEF ExistsSurjection, Surjection
<1> QED BY <1>1, <1>3, FS_NatSurjection DEF ToSet

-----------------------------------------------------------------------------
(***************************************************************************)
(* Folds.  The library folds a set by a recursive function on its subsets: *)
(* that there is such a function follows because the strict subset order   *)
(* is well founded: of the sets that have none one would be smallest.  The *)
(* argument is the same whatever is folded, so a fold has a name here, and *)
(* its operator is a case.                                                 *)
(***************************************************************************)

\* Among some subsets of a finite set there is one that has no smaller one.
LEMMA SmallestSubset ==
  ASSUME NEW S, IsFiniteSet(S), NEW C \in SUBSET SUBSET S, C # {}
  PROVE  \E s \in C : \A t \in C : t \subseteq s => t = s
<1>1. C \subseteq FiniteSubsetsOf(S) BY FS_FiniteSubsetsOfFinite
<1>2. PICK s \in C : \A t \in C : <<t, s>> \notin StrictSubsetOrdering(S)
  BY <1>1, WFMin, FS_StrictSubsetOrderingWellFounded
<1>3. ASSUME NEW t \in C, t \subseteq s PROVE t = s
  <2>1. <<t, s>> \in (SUBSET S) \X (SUBSET S) OBVIOUS
  <2>2. <<t, s>>[1] = t /\ <<t, s>>[2] = s OBVIOUS
  <2> QED BY <1>2, <1>3, <2>1, <2>2 DEF StrictSubsetOrdering
<1> QED BY <1>3

\* A finite set of numbers that is not empty has a greatest element.
LEMMA GreatestNumber ==
  ASSUME NEW S, IsFiniteSet(S), S # {}
  PROVE  S \subseteq Nat => \E m \in S : \A n \in S : n <= m
<1> DEFINE C == {s \in SUBSET S : s # {} /\ ~ \E m \in s : \A n \in s : n <= m}
<1>0. C # {} => \E s \in C : \A t \in C : t \subseteq s => t = s
  <2>1. C \in SUBSET SUBSET S OBVIOUS
  <2> HIDE DEF C
  <2> QED BY <2>1, SmallestSubset
<1> SUFFICES ASSUME S \subseteq Nat, C # {} PROVE FALSE OBVIOUS
<1>1. PICK s \in C : \A t \in C : t \subseteq s => t = s BY <1>0
<1>2. PICK x \in s : TRUE BY <1>1
<1> DEFINE t == s \ {x}
<1>3. t \in SUBSET S /\ t \subseteq s /\ t # s BY <1>1, <1>2
<1>4. t \notin C BY <1>1, <1>3
<1>5. CASE t = {} BY <1>1, <1>2, <1>5
<1>6. CASE t # {}
  <2>1. PICK m \in t : \A n \in t : n <= m BY <1>3, <1>4, <1>6
  <2>2. m \in Nat /\ x \in Nat /\ \A n \in s : n \in Nat /\ (n = x \/ n \in t) BY <1>1, <1>2, <2>1
  <2>3. CASE m <= x
    <3>1. \A n \in s : n <= x BY <2>1, <2>2, <2>3
    <3> QED BY <3>1, <1>1, <1>2
  <2>4. CASE ~(m <= x)
    <3>1. \A n \in s : n <= m BY <2>1, <2>2, <2>4
    <3> QED BY <3>1, <2>1, <1>1, <1>3
  <2> QED BY <2>3, <2>4
<1> QED BY <1>5, <1>6

Pick(s) == CHOOSE x \in s : TRUE

\* The next multiple of a.
Aligned(v, a) == IF a <= 1 THEN v ELSE ((v + a - 1) \div a) * a

\* The element of s that is folded last, what the empty set gives, and what an
\* element of value v makes of a.
LastFolded(fold, s) == IF fold = "sum" THEN Pick(s) ELSE Max(s)
FoldBase(fold) == IF fold = "product" THEN 1 ELSE 0
FoldStep(fold, a, v) ==
  CASE fold = "sum"     -> v + a
    [] fold = "product" -> a * v
    [] fold = "added"   -> a + v
    [] fold = "aligned" -> Aligned(a + v[1], v[2])

\* The value a table g gives s in terms of its smaller sets.
TableRow(fold, g, w, s) ==
  IF s = {} THEN FoldBase(fold)
  ELSE FoldStep(fold, g[s \ {LastFolded(fold, s)}], w[LastFolded(fold, s)])

\* g is a table of the partial results a fold over S recurs through.
IsTable(fold, g, w, S) == g = [s \in SUBSET S |-> TableRow(fold, g, w, s)]

Fold(fold, w, S) == (CHOOSE g : IsTable(fold, g, w, S))[S]

\* A set of which every part has an element to be folded last.
Foldable(fold, S) ==
  IsFiniteSet(S) /\ \A s \in SUBSET S : s # {} => LastFolded(fold, s) \in s

LEMMA PickIsElement == ASSUME NEW s, s # {} PROVE Pick(s) \in s
BY DEF Pick

LEMMA SumsAreFoldable == ASSUME NEW S, IsFiniteSet(S) PROVE Foldable("sum", S)
BY PickIsElement DEF Foldable, LastFolded

\* A sequence is folded from its first to its last element.
LEMMA IndicesAreFoldable ==
  ASSUME NEW fold, fold # "sum", NEW n \in Nat
  PROVE  /\ Foldable(fold, 1 .. n)
         /\ n > 0 => LastFolded(fold, 1 .. n) = n
<1>1. IsFiniteSet(1 .. n) BY FS_Interval
<1>2. ASSUME NEW s \in SUBSET (1 .. n), s # {} PROVE Max(s) \in s
  <2>1. IsFiniteSet(s) BY <1>1, FS_Subset
  <2>a. s \subseteq Nat OBVIOUS
  <2>2. PICK m \in s : \A i \in s : i <= m BY <1>2, <2>1, <2>a, GreatestNumber
  <2>3. \A i \in s : m >= i BY <2>a, <2>2
  <2>4. \E x \in s : \A y \in s : x >= y BY <2>3
  <2> QED BY <2>4 DEF Max
<1>3. ASSUME n > 0 PROVE Max(1 .. n) = n
  <2>1. n \in 1 .. n /\ \A y \in 1 .. n : n >= y BY <1>3
  <2>2. \A x \in 1 .. n : x >= n => x = n OBVIOUS
  <2> DEFINE m == CHOOSE x \in 1 .. n : \A y \in 1 .. n : x >= y
  <2>3. m \in 1 .. n /\ \A y \in 1 .. n : m >= y BY <2>1
  <2> HIDE DEF m
  <2>4. m = n BY <2>1, <2>2, <2>3
  <2> QED BY <2>4 DEF m, Max
<1> QED BY <1>1, <1>2, <1>3 DEF Foldable, LastFolded

LEMMA FoldablePart ==
  ASSUME NEW fold, NEW S, Foldable(fold, S), NEW T \in SUBSET S PROVE Foldable(fold, T)
BY FS_Subset DEF Foldable

\* Two tables agree where both are defined.
LEMMA TablesAgree ==
  ASSUME NEW fold, NEW w, NEW S, NEW T, Foldable(fold, S), T \subseteq S,
         NEW g, NEW h, IsTable(fold, g, w, S), IsTable(fold, h, w, T)
  PROVE  \A s \in SUBSET T : g[s] = h[s]
<1>0. IsFiniteSet(S) /\ \A s \in SUBSET S : s # {} => LastFolded(fold, s) \in s BY DEF Foldable
<1> DEFINE C == {s \in SUBSET T : g[s] # h[s]}
<1> SUFFICES ASSUME C # {} PROVE FALSE OBVIOUS
<1>1. C \in SUBSET SUBSET S OBVIOUS
<1>2. PICK s \in C : \A t \in C : t \subseteq s => t = s
  <2> HIDE DEF C
  <2> QED BY <1>0, <1>1, SmallestSubset
<1>3. g[s] = TableRow(fold, g, w, s) /\ h[s] = TableRow(fold, h, w, s) BY DEF IsTable
<1>4. CASE s = {} BY <1>3, <1>4 DEF TableRow
<1>5. CASE s # {}
  <2> DEFINE t == s \ {LastFolded(fold, s)}
  <2>1. t \subseteq s /\ t # s BY <1>0, <1>5
  <2>2. g[t] = h[t] BY <2>1, <1>2
  <2> QED BY <1>3, <1>5, <2>2 DEF TableRow
<1> QED BY <1>4, <1>5

\* Every finite set has a table.
LEMMA TableExists ==
  ASSUME NEW fold, NEW w, NEW S, Foldable(fold, S)
  PROVE  \E g : IsTable(fold, g, w, S)
<1>0. IsFiniteSet(S) /\ \A s \in SUBSET S : s # {} => LastFolded(fold, s) \in s BY DEF Foldable
<1> DEFINE C == {s \in SUBSET S : ~ \E g : IsTable(fold, g, w, s)}
<1> SUFFICES ASSUME C # {} PROVE FALSE OBVIOUS
<1>1. PICK s \in C : \A t \in C : t \subseteq s => t = s
  <2>1. C \in SUBSET SUBSET S OBVIOUS
  <2> HIDE DEF C
  <2> QED BY <1>0, <2>1, SmallestSubset
<1> DEFINE G(u) == CHOOSE g : IsTable(fold, g, w, u)
<1>2. ASSUME NEW u \in SUBSET s, u # s PROVE IsTable(fold, G(u), w, u)
  <2>1. \E g : IsTable(fold, g, w, u) BY <1>1, <1>2
  <2> QED BY <2>1
<1>3. ASSUME NEW u \in SUBSET S PROVE Foldable(fold, u) BY FoldablePart
<1> DEFINE h == [t \in SUBSET s |->
                   IF t = {} THEN FoldBase(fold)
                   ELSE FoldStep(fold, G(t \ {LastFolded(fold, t)})[t \ {LastFolded(fold, t)}], w[LastFolded(fold, t)])]
<1> HIDE DEF G
<1>4. ASSUME NEW u \in SUBSET s, u # s PROVE h[u] = G(u)[u]
  <2>1. G(u)[u] = TableRow(fold, G(u), w, u) BY <1>2, <1>4 DEF IsTable
  <2>2. CASE u = {} BY <2>1, <2>2 DEF TableRow
  <2>3. CASE u # {}
    <3> DEFINE v == u \ {LastFolded(fold, u)}
    <3>1. v \in SUBSET s /\ v \subseteq u /\ v # s BY <1>0, <1>4, <2>3
    <3>2. IsTable(fold, G(v), w, v) /\ IsTable(fold, G(u), w, u) BY <3>1, <1>2, <1>4
    <3>3. Foldable(fold, u) BY <1>3
    <3> HIDE DEF v
    <3>4. G(u)[v] = G(v)[v] BY <3>1, <3>2, <3>3, TablesAgree
    <3> QED BY <2>1, <2>3, <3>4 DEF TableRow, v
  <2> QED BY <2>2, <2>3
<1>5. ASSUME NEW t \in SUBSET s PROVE h[t] = TableRow(fold, h, w, t)
  <2>1. CASE t = {} BY <2>1 DEF TableRow
  <2>2. CASE t # {}
    <3> DEFINE u == t \ {LastFolded(fold, t)}
    <3>1. u \in SUBSET s /\ u # s BY <1>0, <2>2
    <3>2. h[u] = G(u)[u] BY <3>1, <1>4
    <3> QED BY <2>2, <3>2 DEF TableRow
  <2> QED BY <2>1, <2>2
<1>6. IsTable(fold, h, w, s)
  <2>1. [t \in SUBSET s |-> TableRow(fold, h, w, t)] = [t \in SUBSET s |-> h[t]] BY <1>5
  <2> QED BY <2>1 DEF IsTable
<1> QED BY <1>1, <1>6

\* The table the definition of a fold chooses is as good as any.
LEMMA FoldIsAny ==
  ASSUME NEW fold, NEW w, NEW S, Foldable(fold, S), NEW g, IsTable(fold, g, w, S)
  PROVE  g[S] = Fold(fold, w, S)
<1> DEFINE h == CHOOSE h : IsTable(fold, h, w, S)
<1>1. IsTable(fold, h, w, S) OBVIOUS
<1>2. S \in SUBSET S OBVIOUS
<1> HIDE DEF h
<1>3. g[S] = h[S] BY <1>1, <1>2, TablesAgree
<1> QED BY <1>3 DEF h, Fold

\* What a fold gives is that of the rest and the element folded last.
LEMMA FoldRow ==
  ASSUME NEW fold, NEW w, NEW S, Foldable(fold, S)
  PROVE  /\ Fold(fold, w, {}) = FoldBase(fold)
         /\ S # {} => /\ LastFolded(fold, S) \in S
                      /\ Fold(fold, w, S) = FoldStep(fold, Fold(fold, w, S \ {LastFolded(fold, S)}), w[LastFolded(fold, S)])
<1>1. PICK g : IsTable(fold, g, w, S) BY TableExists
<1>2. ASSUME NEW T \in SUBSET S PROVE g[T] = TableRow(fold, g, w, T) BY <1>1 DEF IsTable
<1>3. ASSUME NEW T \in SUBSET S PROVE g[T] = Fold(fold, w, T)
  <2>1. Foldable(fold, T) BY FoldablePart
  <2>2. PICK h : IsTable(fold, h, w, T) BY <2>1, TableExists
  <2>3. T \in SUBSET T OBVIOUS
  <2>4. g[T] = h[T] BY <1>1, <2>2, <2>3, TablesAgree
  <2> QED BY <2>1, <2>2, <2>4, FoldIsAny
<1>4. Fold(fold, w, {}) = FoldBase(fold)
  <2>1. g[{}] = TableRow(fold, g, w, {}) /\ g[{}] = Fold(fold, w, {}) BY <1>2, <1>3
  <2> QED BY <2>1 DEF TableRow
<1>5. ASSUME S # {}
      PROVE  /\ LastFolded(fold, S) \in S
             /\ Fold(fold, w, S) = FoldStep(fold, Fold(fold, w, S \ {LastFolded(fold, S)}), w[LastFolded(fold, S)])
  <2> DEFINE x == LastFolded(fold, S)  T == S \ {x}
  <2>1. x \in S BY <1>5 DEF Foldable
  <2>2. S \in SUBSET S /\ T \in SUBSET S OBVIOUS
  <2>3. g[S] = FoldStep(fold, g[T], w[x])
    <3>1. g[S] = TableRow(fold, g, w, S) BY <1>2, <2>2
    <3> QED BY <3>1, <1>5 DEF TableRow
  <2> HIDE DEF x, T
  <2>4. g[S] = Fold(fold, w, S) /\ g[T] = Fold(fold, w, T) BY <1>3, <2>2
  <2> QED BY <2>1, <2>3, <2>4 DEF x, T
<1> QED BY <1>4, <1>5

\* A longer part of a sequence folds in one element more.
LEMMA FoldOfPrefix ==
  ASSUME NEW fold, fold # "sum", NEW w, NEW n \in Nat
  PROVE  /\ n = 0 => Fold(fold, w, 1 .. n) = FoldBase(fold)
         /\ n > 0 => Fold(fold, w, 1 .. n) = FoldStep(fold, Fold(fold, w, 1 .. (n - 1)), w[n])
<1> DEFINE S == 1 .. n
<1>1. Foldable(fold, S) /\ (n > 0 => LastFolded(fold, S) = n) BY IndicesAreFoldable
<1>2. n = 0 => S = {} OBVIOUS
<1>3. n > 0 => S # {} /\ S \ {n} = 1 .. (n - 1) OBVIOUS
<1> HIDE DEF S
<1>4. /\ Fold(fold, w, {}) = FoldBase(fold)
      /\ S # {} => Fold(fold, w, S) = FoldStep(fold, Fold(fold, w, S \ {LastFolded(fold, S)}), w[LastFolded(fold, S)])
  BY <1>1, FoldRow
<1>5. n > 0 => Fold(fold, w, S) = FoldStep(fold, Fold(fold, w, 1 .. (n - 1)), w[n]) BY <1>1, <1>3, <1>4
<1> QED BY <1>2, <1>4, <1>5 DEF S

-----------------------------------------------------------------------------
(* Sums.                                                                   *)

Sum(w, S) == SumFunctionOnSet(w, S)

LEMMA SumIsFold == ASSUME NEW w, NEW S PROVE Sum(w, S) = Fold("sum", w, S)
<1> DEFINE Rows(g) == [s \in SUBSET S |-> IF s = {} THEN 0 ELSE w[Pick(s)] + g[s \ {Pick(s)}]]
<1>1. Sum(w, S) = (CHOOSE g : g = Rows(g))[S]
  BY DEF Sum, SumFunctionOnSet, FoldFunctionOnSet, MapThenFoldSet, Pick
<1>2. ASSUME NEW g PROVE Rows(g) = [s \in SUBSET S |-> TableRow("sum", g, w, s)]
  BY DEF TableRow, FoldBase, FoldStep, LastFolded
<1>3. \A g : g = Rows(g) <=> IsTable("sum", g, w, S) BY <1>2 DEF IsTable
<1> HIDE DEF Rows
<1>4. (CHOOSE g : g = Rows(g)) = (CHOOSE g : IsTable("sum", g, w, S)) BY <1>3
<1> QED BY <1>1, <1>4 DEF Fold

\* The sum of a set is that of the rest and the element picked.
LEMMA SumRow ==
  ASSUME NEW w, NEW S, IsFiniteSet(S)
  PROVE  /\ Sum(w, {}) = 0
         /\ S # {} => Sum(w, S) = w[Pick(S)] + Sum(w, S \ {Pick(S)})
<1>1. Foldable("sum", S) BY SumsAreFoldable
<1>2. Fold("sum", w, {}) = 0 BY <1>1, FoldRow DEF FoldBase
<1>3. S # {} => Fold("sum", w, S) = w[Pick(S)] + Fold("sum", w, S \ {Pick(S)})
  BY <1>1, FoldRow DEF FoldStep, LastFolded
<1> QED BY <1>2, <1>3, SumIsFold

\* A sum of natural numbers is one.
LEMMA SumIsNat ==
  ASSUME NEW U, NEW w \in [U -> Nat], NEW S \in SUBSET U, IsFiniteSet(S)
  PROVE  Sum(w, S) \in Nat
<1> DEFINE C == {s \in SUBSET S : Sum(w, s) \notin Nat}
<1> SUFFICES ASSUME C # {} PROVE FALSE OBVIOUS
<1>1. PICK s \in C : \A t \in C : t \subseteq s => t = s
  <2>1. C \in SUBSET SUBSET S OBVIOUS
  <2> HIDE DEF C
  <2> QED BY <2>1, SmallestSubset
<1>2. IsFiniteSet(s) BY FS_Subset
<1>3. CASE s = {}
  <2>1. Sum(w, s) = 0 BY <1>2, <1>3, SumRow
  <2> QED BY <1>1, <2>1
<1>4. CASE s # {}
  <2> DEFINE t == s \ {Pick(s)}
  <2>1. t \subseteq s /\ t # s /\ Pick(s) \in U BY <1>4, PickIsElement
  <2>2. Sum(w, t) \in Nat BY <2>1, <1>1
  <2>3. Sum(w, s) = w[Pick(s)] + Sum(w, t) BY <1>2, <1>4, SumRow
  <2> QED BY <1>1, <2>1, <2>2, <2>3
<1> QED BY <1>3, <1>4

\* Any element may be summed last.
LEMMA SumTakeOut ==
  ASSUME NEW U, NEW w \in [U -> Nat], NEW S \in SUBSET U, IsFiniteSet(S), NEW x \in S
  PROVE  Sum(w, S) = w[x] + Sum(w, S \ {x})
<1> DEFINE C == {s \in SUBSET S : \E y \in s : Sum(w, s) # w[y] + Sum(w, s \ {y})}
<1> SUFFICES ASSUME C # {} PROVE FALSE
  <2>1. S \in SUBSET S OBVIOUS
  <2> QED BY <2>1
<1>1. PICK s \in C : \A t \in C : t \subseteq s => t = s
  <2>1. C \in SUBSET SUBSET S OBVIOUS
  <2> HIDE DEF C
  <2> QED BY <2>1, SmallestSubset
<1>2. ASSUME NEW t \in SUBSET s, t # s, NEW y \in t PROVE Sum(w, t) = w[y] + Sum(w, t \ {y})
  BY <1>1, <1>2
<1>3. PICK y \in s : Sum(w, s) # w[y] + Sum(w, s \ {y}) BY <1>1
<1> HIDE DEF C
<1> DEFINE c == Pick(s)
<1>4. s \in SUBSET U /\ c \in s /\ IsFiniteSet(s) BY <1>1, <1>3, PickIsElement, FS_Subset DEF C
<1> HIDE DEF c
<1>5. Sum(w, s) = w[c] + Sum(w, s \ {c}) BY <1>3, <1>4, SumRow DEF c
<1>6. y # c BY <1>3, <1>5
<1>7. Sum(w, s \ {c}) = w[y] + Sum(w, (s \ {c}) \ {y}) BY <1>2, <1>4, <1>6
<1>8. Sum(w, s \ {y}) = w[c] + Sum(w, (s \ {y}) \ {c}) BY <1>2, <1>3, <1>4, <1>6
<1>9. (s \ {c}) \ {y} = (s \ {y}) \ {c} OBVIOUS
<1>10. Sum(w, (s \ {c}) \ {y}) \in Nat
  <2> DEFINE r == (s \ {c}) \ {y}
  <2>1. r \in SUBSET U /\ IsFiniteSet(r) BY <1>4, FS_Subset
  <2> HIDE DEF r
  <2> QED BY <2>1, SumIsNat DEF r
<1>11. w[y] \in Nat /\ w[c] \in Nat BY <1>3, <1>4
<1> DEFINE r == Sum(w, (s \ {c}) \ {y})
<1>12. Sum(w, s) = w[c] + (w[y] + r) /\ Sum(w, s \ {y}) = w[c] + r
  BY <1>5, <1>7, <1>8, <1>9
<1>13. r \in Nat BY <1>10
<1> HIDE DEF r
<1> QED BY <1>3, <1>11, <1>12, <1>13

\* An element that is not there yet adds its value.
LEMMA SumPutIn ==
  ASSUME NEW U, NEW w \in [U -> Nat], NEW S \in SUBSET U, IsFiniteSet(S),
         NEW x \in U, x \notin S
  PROVE  Sum(w, S \union {x}) = w[x] + Sum(w, S)
<1> DEFINE T == S \union {x}
<1>1. T \in SUBSET U /\ IsFiniteSet(T) /\ x \in T BY FS_AddElement
<1>2. T \ {x} = S OBVIOUS
<1> HIDE DEF T
<1>3. Sum(w, T) = w[x] + Sum(w, T \ {x}) BY <1>1, SumTakeOut
<1> QED BY <1>2, <1>3 DEF T

\* More elements do not make a sum smaller.
LEMMA SumIsMonotone ==
  ASSUME NEW U, NEW w \in [U -> Nat], NEW S \in SUBSET U, IsFiniteSet(S),
         NEW T \in SUBSET S
  PROVE  Sum(w, T) <= Sum(w, S)
<1> DEFINE C == {s \in SUBSET S : T \subseteq s /\ ~(Sum(w, T) <= Sum(w, s))}
<1> SUFFICES ASSUME C # {} PROVE FALSE OBVIOUS
<1>1. PICK s \in C : \A t \in C : t \subseteq s => t = s
  <2>1. C \in SUBSET SUBSET S OBVIOUS
  <2> HIDE DEF C
  <2> QED BY <2>1, SmallestSubset
<1>2. s \in SUBSET U /\ IsFiniteSet(s) /\ IsFiniteSet(T) BY FS_Subset
<1>3. Sum(w, s) \in Nat /\ Sum(w, T) \in Nat BY <1>2, SumIsNat
<1>4. s # T BY <1>1, <1>3
<1>5. PICK x \in s : x \notin T BY <1>1, <1>4
<1> DEFINE t == s \ {x}
<1>6. t \subseteq s /\ t # s /\ T \subseteq t /\ t \in SUBSET U /\ t \in SUBSET S /\ IsFiniteSet(t)
  BY <1>1, <1>2, <1>5, FS_Subset
<1>7. Sum(w, T) <= Sum(w, t) BY <1>1, <1>6
<1>8. Sum(w, s) = w[x] + Sum(w, t) BY <1>2, <1>5, SumTakeOut
<1>9. Sum(w, t) \in Nat /\ w[x] \in Nat
  <2> HIDE DEF t
  <2>1. Sum(w, t) \in Nat BY <1>6, SumIsNat
  <2> QED BY <2>1, <1>2, <1>5
<1>10. ~(Sum(w, T) <= Sum(w, s)) BY <1>1
<1> HIDE DEF t, C
<1> QED BY <1>3, <1>7, <1>8, <1>9, <1>10

\* A sum whose terms are at most c times those of another is at most c times
\* that one.
LEMMA SumIsBounded ==
  ASSUME NEW U, NEW v \in [U -> Nat], NEW w \in [U -> Nat], NEW S \in SUBSET U, IsFiniteSet(S),
         NEW c \in Nat, \A x \in S : v[x] <= c * w[x]
  PROVE  Sum(v, S) <= c * Sum(w, S)
<1> DEFINE C == {s \in SUBSET S : ~(Sum(v, s) <= c * Sum(w, s))}
<1> SUFFICES ASSUME C # {} PROVE FALSE OBVIOUS
<1>1. PICK s \in C : \A t \in C : t \subseteq s => t = s
  <2>1. C \in SUBSET SUBSET S OBVIOUS
  <2> HIDE DEF C
  <2> QED BY <2>1, SmallestSubset
<1>2. s \in SUBSET U /\ IsFiniteSet(s) BY FS_Subset
<1>3. CASE s = {}
  <2>1. Sum(v, s) = 0 /\ Sum(w, s) = 0 BY <1>2, <1>3, SumRow
  <2>2. ~(Sum(v, s) <= c * Sum(w, s)) BY <1>1
  <2>3. c * 0 = 0 OBVIOUS
  <2> QED BY <2>1, <2>2, <2>3
<1>4. CASE s # {}
  <2>1. PICK x \in s : TRUE BY <1>4
  <2> DEFINE t == s \ {x}
  <2>2. t \subseteq s /\ t # s /\ t \in SUBSET U /\ t \in SUBSET S /\ IsFiniteSet(t)
    BY <1>1, <1>2, <2>1, FS_Subset
  <2>3. Sum(v, t) <= c * Sum(w, t) BY <1>1, <2>2
  <2>4. Sum(v, s) = v[x] + Sum(v, t) /\ Sum(w, s) = w[x] + Sum(w, t)
    BY <1>2, <2>1, SumTakeOut
  <2>5. v[x] \in Nat /\ w[x] \in Nat /\ v[x] <= c * w[x] BY <1>1, <1>2, <2>1
  <2>6. ~(Sum(v, s) <= c * Sum(w, s)) BY <1>1
  <2> HIDE DEF t, C
  <2>7. Sum(v, t) \in Nat /\ Sum(w, t) \in Nat BY <2>2, SumIsNat
  <2>8. \A m, n \in Nat : c * (m + n) = c * m + c * n /\ c * m \in Nat OBVIOUS
  <2>9. c * Sum(w, s) = c * w[x] + c * Sum(w, t) BY <2>4, <2>5, <2>7, <2>8
  <2> DEFINE p == c * w[x]  q == c * Sum(w, t)
  <2>10. p \in Nat /\ q \in Nat BY <2>5, <2>7, <2>8
  <2>11. Sum(v, s) <= p + q
    <3>1. v[x] <= p /\ Sum(v, t) <= q BY <2>3, <2>5
    <3> HIDE DEF p, q
    <3> QED BY <2>4, <2>5, <2>7, <2>10, <3>1
  <2> QED BY <2>6, <2>9, <2>11
<1> QED BY <1>3, <1>4

\* Tables that agree on a set have the same sum over it.
LEMMA SumsAgree ==
  ASSUME NEW U, NEW v \in [U -> Nat], NEW w \in [U -> Nat], NEW S \in SUBSET U, IsFiniteSet(S),
         \A x \in S : v[x] = w[x]
  PROVE  Sum(v, S) = Sum(w, S)
<1>1. Sum(v, S) \in Nat /\ Sum(w, S) \in Nat BY SumIsNat
<1>2. \A x \in S : v[x] <= 1 * w[x] /\ w[x] <= 1 * v[x] OBVIOUS
<1>3. 1 \in Nat OBVIOUS
<1>4. Sum(v, S) <= 1 * Sum(w, S) BY <1>2, <1>3, SumIsBounded
<1>5. Sum(w, S) <= 1 * Sum(v, S) BY <1>2, <1>3, SumIsBounded
<1> QED BY <1>1, <1>4, <1>5

\* When one entry of a table changes, the sum changes by as much.
LEMMA SumOfChanged ==
  ASSUME NEW U, IsFiniteSet(U), NEW v \in [U -> Nat], NEW w \in [U -> Nat], NEW x \in U,
         \A y \in U \ {x} : v[y] = w[y]
  PROVE  /\ Sum(v, U) \in Nat /\ Sum(w, U) \in Nat
         /\ Sum(v, U) + w[x] = Sum(w, U) + v[x]
<1> DEFINE R == U \ {x}
<1>1. R \in SUBSET U /\ IsFiniteSet(R) BY FS_Subset
<1>2. Sum(v, R) = Sum(w, R) BY <1>1, SumsAgree
<1>3. Sum(v, R) \in Nat BY <1>1, SumIsNat
<1>4. U \in SUBSET U OBVIOUS
<1>5. Sum(v, U) = v[x] + Sum(v, R) BY <1>4, SumTakeOut
<1>6. Sum(w, U) = w[x] + Sum(w, R) BY <1>4, SumTakeOut
<1>7. v[x] \in Nat /\ w[x] \in Nat OBVIOUS
<1> QED BY <1>2, <1>3, <1>5, <1>6, <1>7

----------------------------------------------------------------------------------------------------------------------------------------------------------
(* Sums of the same things, put together in other ways.                    *)

\* A sum is of the values on its set, whatever else the tables hold.
LEMMA SumsCoincide ==
  ASSUME NEW v, NEW w, NEW S, IsFiniteSet(S), \A x \in S : v[x] = w[x]
  PROVE  Sum(v, S) = Sum(w, S)
<1> DEFINE C == {s \in SUBSET S : Sum(v, s) # Sum(w, s)}
<1> SUFFICES ASSUME C # {} PROVE FALSE OBVIOUS
<1>1. PICK s \in C : \A t \in C : t \subseteq s => t = s
  <2>1. C \in SUBSET SUBSET S OBVIOUS
  <2> HIDE DEF C
  <2> QED BY <2>1, SmallestSubset
<1>2. IsFiniteSet(s) /\ s \subseteq S BY FS_Subset
<1>3. CASE s = {}
  <2>1. Sum(v, s) = 0 /\ Sum(w, s) = 0 BY <1>2, <1>3, SumRow
  <2> QED BY <1>1, <2>1
<1>4. CASE s # {}
  <2> DEFINE x == Pick(s)  t == s \ {x}
  <2>1. x \in s BY <1>4, PickIsElement
  <2>2. t \subseteq s /\ t # s BY <2>1
  <2>3. Sum(v, t) = Sum(w, t) BY <2>2, <1>1
  <2>4. Sum(v, s) = v[x] + Sum(v, t) /\ Sum(w, s) = w[x] + Sum(w, t) BY <1>2, <1>4, SumRow
  <2>5. v[x] = w[x] BY <1>2, <2>1
  <2> HIDE DEF x, t
  <2> QED BY <1>1, <2>3, <2>4, <2>5
<1> QED BY <1>3, <1>4

LEMMA SumOfNone == ASSUME NEW w PROVE Sum(w, {}) = 0
BY SumRow, FS_EmptySet

LEMMA SumOfOne ==
  ASSUME NEW U, NEW w \in [U -> Nat], NEW x \in U PROVE Sum(w, {x}) = w[x]
<1>1. {x} \in SUBSET U /\ IsFiniteSet({x}) BY FS_Singleton
<1>2. Sum(w, {x}) = w[x] + Sum(w, {x} \ {x}) BY <1>1, SumTakeOut
<1>3. {x} \ {x} = {} OBVIOUS
<1>4. Sum(w, {}) = 0 BY SumOfNone
<1>5. w[x] + 0 = w[x] OBVIOUS
<1> QED BY <1>2, <1>3, <1>4, <1>5

\* The sum of two sets without a common element.
LEMMA SumOfUnion ==
  ASSUME NEW U, NEW w \in [U -> Nat], NEW S \in SUBSET U, IsFiniteSet(S),
         NEW T \in SUBSET U, IsFiniteSet(T), S \intersect T = {}
  PROVE  Sum(w, S \union T) = Sum(w, S) + Sum(w, T)
<1> DEFINE C == {t \in SUBSET T : Sum(w, S \union t) # Sum(w, S) + Sum(w, t)}
<1> SUFFICES ASSUME C # {} PROVE FALSE OBVIOUS
<1>1. PICK t \in C : \A r \in C : r \subseteq t => r = t
  <2>1. C \in SUBSET SUBSET T OBVIOUS
  <2> HIDE DEF C
  <2> QED BY <2>1, SmallestSubset
<1>2. IsFiniteSet(t) /\ t \subseteq T /\ t \in SUBSET U BY FS_Subset
<1>3. Sum(w, S) \in Nat BY SumIsNat
<1>4. CASE t = {}
  <2>1. S \union t = S BY <1>4
  <2>2. Sum(w, t) = 0 BY <1>4, SumOfNone
  <2>3. Sum(w, S \union t) # Sum(w, S) + Sum(w, t) BY <1>1
  <2>4. Sum(w, S) + 0 = Sum(w, S) BY <1>3
  <2> QED BY <2>1, <2>2, <2>3, <2>4
<1>5. CASE t # {}
  <2>1. PICK x \in t : TRUE BY <1>5
  <2> DEFINE r == t \ {x}
  <2>2. /\ r \subseteq t /\ r # t /\ r \in SUBSET T /\ r \in SUBSET U /\ x \in U
        /\ IsFiniteSet(r) /\ x \notin S \union r /\ S \union t = (S \union r) \union {x}
    BY <1>2, <2>1, FS_Subset
  <2>3. Sum(w, S \union r) = Sum(w, S) + Sum(w, r) BY <1>1, <2>2
  <2>4. Sum(w, t) = w[x] + Sum(w, r) BY <1>2, <2>1, SumTakeOut
  <2>5. Sum(w, S \union t) # Sum(w, S) + Sum(w, t) BY <1>1
  <2> HIDE DEF r, C
  <2>6. S \union r \in SUBSET U /\ IsFiniteSet(S \union r) BY <2>2, FS_Union
  <2>7. Sum(w, (S \union r) \union {x}) = w[x] + Sum(w, S \union r)
    <3> DEFINE q == S \union r
    <3>1. q \in SUBSET U /\ IsFiniteSet(q) /\ x \in U /\ x \notin q BY <2>2, <2>6
    <3> HIDE DEF q
    <3>2. Sum(w, q \union {x}) = w[x] + Sum(w, q) BY <3>1, SumPutIn
    <3> QED BY <3>2 DEF q
  <2>8. Sum(w, S \union t) = w[x] + (Sum(w, S) + Sum(w, r)) BY <2>2, <2>3, <2>7
  <2>9. Sum(w, r) \in Nat /\ w[x] \in Nat BY <2>2, SumIsNat
  <2> QED BY <1>3, <2>4, <2>5, <2>8, <2>9
<1> QED BY <1>4, <1>5

\* Parts of a set, none sharing an element with another.
PartsApart(J, part) == \A i, j \in J : i # j => part[i] \intersect part[j] = {}

\* A sum may be taken part by part.
LEMMA SumByParts ==
  ASSUME NEW U, NEW w \in [U -> Nat], NEW J, IsFiniteSet(J), NEW part \in [J -> SUBSET U],
         \A j \in J : IsFiniteSet(part[j]), PartsApart(J, part),
         NEW v \in [J -> Nat], \A j \in J : v[j] = Sum(w, part[j]),
         NEW S \in SUBSET U, \A x \in U : x \in S <=> \E j \in J : x \in part[j]
  PROVE  IsFiniteSet(S) /\ Sum(w, S) = Sum(v, J)
<1> DEFINE P(K) == UNION {part[j] : j \in K}
           C == {K \in SUBSET J : ~(IsFiniteSet(P(K)) /\ Sum(w, P(K)) = Sum(v, K))}
<1> SUFFICES ASSUME C # {} PROVE FALSE
  <2>1. J \in SUBSET J OBVIOUS
  <2>2. P(J) = S
    <3>1. P(J) \subseteq U OBVIOUS
    <3>2. \A x \in U : x \in P(J) <=> \E j \in J : x \in part[j] OBVIOUS
    <3> HIDE DEF P
    <3> QED BY <3>1, <3>2
  <2> QED BY <2>1, <2>2
<1>1. PICK K \in C : \A L \in C : L \subseteq K => L = K
  <2>1. C \in SUBSET SUBSET J OBVIOUS
  <2> HIDE DEF C
  <2> QED BY <2>1, SmallestSubset
<1>2. K \in SUBSET J /\ IsFiniteSet(K) BY FS_Subset
<1>3. ~(IsFiniteSet(P(K)) /\ Sum(w, P(K)) = Sum(v, K)) BY <1>1
<1>4. CASE K = {}
  <2>1. P(K) = {} BY <1>4
  <2>2. IsFiniteSet({}) BY FS_EmptySet
  <2>3. Sum(w, {}) = 0 /\ Sum(v, {}) = 0 BY SumOfNone
  <2> QED BY <1>3, <1>4, <2>1, <2>2, <2>3
<1>5. CASE K # {}
  <2>1. PICK j \in K : TRUE BY <1>5
  <2> DEFINE L == K \ {j}
  <2>2. L \subseteq K /\ L # K /\ L \in SUBSET J /\ j \in J /\ j \notin L /\ K = L \union {j} BY <1>2, <2>1
  <2>3. IsFiniteSet(P(L)) /\ Sum(w, P(L)) = Sum(v, L) BY <1>1, <2>2
  <2>4. P(K) = P(L) \union part[j] BY <2>2
  <2>5. P(L) \intersect part[j] = {}
    <3>1. \A i \in L : part[i] \intersect part[j] = {} BY <2>2 DEF PartsApart
    <3> QED BY <3>1
  <2>6. P(L) \in SUBSET U /\ part[j] \in SUBSET U /\ IsFiniteSet(part[j]) BY <2>2
  <2>7. v[j] = Sum(w, part[j]) BY <2>2
  <2> HIDE DEF L, P
  <2> DEFINE R == P(L)  p == part[j]
  <2>a. /\ R \in SUBSET U /\ IsFiniteSet(R) /\ p \in SUBSET U /\ IsFiniteSet(p)
        /\ R \intersect p = {} /\ P(K) = R \union p
    BY <2>3, <2>4, <2>5, <2>6
  <2> HIDE DEF R, p
  <2>8. IsFiniteSet(P(K))
    <3>1. IsFiniteSet(R \union p) BY <2>a, FS_Union
    <3> QED BY <2>a, <3>1
  <2>9. Sum(w, P(K)) = Sum(w, P(L)) + Sum(w, part[j])
    <3>1. Sum(w, R \union p) = Sum(w, R) + Sum(w, p) BY <2>a, SumOfUnion, SMTT(30)
    <3> QED BY <2>a, <3>1 DEF R, p
  <2>10. Sum(v, K) = v[j] + Sum(v, L)
    <3>1. Sum(v, L \union {j}) = v[j] + Sum(v, L)
      <4>1. IsFiniteSet(L) BY <1>2, <2>2, FS_Subset
      <4> QED BY <2>2, <4>1, SumPutIn
    <3> QED BY <2>2, <3>1
  <2>11. v[j] \in Nat /\ Sum(w, P(L)) \in Nat BY <2>2, <2>3, <2>6, SumIsNat
  <2>12. Sum(w, P(K)) = Sum(v, K) BY <2>3, <2>7, <2>9, <2>10, <2>11
  <2> QED BY <1>3, <2>8, <2>12
<1> QED BY <1>4, <1>5

\* Numbering the things summed anew changes nothing.
LEMMA SumRenamed ==
  ASSUME NEW A, IsFiniteSet(A), NEW w \in [A -> Nat], NEW B, NEW v \in [B -> Nat],
         NEW f \in [A -> B], \A a, b \in A : f[a] = f[b] => a = b, \A b \in B : \E a \in A : f[a] = b,
         \A a \in A : v[f[a]] = w[a]
  PROVE  IsFiniteSet(B) /\ Sum(v, B) = Sum(w, A)
<1> DEFINE part == [a \in A |-> {f[a]}]
<1>1. part \in [A -> SUBSET B] /\ B \in SUBSET B OBVIOUS
<1>2. \A a \in A : IsFiniteSet(part[a])
  <2>1. ASSUME NEW a \in A PROVE IsFiniteSet(part[a])
    <3>1. part[a] = {f[a]} OBVIOUS
    <3>2. IsFiniteSet({f[a]}) BY FS_Singleton
    <3> QED BY <3>1, <3>2
  <2> QED BY <2>1
<1>3. PartsApart(A, part) BY DEF PartsApart
<1>4. \A b \in B : b \in B <=> \E a \in A : b \in part[a] OBVIOUS
<1>5. ASSUME NEW a \in A PROVE w[a] = Sum(v, part[a])
  <2>1. part[a] = {f[a]} /\ f[a] \in B OBVIOUS
  <2>2. Sum(v, {f[a]}) = v[f[a]] BY <2>1, SumOfOne
  <2> QED BY <2>1, <2>2
<1> HIDE DEF part
<1>6. \A a \in A : w[a] = Sum(v, part[a]) BY <1>5
<1>7. IsFiniteSet(A) /\ w \in [A -> Nat] /\ v \in [B -> Nat] OBVIOUS
<1> DEFINE S == B
<1>8. S \in SUBSET B /\ \A b \in B : b \in S <=> \E a \in A : b \in part[a] BY <1>4
<1> HIDE DEF S
<1>9. IsFiniteSet(S) /\ Sum(v, S) = Sum(w, A) BY <1>1, <1>2, <1>3, <1>6, <1>7, <1>8, SumByParts, SMTT(30)
<1> QED BY <1>9 DEF S

\* A common factor may be taken out of a sum.
LEMMA SumScaled ==
  ASSUME NEW U, NEW v \in [U -> Nat], NEW w \in [U -> Nat], NEW S \in SUBSET U, IsFiniteSet(S),
         NEW c \in Nat, \A x \in S : v[x] = c * w[x]
  PROVE  Sum(v, S) = c * Sum(w, S)
<1> DEFINE C == {s \in SUBSET S : Sum(v, s) # c * Sum(w, s)}
<1> SUFFICES ASSUME C # {} PROVE FALSE OBVIOUS
<1>1. PICK s \in C : \A t \in C : t \subseteq s => t = s
  <2>1. C \in SUBSET SUBSET S OBVIOUS
  <2> HIDE DEF C
  <2> QED BY <2>1, SmallestSubset
<1>2. s \in SUBSET U /\ IsFiniteSet(s) BY FS_Subset
<1>3. CASE s = {}
  <2>1. Sum(v, s) = 0 /\ Sum(w, s) = 0 BY <1>3, SumOfNone
  <2>2. Sum(v, s) # c * Sum(w, s) BY <1>1
  <2>3. c * 0 = 0 OBVIOUS
  <2> QED BY <2>1, <2>2, <2>3
<1>4. CASE s # {}
  <2>1. PICK x \in s : TRUE BY <1>4
  <2> DEFINE t == s \ {x}
  <2>2. t \subseteq s /\ t # s /\ t \in SUBSET U /\ t \in SUBSET S /\ IsFiniteSet(t)
    BY <1>1, <1>2, <2>1, FS_Subset
  <2>3. Sum(v, t) = c * Sum(w, t) BY <1>1, <2>2
  <2>4. Sum(v, s) = v[x] + Sum(v, t) /\ Sum(w, s) = w[x] + Sum(w, t)
    BY <1>2, <2>1, SumTakeOut
  <2>5. w[x] \in Nat /\ v[x] = c * w[x] BY <1>1, <1>2, <2>1
  <2>6. Sum(v, s) # c * Sum(w, s) BY <1>1
  <2> HIDE DEF t, C
  <2>7. Sum(w, t) \in Nat BY <2>2, SumIsNat
  <2>8. \A m, n \in Nat : c * (m + n) = c * m + c * n OBVIOUS
  <2>9. c * Sum(w, s) = c * w[x] + c * Sum(w, t) BY <2>4, <2>5, <2>7, <2>8
  <2> QED BY <2>3, <2>4, <2>5, <2>6, <2>9
<1> QED BY <1>3, <1>4

\* Equal numbers summed.
LEMMA SumOfEqual ==
  ASSUME NEW U, NEW w \in [U -> Nat], NEW S \in SUBSET U, IsFiniteSet(S),
         NEW c \in Nat, \A x \in S : w[x] = c
  PROVE  Sum(w, S) = c * Cardinality(S)
<1> DEFINE C == {s \in SUBSET S : Sum(w, s) # c * Cardinality(s)}
<1> SUFFICES ASSUME C # {} PROVE FALSE OBVIOUS
<1>1. PICK s \in C : \A t \in C : t \subseteq s => t = s
  <2>1. C \in SUBSET SUBSET S OBVIOUS
  <2> HIDE DEF C
  <2> QED BY <2>1, SmallestSubset
<1>2. s \in SUBSET U /\ IsFiniteSet(s) BY FS_Subset
<1>3. CASE s = {}
  <2>1. Sum(w, s) = 0 /\ Cardinality(s) = 0 BY <1>3, SumOfNone, FS_EmptySet
  <2>2. Sum(w, s) # c * Cardinality(s) BY <1>1
  <2>3. c * 0 = 0 OBVIOUS
  <2> QED BY <2>1, <2>2, <2>3
<1>4. CASE s # {}
  <2>1. PICK x \in s : TRUE BY <1>4
  <2> DEFINE t == s \ {x}
  <2>2. t \subseteq s /\ t # s /\ t \in SUBSET U /\ t \in SUBSET S /\ IsFiniteSet(t)
    BY <1>1, <1>2, <2>1, FS_Subset
  <2>3. Sum(w, t) = c * Cardinality(t) BY <1>1, <2>2
  <2>4. Sum(w, s) = w[x] + Sum(w, t) BY <1>2, <2>1, SumTakeOut
  <2>5. w[x] = c BY <1>1, <1>2, <2>1
  <2>6. Sum(w, s) # c * Cardinality(s) BY <1>1
  <2>7. Cardinality(t) = Cardinality(s) - 1 BY <1>2, <2>1, FS_RemoveElement
  <2> HIDE DEF t, C
  <2>8. Cardinality(s) \in Nat /\ Cardinality(t) \in Nat BY <1>2, <2>2, FS_CardinalityType
  <2>9. \A n \in Nat : c * (n + 1) = c + c * n OBVIOUS
  <2>10. Cardinality(s) = Cardinality(t) + 1 BY <2>7, <2>8
  <2>11. c * Cardinality(s) = c + c * Cardinality(t) BY <2>8, <2>9, <2>10
  <2> QED BY <2>3, <2>4, <2>5, <2>6, <2>11
<1> QED BY <1>3, <1>4

-----------------------------------------------------------------------------
(* Products, of the lengths of the dimensions of a tensor.                 *)

Product(s) == FoldLeft(LAMBDA a, b : a * b, 1, s)

LEMMA ProductIsFold ==
  ASSUME NEW s PROVE Product(s) = Fold("product", s, DOMAIN s)
<1> DEFINE Rows(g) == [t \in SUBSET DOMAIN s |-> IF t = {} THEN 1 ELSE g[t \ {Max(t)}] * s[Max(t)]]
<1>1. Product(s) = (CHOOSE g : g = Rows(g))[DOMAIN s]
  BY DEF Product, FoldLeft, MapThenFoldSet
<1>2. ASSUME NEW g PROVE Rows(g) = [t \in SUBSET DOMAIN s |-> TableRow("product", g, s, t)]
  BY DEF TableRow, FoldBase, FoldStep, LastFolded
<1>3. \A g : g = Rows(g) <=> IsTable("product", g, s, DOMAIN s) BY <1>2 DEF IsTable
<1> HIDE DEF Rows
<1>4. (CHOOSE g : g = Rows(g)) = (CHOOSE g : IsTable("product", g, s, DOMAIN s)) BY <1>3
<1> QED BY <1>1, <1>4 DEF Fold

\* A product of natural numbers is one.
LEMMA ProductIsNat == ASSUME NEW s \in Seq(Nat) PROVE Product(s) \in Nat
<1> DEFINE C == {n \in 0 .. Len(s) : Fold("product", s, 1 .. n) \notin Nat}
<1>0. Len(s) \in Nat /\ DOMAIN s = 1 .. Len(s) OBVIOUS
<1>1. C = {}
  <2> SUFFICES ASSUME C # {} PROVE FALSE OBVIOUS
  <2>1. C \in SUBSET Nat BY <1>0
  <2>2. PICK n \in C : \A m \in C : n <= m
    <3> HIDE DEF C
    <3> QED BY <2>1, LeastNumber
  <2>3. n \in Nat /\ n <= Len(s) BY <1>0
  <2>4. CASE n = 0
    <3>1. Fold("product", s, 1 .. n) = 1 BY <2>3, <2>4, FoldOfPrefix DEF FoldBase
    <3> QED BY <2>2, <3>1
  <2>5. CASE n > 0
    <3>1. n - 1 \in 0 .. Len(s) /\ n - 1 \notin C BY <2>2, <2>3, <2>5, <1>0
    <3>2. Fold("product", s, 1 .. n) = Fold("product", s, 1 .. (n - 1)) * s[n]
      BY <2>3, <2>5, FoldOfPrefix DEF FoldStep
    <3>3. s[n] \in Nat BY <2>3, <2>5, <1>0
    <3>4. Fold("product", s, 1 .. (n - 1)) \in Nat BY <3>1
    <3> QED BY <2>2, <3>2, <3>3, <3>4
  <2> QED BY <2>3, <2>4, <2>5
<1>2. Len(s) \notin C /\ Len(s) \in 0 .. Len(s) BY <1>0, <1>1
<1> QED BY <1>0, <1>2, ProductIsFold

\* The first factor of a product.
LEMMA ProductOfHead ==
  ASSUME NEW s \in Seq(Nat), s # <<>>
  PROVE  Product(s) = s[1] * Product(Tail(s))
<1> DEFINE t == Tail(s)
           F(n) == Fold("product", s, 1 .. n)
           G(n) == Fold("product", t, 1 .. n)
           N == Len(t)
           C == {n \in 0 .. N : ~(G(n) \in Nat /\ F(n + 1) = s[1] * G(n))}
<1>1. /\ t \in Seq(Nat) /\ N \in Nat /\ Len(s) = N + 1 /\ s[1] \in Nat
      /\ \A i \in 1 .. N : t[i] = s[i + 1] /\ t[i] \in Nat
  OBVIOUS
<1>2. DOMAIN s = 1 .. (N + 1) /\ DOMAIN t = 1 .. N BY <1>1
<1> HIDE DEF t, N
<1>3. ASSUME NEW n \in Nat, n > 0 PROVE F(n) = F(n - 1) * s[n] /\ G(n) = G(n - 1) * t[n]
  BY <1>3, FoldOfPrefix DEF FoldStep
<1>4. F(0) = 1 /\ G(0) = 1
  <2>1. 0 \in Nat OBVIOUS
  <2> QED BY <2>1, FoldOfPrefix DEF FoldBase
<1> HIDE DEF F, G
<1>5. C = {}
  <2> SUFFICES ASSUME C # {} PROVE FALSE OBVIOUS
  <2>1. C \in SUBSET Nat BY <1>1
  <2>2. PICK n \in C : \A m \in C : n <= m
    <3> HIDE DEF C
    <3> QED BY <2>1, LeastNumber
  <2>3. n \in 0 .. N /\ n \in Nat /\ ~(G(n) \in Nat /\ F(n + 1) = s[1] * G(n)) BY <1>1
  <2>4. CASE n = 0
    <3>1. F(1) = 1 * s[1]
      <4>1. F(1) = F(0) * s[1]
        <5>1. F(1) = F(1 - 1) * s[1] BY <1>3
        <5> QED BY <5>1
      <4> QED BY <4>1, <1>4
    <3>2. G(n) = 1 /\ F(n + 1) = F(1) BY <1>4, <2>4
    <3> QED BY <1>1, <2>3, <3>1, <3>2
  <2>5. CASE n # 0
    <3>1. n - 1 \in 0 .. N /\ n - 1 \notin C
      <4>1. n - 1 \in Nat /\ n - 1 < n BY <2>3, <2>5
      <4>2. n - 1 \in 0 .. N BY <1>1, <2>3, <2>5
      <4> QED BY <2>2, <2>3, <4>1, <4>2
    <3>2. G(n - 1) \in Nat /\ F((n - 1) + 1) = s[1] * G(n - 1) BY <3>1
    <3>3. F(n + 1) = F((n + 1) - 1) * s[n + 1] BY <1>3, <2>3
    <3>4. G(n) = G(n - 1) * t[n] BY <1>3, <2>3, <2>5
    <3>5. (n - 1) + 1 = n /\ (n + 1) - 1 = n BY <2>3
    <3>6. t[n] = s[n + 1] /\ t[n] \in Nat BY <1>1, <2>3, <2>5
    <3>7. \A a, b, c \in Nat : (a * b) * c = a * (b * c) /\ b * c \in Nat OBVIOUS
    <3>8. F(n + 1) = (s[1] * G(n - 1)) * t[n] BY <3>2, <3>3, <3>5, <3>6
    <3> DEFINE a == s[1]  b == G(n - 1)  c == t[n]
    <3>9. a \in Nat /\ b \in Nat /\ c \in Nat BY <1>1, <3>2, <3>6
    <3>10. F(n + 1) = (a * b) * c /\ G(n) = b * c BY <3>4, <3>8
    <3> HIDE DEF a, b, c
    <3>11. (a * b) * c = a * (b * c) /\ b * c \in Nat BY <3>7, <3>9
    <3>12. F(n + 1) = a * G(n) /\ G(n) \in Nat BY <3>10, <3>11
    <3> QED BY <2>3, <3>12 DEF a
  <2> QED BY <2>4, <2>5
<1>6. F(N + 1) = s[1] * G(N)
  <2>1. N \in 0 .. N BY <1>1
  <2>2. \A n \in 0 .. N : F(n + 1) = s[1] * G(n) BY <1>5
  <2> QED BY <2>1, <2>2
<1> QED BY <1>2, <1>6, ProductIsFold DEF F, G, t

-----------------------------------------------------------------------------
(* A set in order.                                                         *)

\* R orders the elements of S: <<x, y>> when x goes before y.
IsOrdered(R, S) ==
  /\ \A x \in S : <<x, x>> \notin R
  /\ \A x, y, z \in S : <<x, y>> \in R /\ <<y, z>> \in R => <<x, z>> \in R
  /\ \A x, y \in S : x # y => <<x, y>> \in R \/ <<y, x>> \in R

Predecessors(R, S, x) == {y \in S : <<y, x>> \in R}

Ranked(R, S) ==
  [i \in 1 .. Cardinality(S) |-> CHOOSE x \in S : Cardinality(Predecessors(R, S, x)) = i - 1]

\* An element has as many before it as its place says.
LEMMA PlacesOfElements ==
  ASSUME NEW S, IsFiniteSet(S), NEW R, IsOrdered(R, S)
  PROVE  /\ \A x \in S : Cardinality(Predecessors(R, S, x)) \in 0 .. (Cardinality(S) - 1)
         /\ \A x, y \in S : <<x, y>> \in R => Cardinality(Predecessors(R, S, x)) < Cardinality(Predecessors(R, S, y))
         /\ \A n \in 0 .. (Cardinality(S) - 1) : \E x \in S : Cardinality(Predecessors(R, S, x)) = n
<1> DEFINE N == 0 .. (Cardinality(S) - 1)
           B(x) == Predecessors(R, S, x)
           f == [x \in S |-> Cardinality(B(x))]
<1>0. Cardinality(S) \in Nat BY FS_CardinalityType
<1>1. ASSUME NEW x \in S PROVE IsFiniteSet(B(x)) /\ Cardinality(B(x)) \in N
  <2>1. B(x) \subseteq S \ {x} BY DEF Predecessors, IsOrdered
  <2>2. IsFiniteSet(S \ {x}) /\ Cardinality(S \ {x}) = Cardinality(S) - 1 BY FS_RemoveElement
  <2> HIDE DEF B
  <2>3. IsFiniteSet(B(x)) /\ Cardinality(B(x)) <= Cardinality(S) - 1 BY <2>1, <2>2, FS_Subset
  <2>4. Cardinality(B(x)) \in Nat BY <2>3, FS_CardinalityType
  <2> QED BY <1>0, <2>3, <2>4
<1>2. ASSUME NEW x \in S, NEW y \in S, <<x, y>> \in R PROVE Cardinality(B(x)) < Cardinality(B(y))
  <2>1. B(x) \union {x} \subseteq B(y) /\ x \notin B(x) BY <1>2 DEF Predecessors, IsOrdered
  <2> HIDE DEF B
  <2>2. Cardinality(B(x) \union {x}) = Cardinality(B(x)) + 1 BY <1>1, <2>1, FS_AddElement
  <2>3. Cardinality(B(x) \union {x}) <= Cardinality(B(y)) BY <1>1, <2>1, FS_Subset
  <2>4. Cardinality(B(x)) \in Nat /\ Cardinality(B(y)) \in Nat BY <1>1, FS_CardinalityType
  <2> QED BY <2>2, <2>3, <2>4
<1>3. f \in [S -> N] BY <1>1
<1>4. IsFiniteSet(N) /\ Cardinality(N) = Cardinality(S)
  <2> DEFINE c == Cardinality(S)
  <2>1. 0 \in Int /\ c - 1 \in Int /\ c \in Nat BY <1>0
  <2> HIDE DEF c
  <2>2. IsFiniteSet(0 .. (c - 1)) /\ Cardinality(0 .. (c - 1)) = IF 0 > c - 1 THEN 0 ELSE (c - 1) - 0 + 1
    BY <2>1, FS_Interval
  <2>3. Cardinality(0 .. (c - 1)) = c BY <2>1, <2>2
  <2> QED BY <2>2, <2>3 DEF c
<1>5. f \in Injection(S, N)
  <2>1. ASSUME NEW x \in S, NEW y \in S, x # y PROVE f[x] # f[y]
    <3>1. f[x] = Cardinality(B(x)) /\ f[y] = Cardinality(B(y)) OBVIOUS
    <3>2. <<x, y>> \in R \/ <<y, x>> \in R BY <2>1 DEF IsOrdered
    <3>3. Cardinality(B(x)) \in Int /\ Cardinality(B(y)) \in Int BY <1>0, <1>1
    <3> HIDE DEF B, f
    <3> QED BY <1>2, <3>1, <3>2, <3>3
  <2>2. DOMAIN f = S OBVIOUS
  <2> HIDE DEF f
  <2>3. IsInjective(f) BY <2>1, <2>2 DEF IsInjective
  <2> QED BY <1>3, <2>3 DEF Injection
<1>6. f \in Surjection(S, N)
  <2> HIDE DEF f, N
  <2> QED BY <1>4, <1>5, FS_Injection
<1>7. ASSUME NEW n \in N PROVE \E x \in S : Cardinality(B(x)) = n
  <2>1. PICK x \in S : f[x] = n BY <1>6 DEF Surjection
  <2> QED BY <2>1
<1> QED BY <1>1, <1>2, <1>7

\* The elements of a set in order: all of them, each once, each after those
\* that go before it.
LEMMA OrderedElements ==
  ASSUME NEW S, IsFiniteSet(S), NEW R, IsOrdered(R, S), NEW d, d = Ranked(R, S)
  PROVE  /\ d \in Distinct(S) /\ Len(d) = Cardinality(S) /\ ToSet(d) = S
         /\ \A i, j \in 1 .. Len(d) : i < j => <<d[i], d[j]>> \in R
<1> DEFINE n == Cardinality(S)
           P(x) == Cardinality(Predecessors(R, S, x))
<1>0. n \in Nat BY FS_CardinalityType
<1>1. /\ \A x \in S : P(x) \in 0 .. (n - 1)
      /\ \A x, y \in S : <<x, y>> \in R => P(x) < P(y)
      /\ \A k \in 0 .. (n - 1) : \E x \in S : P(x) = k
  BY PlacesOfElements
<1> HIDE DEF n, P
<1>2. DOMAIN d = 1 .. n BY DEF Ranked, n
<1>3. ASSUME NEW i \in 1 .. n PROVE d[i] \in S /\ P(d[i]) = i - 1
  <2>1. d[i] = CHOOSE x \in S : P(x) = i - 1 BY DEF Ranked, n, P
  <2>2. i - 1 \in 0 .. (n - 1) BY <1>0
  <2>3. \E x \in S : P(x) = i - 1 BY <1>1, <2>2
  <2> QED BY <2>1, <2>3
<1>4. d \in Seq(S) /\ Len(d) = n
  <2>1. d \in [1 .. n -> S]
    <3>1. d = [i \in 1 .. n |-> d[i]] BY DEF Ranked, n
    <3> QED BY <1>3, <3>1
  <2> QED BY <1>0, <2>1
<1>5. IsInjective(d)
  <2>1. ASSUME NEW i \in 1 .. n, NEW j \in 1 .. n, d[i] = d[j] PROVE i = j
    <3>1. i - 1 = j - 1 BY <1>3, <2>1
    <3> QED BY <1>0, <3>1
  <2> QED BY <1>2, <2>1 DEF IsInjective
<1>6. ToSet(d) = S
  <2>1. ToSet(d) \subseteq S BY <1>2, <1>3 DEF ToSet
  <2>2. ASSUME NEW x \in S PROVE x \in ToSet(d)
    <3>1. P(x) \in 0 .. (n - 1) BY <1>1
    <3>2. P(x) + 1 \in 1 .. n BY <1>0, <3>1
    <3>3. d[P(x) + 1] \in S /\ P(d[P(x) + 1]) = (P(x) + 1) - 1 BY <1>3, <3>2
    <3> DEFINE y == d[P(x) + 1]
    <3>4. P(y) = P(x) /\ y \in S BY <1>0, <3>1, <3>3
    <3> HIDE DEF y
    <3>5. x = y
      <4>1. P(x) \in Int /\ P(y) \in Int BY <1>0, <3>1, <3>4
      <4>2. x # y => <<x, y>> \in R \/ <<y, x>> \in R BY <3>4 DEF IsOrdered
      <4> QED BY <1>1, <3>4, <4>1, <4>2
    <3> QED BY <1>2, <3>2, <3>5 DEF ToSet, y
  <2> QED BY <2>1, <2>2
<1>7. ASSUME NEW i \in 1 .. n, NEW j \in 1 .. n, i < j PROVE <<d[i], d[j]>> \in R
  <2>1. /\ d[i] \in S /\ d[j] \in S /\ P(d[i]) = i - 1 /\ P(d[j]) = j - 1 BY <1>3
  <2>2. d[i] # d[j] BY <1>0, <1>7, <2>1
  <2>3. <<d[i], d[j]>> \in R \/ <<d[j], d[i]>> \in R BY <2>1, <2>2 DEF IsOrdered
  <2>4. <<d[j], d[i]>> \in R => j - 1 < i - 1 BY <1>1, <2>1
  <2> QED BY <1>0, <1>7, <2>3, <2>4
<1> QED BY <1>4, <1>5, <1>6, <1>7 DEF Distinct, n

-----------------------------------------------------------------------------
(* A sequence of distinct elements is as long as the set of its elements    *)
(* is large; the places of an order are all taken; sequences flattened.     *)

\* The length of a sequence of distinct elements.
LEMMA LenIsCardinality ==
  ASSUME NEW K, NEW d \in Distinct(K)
  PROVE  IsFiniteSet(ToSet(d)) /\ Cardinality(ToSet(d)) = Len(d)
<1>1. Len(d) \in Nat /\ DOMAIN d = 1..Len(d) /\ d \in Seq(K) /\ IsInjective(d) BY DEF Distinct
<1>2. d \in [1..Len(d) -> ToSet(d)] BY <1>1 DEF ToSet
<1>3. \A x \in ToSet(d) : \E i \in 1..Len(d) : d[i] = x BY <1>1 DEF ToSet
<1>4. \A i, j \in 1..Len(d) : d[i] = d[j] => i = j BY <1>1 DEF IsInjective
<1>5. ExistsBijection(1..Len(d), ToSet(d))
  <2>1. d \in Injection(1..Len(d), ToSet(d)) BY <1>1, <1>2 DEF Injection
  <2>2. d \in Surjection(1..Len(d), ToSet(d)) BY <1>2, <1>3 DEF Surjection
  <2> QED BY <2>1, <2>2 DEF ExistsBijection, Bijection
<1>6. IsFiniteSet(1..Len(d)) BY <1>1, FS_Interval
<1>7. IsFiniteSet(ToSet(d)) BY <1>5, <1>6, FS_Bijection
<1>8. Cardinality(ToSet(d)) = Len(d) BY <1>1, <1>5, FS_CountingElements
<1> QED BY <1>7, <1>8

\* The place of i among 1 .. n in a strict order R.
RankIn(R, n, i) == 1 + Cardinality({j \in 1 .. n : <<j, i>> \in R})

IsStrictOrder(R, n) ==
  /\ \A i \in 1 .. n : <<i, i>> \notin R
  /\ \A i, j, k \in 1 .. n : <<i, j>> \in R /\ <<j, k>> \in R => <<i, k>> \in R
  /\ \A i, j \in 1 .. n : i # j => <<i, j>> \in R \/ <<j, i>> \in R

\* The places of a strict total order are all taken.
LEMMA RanksAreAll ==
  ASSUME NEW n \in Nat, NEW R, IsStrictOrder(R, n), NEW m \in 1 .. n
  PROVE  \E i \in 1 .. n : RankIn(R, n, i) = m
<1> DEFINE N == 1 .. n
<1>1. IsFiniteSet(N) /\ Cardinality(N) = n BY FS_Interval
<1>2. IsOrdered(R, N) BY DEF IsStrictOrder, IsOrdered
<1>3. m - 1 \in 0 .. (n - 1) /\ 1 + (m - 1) = m OBVIOUS
<1>4. \A i \in N : RankIn(R, n, i) = 1 + Cardinality(Predecessors(R, N, i)) BY DEF RankIn, Predecessors
<1> HIDE DEF N
<1>5. \E i \in N : Cardinality(Predecessors(R, N, i)) = m - 1 BY <1>1, <1>2, <1>3, PlacesOfElements
<1>6. \E i \in N : RankIn(R, n, i) = m BY <1>3, <1>4, <1>5
<1> QED BY <1>6 DEF N

\* A sequence is that of its first elements and that of the rest.
LEMMA SequenceSplit ==
  ASSUME NEW X, NEW s \in Seq(X), NEW t \in Seq(X), NEW u \in Seq(X),
         Len(s) = Len(t) + Len(u),
         \A i \in 1 .. Len(t) : s[i] = t[i],
         \A i \in 1 .. Len(u) : s[Len(t) + i] = u[i]
  PROVE  s = t \o u
<1> DEFINE v == t \o u
<1>1. /\ v \in Seq(X) /\ Len(v) = Len(t) + Len(u)
      /\ \A i \in 1 .. Len(v) : v[i] = IF i <= Len(t) THEN t[i] ELSE u[i - Len(t)]
  OBVIOUS
<1> HIDE DEF v
<1>2. ASSUME NEW i \in 1 .. Len(s) PROVE s[i] = v[i]
  <2>1. CASE i <= Len(t) BY <1>1, <2>1
  <2>2. CASE ~(i <= Len(t))
    <3>1. i - Len(t) \in 1 .. Len(u) BY <2>2
    <3>2. s[Len(t) + (i - Len(t))] = u[i - Len(t)] BY <3>1
    <3>3. Len(t) + (i - Len(t)) = i OBVIOUS
    <3> QED BY <1>1, <2>2, <3>2, <3>3
  <2> QED BY <2>1, <2>2
<1>3. Len(s) = Len(v) BY <1>1
<1>4. s = v BY <1>1, <1>2, <1>3, SeqEqual
<1> QED BY <1>4 DEF v

FlatRow(s, g, i)   == IF i = 1 THEN s[i] ELSE g[i - 1] \o s[i]

\* The table the definition of the flattened sequence chooses: its rows are the
\* sequences up to each, one after the other.
LEMMA FlatTable ==
  ASSUME NEW X, NEW s \in Seq(Seq(X)), Len(s) # 0
  PROVE  \E g : /\ FlattenSeq(s) = g[Len(s)]
                /\ \A i \in 1 .. Len(s) : g[i] = FlatRow(s, g, i) /\ g[i] \in Seq(X)
<1> DEFINE Rows(g, n) == [i \in 1 .. n |-> FlatRow(s, g, i)]
           N == Len(s)
           Has(n) == \E g : g = Rows(g, n)
<1>0. N \in Nat /\ \A i \in 1 .. N : s[i] \in Seq(X) OBVIOUS
<1>1. ASSUME NEW n \in Nat, n > 0, Has(n - 1) PROVE Has(n)
  <2>1. PICK g : g = Rows(g, n - 1) BY <1>1
  <2> DEFINE h == [i \in 1 .. n |-> IF i = n THEN FlatRow(s, g, n) ELSE g[i]]
  <2>2. ASSUME NEW i \in 1 .. n PROVE h[i] = FlatRow(s, h, i)
    <3>1. CASE i = n
      <4>1. i # 1 => h[i - 1] = g[i - 1] BY <1>1, <3>1
      <4> QED BY <3>1, <4>1 DEF FlatRow
    <3>2. CASE i # n
      <4>1. i \in 1 .. (n - 1) BY <1>1, <3>2
      <4>2. h[i] = FlatRow(s, g, i) BY <2>1, <3>2, <4>1
      <4>3. i # 1 => h[i - 1] = g[i - 1] BY <1>1, <4>1
      <4> QED BY <4>2, <4>3 DEF FlatRow
    <3> QED BY <3>1, <3>2
  <2>3. h = [i \in 1 .. n |-> h[i]] OBVIOUS
  <2> HIDE DEF h
  <2>4. h = Rows(h, n) BY <2>2, <2>3
  <2> QED BY <2>4
<1>2. Has(0)
  <2>1. [i \in 1 .. 0 |-> 0] = Rows([i \in 1 .. 0 |-> 0], 0) OBVIOUS
  <2> QED BY <2>1
<1>3. Has(N)
  <2> HIDE DEF Has
  <2> DEFINE C == {n \in Nat : ~ Has(n)}
  <2> SUFFICES ASSUME C # {} PROVE FALSE BY <1>0
  <2>1. C \in SUBSET Nat OBVIOUS
  <2>2. PICK n \in C : \A m \in C : n <= m
    <3> HIDE DEF C
    <3> QED BY <2>1, LeastNumber
  <2>3. n \in Nat /\ n # 0 /\ ~ Has(n) BY <1>2
  <2>4. n - 1 \in Nat /\ n > 0 BY <2>3
  <2>5. n - 1 \notin C BY <2>2, <2>3
  <2> QED BY <1>1, <2>3, <2>4, <2>5
<1> DEFINE g == CHOOSE g : g = Rows(g, N)
<1>4. g = Rows(g, N) BY <1>3
<1>5. FlattenSeq(s) = g[N] BY DEF FlattenSeq, FlatRow
<1> HIDE DEF g, Has
<1>6. ASSUME NEW i \in 1 .. N PROVE g[i] = FlatRow(s, g, i) BY <1>4
<1> HIDE DEF Rows
<1> DEFINE D == {n \in 1 .. N : g[n] \notin Seq(X)}
<1>7. D = {}
  <2> SUFFICES ASSUME D # {} PROVE FALSE OBVIOUS
  <2>1. D \in SUBSET Nat BY <1>0
  <2>2. PICK n \in D : \A m \in D : n <= m
    <3> HIDE DEF D
    <3> QED BY <2>1, LeastNumber
  <2>3. n \in 1 .. N /\ g[n] \notin Seq(X) OBVIOUS
  <2>4. CASE n = 1
    <3>1. g[1] = s[1] BY <1>6, <2>3, <2>4 DEF FlatRow
    <3> QED BY <1>0, <2>3, <2>4, <3>1
  <2>5. CASE n # 1
    <3>1. n - 1 \in 1 .. N /\ n - 1 \notin D BY <1>0, <2>2, <2>3, <2>5
    <3>2. g[n - 1] \in Seq(X) /\ s[n] \in Seq(X) BY <1>0, <2>3, <3>1
    <3>3. g[n] = g[n - 1] \o s[n] BY <1>6, <2>3, <2>5 DEF FlatRow
    <3>4. ASSUME NEW a \in Seq(X), NEW b \in Seq(X) PROVE a \o b \in Seq(X) OBVIOUS
    <3> QED BY <3>2, <3>3, <3>4, <2>3
  <2> QED BY <2>4, <2>5
<1> QED BY <1>5, <1>6, <1>7

\* A sequence of sequences is flattened to a sequence.
LEMMA FlattenedType ==
  ASSUME NEW X, NEW s \in Seq(Seq(X))
  PROVE  FlattenSeq(s) \in Seq(X)
<1>1. CASE Len(s) = 0
  <2>1. s = <<>> BY <1>1, EmptySeq
  <2>2. FlattenSeq(s) = s BY <1>1 DEF FlattenSeq
  <2>3. <<>> \in Seq(X) BY EmptySeq
  <2> QED BY <2>1, <2>2, <2>3
<1>2. CASE Len(s) # 0
  <2>1. Len(s) \in 1 .. Len(s) BY <1>2
  <2> QED BY <1>2, <2>1, FlatTable
<1> QED BY <1>1, <1>2

\* A sequence more goes behind the others.
LEMMA FlattenedAppend ==
  ASSUME NEW X, NEW s \in Seq(Seq(X)), NEW x \in Seq(X)
  PROVE  FlattenSeq(Append(s, x)) = FlattenSeq(s) \o x
<1> DEFINE t == Append(s, x)
           n == Len(s)
<1>1. /\ t \in Seq(Seq(X)) /\ Len(t) = n + 1 /\ n \in Nat
      /\ t[n + 1] = x /\ \A i \in 1 .. n : t[i] = s[i]
  OBVIOUS
<1> HIDE DEF t
<1>2. PICK h : /\ FlattenSeq(t) = h[n + 1]
               /\ \A i \in 1 .. (n + 1) : h[i] = FlatRow(t, h, i)
  <2>1. t \in Seq(Seq(X)) /\ Len(t) # 0 BY <1>1
  <2>2. PICK h : /\ FlattenSeq(t) = h[Len(t)]
                 /\ \A i \in 1 .. Len(t) : h[i] = FlatRow(t, h, i) /\ h[i] \in Seq(X)
    BY <2>1, FlatTable
  <2>3. Len(t) = n + 1 BY <1>1
  <2> QED BY <2>2, <2>3
<1>3. n + 1 \in 1 .. (n + 1) /\ h[n + 1] = FlatRow(t, h, n + 1) BY <1>1, <1>2
<1>4. CASE n = 0
  <2>1. s = <<>> BY <1>4, EmptySeq
  <2>2. FlattenSeq(s) = <<>> BY <1>4, <2>1 DEF FlattenSeq
  <2>3. h[n + 1] = x BY <1>1, <1>3, <1>4 DEF FlatRow
  <2>4. <<>> \o x = x OBVIOUS
  <2> QED BY <1>2, <2>2, <2>3, <2>4 DEF t
<1>5. CASE n # 0
  <2>1. PICK g : /\ FlattenSeq(s) = g[n]
                 /\ \A i \in 1 .. n : g[i] = FlatRow(s, g, i)
    BY <1>5, FlatTable
  <2> DEFINE D == {i \in 1 .. n : g[i] # h[i]}
  <2>2. D = {}
    <3> SUFFICES ASSUME D # {} PROVE FALSE OBVIOUS
    <3>1. D \in SUBSET Nat BY <1>1
    <3>2. PICK i \in D : \A j \in D : i <= j
      <4> HIDE DEF D
      <4> QED BY <3>1, LeastNumber
    <3>3. i \in 1 .. n /\ g[i] # h[i] OBVIOUS
    <3>8. i \in 1 .. (n + 1)
      <4> HIDE DEF D, n
      <4> QED BY <1>1, <3>3
    <3>4. g[i] = FlatRow(s, g, i) /\ h[i] = FlatRow(t, h, i) /\ t[i] = s[i]
      BY <1>1, <1>2, <2>1, <3>3, <3>8
    <3>5. i # 1 => g[i - 1] = h[i - 1]
      <4>1. i # 1 => i - 1 \in 1 .. n /\ ~(i <= i - 1) BY <1>1, <3>3
      <4> QED BY <3>2, <4>1
    <3> QED BY <3>3, <3>4, <3>5 DEF FlatRow
  <2>3. g[n] = h[n]
    <3>1. n \in 1 .. n BY <1>1, <1>5
    <3> HIDE DEF n
    <3> QED BY <2>2, <3>1
  <2>4. h[n + 1] = h[n] \o x
    <3>1. n + 1 # 1 /\ (n + 1) - 1 = n BY <1>1, <1>5
    <3> QED BY <1>1, <1>3, <3>1 DEF FlatRow
  <2> QED BY <1>2, <2>1, <2>3, <2>4 DEF t
<1> QED BY <1>4, <1>5
=============================================================================
