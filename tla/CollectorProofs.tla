--------------------------- MODULE CollectorProofs --------------------------
(***************************************************************************)
(* What the aggregates of collect_resources.py are, for any sequence of    *)
(* numbers: the order statistics, the quantiles between them, the mean and *)
(* the delta.                                                              *)
(***************************************************************************)
EXTENDS Collector, SubsequenceProofs, FiniteSetTheorems

-----------------------------------------------------------------------------
(* Arithmetic.                                                              *)

LEMMA DivMod ==
  ASSUME NEW a \in Int, NEW d \in Nat \ {0}
  PROVE  /\ a % d \in 0 .. d - 1
         /\ a \div d \in Int
         /\ a = d * (a \div d) + (a % d)
  OBVIOUS

LEMMA ModBelow ==
  ASSUME NEW a \in Nat, NEW d \in Nat \ {0}
  PROVE  a % d <= a
  OBVIOUS

LEMMA Multiples ==
  ASSUME NEW j \in Int, NEW l \in Int, NEW d \in Nat, j < l
  PROVE  d * l \in Int /\ d * j \in Int /\ d * l >= d * j + d
<1>. DEFINE n == l - (j + 1)
<1>1. n \in Nat /\ l = (j + 1) + n
  OBVIOUS
<1>. HIDE DEF n
<1>2. d * ((j + 1) + n) = (d * j + d) + d * n
  BY <1>1
<1>3. d * n >= 0 /\ d * j \in Int /\ d * n \in Int
  BY <1>1
<1>. QED BY <1>1, <1>2, <1>3

LEMMA DivAbove ==
  ASSUME NEW a \in Int, NEW d \in Nat \ {0}, NEW c \in Int, a >= d * c
  PROVE  a \div d >= c
  OBVIOUS

LEMMA DivUnder ==
  ASSUME NEW a \in Int, NEW d \in Nat \ {0}, NEW c \in Int, a <= d * c
  PROVE  a \div d <= c
  OBVIOUS

LEMMA LeastOf ==
  ASSUME NEW T \in SUBSET Nat, T # {}
  PROVE  \E x \in T : \A y \in T : x <= y
<1>. DEFINE R == OpToRel(<, Nat)
<1>1. IsWellFoundedOn(R, Nat)
  BY NatLessThanWellFounded
<1>2. \A a, b \in Nat : a < b => <<a, b>> \in R
  BY DEF R, OpToRel
<1>. HIDE DEF R
<1>3. PICK x \in T : \A y \in T : ~ (<<y, x>> \in R)
  BY <1>1, WFMin
<1>4. \A y \in T : ~ (y < x)
  BY <1>2, <1>3
<1>. QED BY <1>3, <1>4

-----------------------------------------------------------------------------
(* Order statistics.                                                        *)

\* The positions of s with a number below v, and of those up to v.
Below(s, v) == {n \in DOMAIN s : s[n] < v}
UpTo(s, v) == {n \in DOMAIN s : s[n] <= v}

LEMMA Counting ==
  ASSUME NEW s \in Seq(Nat), NEW I \in SUBSET (DOMAIN s)
  PROVE  /\ IsFiniteSet(I) /\ Cardinality(I) \in 0 .. Len(s)
         /\ Cardinality(I) = Len(s) => I = DOMAIN s
<1>1. Len(s) \in Nat /\ DOMAIN s = 1 .. Len(s)
  BY LenProperties
<1>. DEFINE n == Len(s)
<1>. HIDE DEF n
<1>2. IsFiniteSet(1 .. n) /\ Cardinality(1 .. n) = n
  <2>1. n \in Int /\ 1 \in Int /\ n >= 0
    BY <1>1 DEF n
  <2>2. IsFiniteSet(1 .. n) /\ Cardinality(1 .. n) = IF 1 > n THEN 0 ELSE n - 1 + 1
    BY <2>1, FS_Interval
  <2>. QED BY <2>1, <2>2
<1>3. I \in SUBSET (1 .. n)
  BY <1>1 DEF n
<1>4. IsFiniteSet(I) /\ Cardinality(I) <= Cardinality(1 .. n)
      /\ (Cardinality(1 .. n) = Cardinality(I) => 1 .. n = I)
  BY <1>2, <1>3, FS_Subset
<1>5. Cardinality(I) \in Nat
  BY <1>4, FS_CardinalityType
<1>. QED BY <1>1, <1>2, <1>4, <1>5 DEF n

LEMMA UpperBound ==
  ASSUME NEW s \in Seq(Nat)
  PROVE  \E x \in Nat : \A n \in 1 .. Len(s) : s[n] <= x
<1>. DEFINE N == Len(s)
            S == {i \in 0 .. N : \E x \in Nat : \A n \in 1 .. i : s[n] <= x}
<1>1. N \in Nat /\ \A n \in 1 .. N : s[n] \in Nat
  BY LenProperties
<1>. HIDE DEF N
<1>2. 0 \in S
  BY <1>1
<1>3. ASSUME NEW i \in 0 .. N - 1, i \in S PROVE i + 1 \in S
  <2>1. PICK x \in Nat : \A n \in 1 .. i : s[n] <= x
    BY <1>3
  <2>2. i + 1 \in 0 .. N /\ s[i + 1] \in Nat /\ \A n \in 1 .. i + 1 : n \in 1 .. i \/ n = i + 1
    BY <1>1
  <2>3. CASE s[i + 1] <= x
    <3>1. \A n \in 1 .. i + 1 : s[n] <= x
      BY <2>1, <2>2, <2>3
    <3>. QED BY <2>2, <3>1
  <2>4. CASE x < s[i + 1]
    <3>1. \A n \in 1 .. i + 1 : s[n] <= s[i + 1]
      <4>1. \A n \in 1 .. i : s[n] <= s[i + 1]
        BY <1>1, <2>1, <2>2, <2>4
      <4>. QED BY <2>2, <4>1
    <3>. QED BY <2>2, <3>1
  <2>5. s[i + 1] <= x \/ x < s[i + 1]
    BY <2>2
  <2>. QED BY <2>3, <2>4, <2>5, Zenon
<1>. HIDE DEF S
<1>4. \A i \in 0 .. N : i \in S
  BY <1>1, <1>2, <1>3, BoundedInduction
<1>5. N \in S
  BY <1>1, <1>4
<1>. QED BY <1>5 DEF S, N

\* sorted(values)[k] exists: it is one of the numbers, k at most are less, and more than k
\* are no greater.
LEMMA RankedIs ==
  ASSUME NEW s \in Seq(Nat), NEW k \in 0 .. Len(s) - 1
  PROVE  /\ \E n \in 1 .. Len(s) : Ranked(s, k) = s[n]
         /\ Ranked(s, k) \in Nat
         /\ Cardinality(Below(s, Ranked(s, k))) <= k
         /\ k < Cardinality(UpTo(s, Ranked(s, k)))
<1>1. Len(s) \in Nat /\ DOMAIN s = 1 .. Len(s) /\ \A n \in 1 .. Len(s) : s[n] \in Nat
  BY LenProperties
<1>. DEFINE N == Len(s)
            T == {x \in Nat : k < Cardinality(UpTo(s, x))}
            A == {s[n] : n \in DOMAIN s}
            Right(v) == /\ Cardinality(Below(s, v)) <= k
                        /\ k < Cardinality(UpTo(s, v))
<1>2. \A x : /\ Cardinality(UpTo(s, x)) \in 0 .. N
             /\ Cardinality(Below(s, x)) \in 0 .. N
             /\ IsFiniteSet(UpTo(s, x))
  <2>. TAKE x
  <2>1. UpTo(s, x) \in SUBSET (DOMAIN s) /\ Below(s, x) \in SUBSET (DOMAIN s)
    BY DEF UpTo, Below
  <2>. QED BY <2>1, Counting
<1>. HIDE DEF N
<1>3. k \in Nat /\ k < N /\ N \in Nat
  BY <1>1 DEF N
<1>4. T # {}
  <2>1. PICK x \in Nat : \A n \in 1 .. Len(s) : s[n] <= x
    BY UpperBound
  <2>2. UpTo(s, x) = DOMAIN s
    BY <1>1, <2>1 DEF UpTo
  <2>3. Cardinality(1 .. N) = N
    <3>1. Cardinality(1 .. N) = IF 1 > N THEN 0 ELSE N - 1 + 1
      BY <1>3, FS_Interval
    <3>. QED BY <1>3, <3>1
  <2>. QED BY <1>1, <1>3, <2>2, <2>3 DEF N
<1>5. PICK x \in T : \A y \in T : x <= y
  <2>1. T \in SUBSET Nat
    OBVIOUS
  <2>. HIDE DEF T
  <2>. QED BY <1>4, <2>1, LeastOf
<1>6. x \in Nat /\ k < Cardinality(UpTo(s, x))
  BY <1>5
<1>7. Cardinality(Below(s, x)) <= k /\ \E n \in 1 .. Len(s) : x = s[n]
  <2>1. CASE x = 0
    <3>1. Below(s, x) = {}
      BY <1>1, <2>1 DEF Below
    <3>2. Cardinality(Below(s, x)) <= k
      BY <1>3, <3>1, FS_EmptySet
    <3>3. UpTo(s, x) # {}
      <4>1. Cardinality(UpTo(s, x)) # 0
        BY <1>2, <1>3, <1>6
      <4>. QED BY <4>1, FS_EmptySet
    <3>4. PICK n \in 1 .. Len(s) : s[n] <= x
      BY <1>1, <3>3 DEF UpTo
    <3>5. x = s[n]
      BY <1>1, <2>1, <3>4
    <3>. QED BY <3>2, <3>5
  <2>2. CASE x # 0
    <3>1. x - 1 \in Nat /\ x - 1 < x
      BY <1>6, <2>2
    <3>2. ~ (k < Cardinality(UpTo(s, x - 1)))
      BY <1>5, <1>6, <3>1
    <3>3. Cardinality(UpTo(s, x - 1)) <= k
      BY <1>2, <1>3, <3>2
    <3>4. Below(s, x) = UpTo(s, x - 1)
      BY <1>1, <1>6, <3>1 DEF Below, UpTo
    <3>5. UpTo(s, x) # UpTo(s, x - 1)
      BY <1>6, <3>2
    <3>6. PICK n \in 1 .. Len(s) : s[n] <= x /\ ~ (s[n] <= x - 1)
      BY <1>1, <1>6, <3>1, <3>5 DEF UpTo
    <3>7. x = s[n]
      BY <1>1, <1>6, <3>6
    <3>. QED BY <3>3, <3>4, <3>7
  <2>. QED BY <2>1, <2>2
<1>8. x \in A /\ Right(x)
  BY <1>1, <1>6, <1>7
<1>9. Ranked(s, k) = CHOOSE v \in A : Right(v)
  BY DEF Ranked, Below, UpTo
<1>10. Ranked(s, k) \in A /\ Right(Ranked(s, k))
  <2>. HIDE DEF A, Right
  <2>. QED BY <1>8, <1>9
<1>11. \E n \in 1 .. Len(s) : Ranked(s, k) = s[n]
  BY <1>1, <1>10
<1>. QED BY <1>1, <1>10, <1>11

LEMMA RankedOrder ==
  ASSUME NEW s \in Seq(Nat), NEW k \in 0 .. Len(s) - 1, NEW l \in 0 .. Len(s) - 1, k <= l
  PROVE  Ranked(s, k) <= Ranked(s, l)
<1>. DEFINE a == Ranked(s, k)
            b == Ranked(s, l)
<1>1. a \in Nat /\ Cardinality(Below(s, a)) <= k
  BY RankedIs
<1>2. b \in Nat /\ l < Cardinality(UpTo(s, b))
  BY RankedIs
<1>. HIDE DEF a, b
<1>3. SUFFICES ASSUME b < a PROVE FALSE
  BY <1>1, <1>2 DEF a, b
<1>4. \A n \in DOMAIN s : s[n] \in Nat
  BY LenProperties
<1>5. UpTo(s, b) \in SUBSET Below(s, a)
  BY <1>1, <1>2, <1>3, <1>4 DEF UpTo, Below
<1>6. Below(s, a) \in SUBSET (DOMAIN s) /\ UpTo(s, b) \in SUBSET (DOMAIN s)
  BY DEF Below, UpTo
<1>7. IsFiniteSet(Below(s, a)) /\ Cardinality(Below(s, a)) \in Nat /\ Cardinality(UpTo(s, b)) \in Nat
  BY <1>6, Counting, LenProperties
<1>8. Cardinality(UpTo(s, b)) <= Cardinality(Below(s, a))
  BY <1>5, <1>7, FS_Subset
<1>9. k \in Int /\ l \in Int
  OBVIOUS
<1>. QED BY <1>1, <1>2, <1>7, <1>8, <1>9

\* The first is the least of the numbers, the last the greatest.
LEMMA RankedBounds ==
  ASSUME NEW s \in Seq(Nat), s # <<>>
  PROVE  /\ 0 \in 0 .. Len(s) - 1 /\ Len(s) - 1 \in 0 .. Len(s) - 1
         /\ \A n \in 1 .. Len(s) : Ranked(s, 0) <= s[n] /\ s[n] <= Ranked(s, Len(s) - 1)
<1>. DEFINE N == Len(s)
            a == Ranked(s, 0)
            b == Ranked(s, N - 1)
<1>1. N \in Nat /\ DOMAIN s = 1 .. N /\ \A n \in 1 .. N : s[n] \in Nat
  BY LenProperties
<1>2. N # 0
  BY EmptySeq
<1>3. 0 \in 0 .. N - 1 /\ N - 1 \in 0 .. N - 1
  BY <1>1, <1>2
<1>4. a \in Nat /\ Cardinality(Below(s, a)) <= 0
  BY <1>3, RankedIs
<1>5. b \in Nat /\ N - 1 < Cardinality(UpTo(s, b))
  BY <1>3, RankedIs
<1>6. /\ IsFiniteSet(Below(s, a)) /\ Cardinality(Below(s, a)) \in Nat
      /\ Cardinality(UpTo(s, b)) \in 0 .. N
      /\ Cardinality(UpTo(s, b)) = N => UpTo(s, b) = DOMAIN s
  <2>1. Below(s, a) \in SUBSET (DOMAIN s) /\ UpTo(s, b) \in SUBSET (DOMAIN s)
    BY DEF Below, UpTo
  <2>. HIDE DEF a, b
  <2>. QED BY <1>1, <2>1, Counting
<1>. HIDE DEF a, b, N
<1>7. Below(s, a) = {}
  <2>1. Cardinality(Below(s, a)) = 0
    BY <1>4, <1>6
  <2>. QED BY <1>6, <2>1, FS_EmptySet
<1>8. UpTo(s, b) = DOMAIN s
  BY <1>1, <1>5, <1>6
<1>9. ASSUME NEW n \in 1 .. N PROVE a <= s[n] /\ s[n] <= b
  <2>1. ~ (s[n] < a)
    BY <1>1, <1>7 DEF Below
  <2>2. s[n] <= b
    BY <1>1, <1>8 DEF UpTo
  <2>. QED BY <1>1, <1>4, <2>1, <2>2
<1>. QED BY <1>3, <1>9 DEF a, b, N
-----------------------------------------------------------------------------
(* Quantiles.                                                               *)

LEMMA RankedTypes ==
  ASSUME NEW s \in Seq(Nat), s # <<>>
  PROVE  /\ Len(s) \in Nat \ {0}
         /\ \A k \in 0 .. Len(s) - 1 : Ranked(s, k) \in Nat
<1>1. Len(s) \in Nat /\ Len(s) # 0
  BY LenProperties, EmptySeq
<1>2. \A k \in 0 .. Len(s) - 1 : Ranked(s, k) \in Nat
  BY RankedIs
<1>. QED BY <1>1, <1>2

\* The interpolation between the two neighbours of a quantile.
LEMMA Between ==
  ASSUME NEW a \in Nat, NEW b \in Nat, a <= b, NEW r \in 0 .. 99
  PROVE  /\ a * (100 - r) + b * r \in Nat
         /\ 100 * a <= a * (100 - r) + b * r /\ a * (100 - r) + b * r <= 100 * b
         /\ \A t \in r .. 99 : a * (100 - r) + b * r <= a * (100 - t) + b * t
<1>. DEFINE d == b - a
<1>1. d \in Nat /\ b = a + d
  OBVIOUS
<1>. HIDE DEF d
<1>2. \A t \in 0 .. 99 : a * (100 - t) + b * t = 100 * a + d * t
  <2>. TAKE t \in 0 .. 99
  <2>1. a * (100 - t) = 100 * a - a * t
    OBVIOUS
  <2>2. b * t = a * t + d * t
    BY <1>1
  <2>. DEFINE x == a * t
              y == d * t
  <2>3. x \in Int /\ y \in Int
    BY <1>1
  <2>4. a * (100 - t) + b * t = (100 * a - x) + (x + y)
    BY <2>1, <2>2, Zenon
  <2>. HIDE DEF x, y
  <2>5. (100 * a - x) + (x + y) = 100 * a + y
    BY <2>3
  <2>. QED BY <2>4, <2>5 DEF y
<1>3. \A t \in r .. 99 : t \in 0 .. 99 /\ d * t >= d * r /\ d * t \in Nat
  <2>. TAKE t \in r .. 99
  <2>1. t \in 0 .. 99 /\ d * t \in Nat /\ d * r \in Nat
    BY <1>1
  <2>2. CASE t = r
    BY <2>1, <2>2
  <2>3. CASE r < t
    BY <1>1, <2>1, <2>3, Multiples
  <2>. QED BY <2>1, <2>2, <2>3
<1>4. d * r \in Nat /\ d * r <= 100 * d
  <2>1. d * r \in Nat /\ d * 100 \in Nat
    BY <1>1
  <2>2. d * 100 >= d * r + d
    BY <1>1, Multiples
  <2>. QED BY <1>1, <2>1, <2>2
<1>5. a * (100 - r) + b * r = 100 * a + d * r
  BY <1>2
<1>6. 100 * a + d * r \in Nat /\ 100 * a + d * r >= 100 * a /\ 100 * a + d * r <= 100 * b
  BY <1>1, <1>4
<1>7. \A t \in r .. 99 : a * (100 - r) + b * r <= a * (100 - t) + b * t
  <2>. TAKE t \in r .. 99
  <2>1. a * (100 - t) + b * t = 100 * a + d * t /\ d * t >= d * r /\ d * t \in Nat
    BY <1>2, <1>3
  <2>. QED BY <1>4, <1>5, <2>1
<1>. QED BY <1>5, <1>6, <1>7

\* Where a quantile lies: its neighbours' ranks are ranks, and so is the weight.
LEMMA QuantileAt ==
  ASSUME NEW n \in Nat \ {0}, NEW q \in 0 .. 100
  PROVE  LET at == (n - 1) * q
         IN /\ at % 100 \in 0 .. 99
            /\ at \div 100 \in 0 .. n - 1
            /\ at = 100 * (at \div 100) + (at % 100)
            /\ Lesser(at \div 100 + 1, n - 1) \in at \div 100 .. n - 1
<1>. DEFINE m == n - 1
            at == m * q
            lo == at \div 100
<1>1. m \in Nat /\ at \in Nat
  OBVIOUS
<1>2. at <= 100 * m
  <2>1. CASE q = 100
    BY <1>1, <2>1
  <2>2. CASE q < 100
    <3>1. m * 100 >= m * q + m
      BY <1>1, <2>2, Multiples
    <3>. QED BY <1>1, <3>1
  <2>. QED BY <2>1, <2>2
<1>. HIDE DEF at
<1>3. at % 100 \in 0 .. 99 /\ lo \in Int /\ at = 100 * lo + (at % 100)
  BY <1>1, DivMod
<1>4. lo >= 0
  BY <1>1, <1>3
<1>5. lo <= m
  BY <1>1, <1>2, <1>3, DivUnder
<1>. HIDE DEF lo
<1>6. Lesser(lo + 1, m) \in lo .. m
  BY <1>1, <1>3, <1>4, <1>5 DEF Lesser
<1>. QED BY <1>1, <1>3, <1>4, <1>5, <1>6 DEF at, lo

LEMMA QuantileIs ==
  ASSUME NEW s \in Seq(Nat), s # <<>>, NEW q \in 0 .. 100
  PROVE  /\ Quantile(s, q) \in Nat
         /\ \E lo \in 0 .. Len(s) - 1, r \in 0 .. 99 :
              LET a == Ranked(s, lo)
                  b == Ranked(s, Lesser(lo + 1, Len(s) - 1))
              IN /\ (Len(s) - 1) * q = 100 * lo + r
                 /\ Lesser(lo + 1, Len(s) - 1) \in lo .. Len(s) - 1
                 /\ a \in Nat /\ b \in Nat /\ a <= b
                 /\ Quantile(s, q) = a * (100 - r) + b * r
                 /\ 100 * a <= Quantile(s, q) /\ Quantile(s, q) <= 100 * b
<1>. DEFINE n == Len(s)
            at == (n - 1) * q
            lo == at \div 100
            hi == Lesser(lo + 1, n - 1)
            a == Ranked(s, lo)
            b == Ranked(s, hi)
            r == at % 100
<1>1. n \in Nat \ {0} /\ \A k \in 0 .. n - 1 : Ranked(s, k) \in Nat
  BY RankedTypes
<1>2. /\ at % 100 \in 0 .. 99 /\ at = 100 * lo + (at % 100)
      /\ lo \in 0 .. n - 1 /\ hi \in lo .. n - 1
  <2>. HIDE DEF n
  <2>. QED BY <1>1, QuantileAt
<1>. HIDE DEF n, at, lo, hi
<1>3. hi \in 0 .. n - 1 /\ lo <= hi
  BY <1>1, <1>2
<1>4. Ranked(s, lo) <= Ranked(s, hi)
  BY <1>2, <1>3, RankedOrder DEF n
<1>5. a \in Nat /\ b \in Nat /\ a <= b /\ r \in 0 .. 99
  BY <1>1, <1>2, <1>3, <1>4
<1>6. Quantile(s, q) = a * (100 - r) + b * r
  BY DEF Quantile, n, at, lo, hi
<1>. HIDE DEF a, b, r
<1>7. /\ a * (100 - r) + b * r \in Nat
      /\ 100 * a <= a * (100 - r) + b * r /\ a * (100 - r) + b * r <= 100 * b
  BY <1>5, Between
<1>8. (n - 1) * q = 100 * lo + r
  BY <1>2 DEF at, r
<1>9. hi = Lesser(lo + 1, n - 1) /\ a = Ranked(s, lo) /\ b = Ranked(s, hi)
  BY DEF hi, a, b
<1>10. /\ (n - 1) * q = 100 * lo + r
       /\ hi \in lo .. n - 1
       /\ a \in Nat /\ b \in Nat /\ a <= b
       /\ Quantile(s, q) = a * (100 - r) + b * r
       /\ 100 * a <= Quantile(s, q) /\ Quantile(s, q) <= 100 * b
       /\ Quantile(s, q) \in Nat
  BY <1>2, <1>5, <1>6, <1>7, <1>8
<1>. QED BY <1>2, <1>5, <1>9, <1>10, Zenon DEF n

\* A quantile lies between the least and the greatest of the numbers.
LEMMA QuantileBounds ==
  ASSUME NEW s \in Seq(Nat), s # <<>>, NEW q \in 0 .. 100
  PROVE  /\ Quantile(s, q) \in Nat
         /\ 100 * Ranked(s, 0) <= Quantile(s, q)
         /\ Quantile(s, q) <= 100 * Ranked(s, Len(s) - 1)
<1>. DEFINE n == Len(s)
<1>1. n \in Nat \ {0} /\ \A k \in 0 .. n - 1 : Ranked(s, k) \in Nat
  BY RankedTypes
<1>2. PICK lo \in 0 .. n - 1 :
        /\ Lesser(lo + 1, n - 1) \in lo .. n - 1
        /\ 100 * Ranked(s, lo) <= Quantile(s, q)
        /\ Quantile(s, q) <= 100 * Ranked(s, Lesser(lo + 1, n - 1))
  BY QuantileIs
<1>. DEFINE hi == Lesser(lo + 1, n - 1)
<1>3. Quantile(s, q) \in Nat
  BY QuantileIs
<1>. HIDE DEF n, hi
<1>4. 0 \in 0 .. n - 1 /\ n - 1 \in 0 .. n - 1 /\ hi \in 0 .. n - 1 /\ 0 <= lo /\ hi <= n - 1
  BY <1>1, <1>2 DEF hi
<1>5. Ranked(s, 0) <= Ranked(s, lo) /\ Ranked(s, hi) <= Ranked(s, n - 1)
  BY <1>2, <1>4, RankedOrder DEF n
<1>6. /\ Ranked(s, 0) \in Nat /\ Ranked(s, lo) \in Nat
      /\ Ranked(s, hi) \in Nat /\ Ranked(s, n - 1) \in Nat
  BY <1>1, <1>2, <1>4
<1>7. 100 * Ranked(s, lo) <= Quantile(s, q) /\ Quantile(s, q) <= 100 * Ranked(s, hi)
  BY <1>2 DEF hi
<1>8. 100 * Ranked(s, 0) <= Quantile(s, q) /\ Quantile(s, q) <= 100 * Ranked(s, n - 1)
  BY <1>3, <1>5, <1>6, <1>7
<1>. QED BY <1>3, <1>8 DEF n

\* The higher quantile is no smaller.
LEMMA QuantileOrder ==
  ASSUME NEW s \in Seq(Nat), s # <<>>, NEW q \in 0 .. 100, NEW r \in q .. 100
  PROVE  Quantile(s, q) <= Quantile(s, r)
<1>. DEFINE n == Len(s)
<1>0. r \in 0 .. 100 /\ q <= r
  OBVIOUS
<1>1. n \in Nat \ {0} /\ \A k \in 0 .. n - 1 : Ranked(s, k) \in Nat
  BY RankedTypes
<1>2. PICK lq \in 0 .. n - 1, x \in 0 .. 99 :
        /\ (n - 1) * q = 100 * lq + x
        /\ Lesser(lq + 1, n - 1) \in lq .. n - 1
        /\ Ranked(s, lq) <= Ranked(s, Lesser(lq + 1, n - 1))
        /\ Quantile(s, q) = Ranked(s, lq) * (100 - x) + Ranked(s, Lesser(lq + 1, n - 1)) * x
        /\ Quantile(s, q) <= 100 * Ranked(s, Lesser(lq + 1, n - 1))
  BY QuantileIs
<1>3. PICK lr \in 0 .. n - 1, y \in 0 .. 99 :
        /\ (n - 1) * r = 100 * lr + y
        /\ Quantile(s, r) = Ranked(s, lr) * (100 - y) + Ranked(s, Lesser(lr + 1, n - 1)) * y
        /\ 100 * Ranked(s, lr) <= Quantile(s, r)
  BY <1>0, QuantileIs
<1>4. Quantile(s, q) \in Nat /\ Quantile(s, r) \in Nat
  BY <1>0, QuantileIs
<1>5. 100 * lq + x <= 100 * lr + y
  <2>. DEFINE m == n - 1
  <2>1. m \in Nat /\ m * q = 100 * lq + x /\ m * r = 100 * lr + y
    BY <1>1, <1>2, <1>3
  <2>. HIDE DEF n, m
  <2>2. m * q <= m * r
    <3>1. CASE q = r
      BY <2>1, <3>1
    <3>2. CASE q < r
      <4>1. m * r >= m * q + m /\ m * r \in Int /\ m * q \in Int
        BY <1>0, <2>1, <3>2, Multiples
      <4>. QED BY <2>1, <4>1
    <3>. QED BY <1>0, <3>1, <3>2
  <2>. QED BY <2>1, <2>2
<1>. DEFINE hq == Lesser(lq + 1, n - 1)
<1>6. hq = IF lq + 1 < n - 1 THEN lq + 1 ELSE n - 1
  BY DEF Lesser
<1>. HIDE DEF n, hq
<1>61. lq \in Nat /\ lr \in Nat /\ hq \in 0 .. n - 1 /\ lq <= hq
  BY <1>1, <1>2, <1>3 DEF hq
<1>7. CASE lr = lq
  <2>1. x <= y
    BY <1>5, <1>61, <1>7
  <2>. DEFINE a == Ranked(s, lq)
              b == Ranked(s, hq)
  <2>2. a <= b
    BY <1>2 DEF hq
  <2>3. a \in Nat /\ b \in Nat /\ y \in x .. 99
    BY <1>1, <1>61, <2>1
  <2>4. Quantile(s, q) = a * (100 - x) + b * x /\ Quantile(s, r) = a * (100 - y) + b * y
    BY <1>2, <1>3, <1>7 DEF hq
  <2>. HIDE DEF a, b
  <2>5. a * (100 - x) + b * x <= a * (100 - y) + b * y
    BY <2>2, <2>3, Between
  <2>. QED BY <2>4, <2>5
<1>8. CASE lr # lq
  <2>1. lq < lr
    BY <1>5, <1>61, <1>8
  <2>2. hq <= lr
    BY <1>1, <1>3, <1>6, <1>61, <2>1
  <2>3. Ranked(s, hq) <= Ranked(s, lr)
    BY <1>3, <1>61, <2>2, RankedOrder DEF n
  <2>4. Ranked(s, hq) \in Nat /\ Ranked(s, lr) \in Nat
    BY <1>1, <1>3, <1>61
  <2>5. Quantile(s, q) <= 100 * Ranked(s, hq) /\ 100 * Ranked(s, lr) <= Quantile(s, r)
    BY <1>2, <1>3 DEF hq
  <2>. QED BY <1>4, <2>3, <2>4, <2>5
<1>. QED BY <1>7, <1>8

-----------------------------------------------------------------------------
(* The mean.                                                                *)

\* One number after the other is added.
LEMMA TotalLoop ==
  ASSUME NEW s \in Seq(Nat)
  PROVE  \E f \in [0 .. Len(s) -> Nat] :
           /\ f[0] = 0
           /\ \A n \in 1 .. Len(s) : f[n] = f[n - 1] + s[n]
           /\ Total(s) = f[Len(s)]
<1>. DEFINE N == Len(s)
            V == Nat
            step == [n \in 1 .. N |-> [v \in V |-> v + s[n]]]
            Rec(g) == g = [n \in 0 .. N |-> IF n = 0 THEN 0 ELSE g[n - 1] + s[n]]
            sum == CHOOSE g : Rec(g)
<1>1. N \in Nat /\ \A n \in 1 .. N : s[n] \in Nat
  BY LenProperties
<1>2. step \in StepsOf(V, N) /\ 0 \in V
  BY <1>1 DEF StepsOf
<1>3. \A n \in 1 .. N : \A v \in V : step[n][v] = v + s[n]
  OBVIOUS
<1>4. Total(s) = sum[N]
  BY DEF Total
<1>. HIDE DEF N, V, step, sum
<1>5. PICK f \in [0 .. N -> V] :
        f[0] = 0 /\ \A k \in 1 .. N : f[k] = step[k][f[k - 1]]
  <2>1. Orbits(V, 0, N, step) # {}
    BY <1>1, <1>2, Iterates
  <2>. QED BY <2>1 DEF Orbits
<1>6. \A n \in 1 .. N : f[n] = f[n - 1] + s[n]
  <2>. TAKE n \in 1 .. N
  <2>1. n - 1 \in 0 .. N
    BY <1>1
  <2>. QED BY <1>3, <1>5, <2>1
<1>7. Rec(f)
  <2>1. \A n \in 0 .. N : n = 0 \/ n \in 1 .. N
    BY <1>1
  <2>. QED BY <1>5, <1>6, <2>1
<1>. HIDE DEF Rec
<1>8. Rec(sum)
  BY <1>7 DEF sum
<1>9. sum[0] = 0 /\ \A n \in 1 .. N : sum[n] = sum[n - 1] + s[n]
  <2>1. sum = [n \in 0 .. N |-> IF n = 0 THEN 0 ELSE sum[n - 1] + s[n]]
    BY <1>8 DEF Rec
  <2>2. \A n \in 1 .. N : n \in 0 .. N /\ n # 0
    BY <1>1
  <2>3. 0 \in 0 .. N
    BY <1>1
  <2>. QED BY <2>1, <2>2, <2>3, Zenon
<1>10. \A n \in 0 .. N : sum[n] = f[n]
  <2>. DEFINE S == {n \in 0 .. N : sum[n] = f[n]}
  <2>1. 0 \in S
    BY <1>1, <1>5, <1>9
  <2>2. ASSUME NEW n \in 0 .. N - 1, n \in S PROVE n + 1 \in S
    <3>1. n + 1 \in 1 .. N /\ n + 1 \in 0 .. N /\ (n + 1) - 1 = n
      BY <1>1
    <3>2. sum[n + 1] = sum[n] + s[n + 1] /\ f[n + 1] = f[n] + s[n + 1]
      BY <1>6, <1>9, <3>1, Zenon
    <3>. QED BY <2>2, <3>1, <3>2
  <2>. HIDE DEF S
  <2>3. \A n \in 0 .. N : n \in S
    BY <1>1, <2>1, <2>2, BoundedInduction
  <2>. QED BY <2>3 DEF S
<1>11. Total(s) = f[N]
  BY <1>1, <1>4, <1>10
<1>. QED BY <1>5, <1>6, <1>11 DEF N, V

LEMMA TotalBounds ==
  ASSUME NEW s \in Seq(Nat), NEW a \in Nat, NEW b \in Nat,
         \A n \in 1 .. Len(s) : a <= s[n] /\ s[n] <= b
  PROVE  /\ Total(s) \in Nat
         /\ Len(s) * a <= Total(s) /\ Total(s) <= Len(s) * b
<1>. DEFINE N == Len(s)
<1>1. N \in Nat /\ \A n \in 1 .. N : s[n] \in Nat /\ a <= s[n] /\ s[n] <= b
  BY LenProperties
<1>2. PICK f \in [0 .. N -> Nat] :
        f[0] = 0 /\ (\A n \in 1 .. N : f[n] = f[n - 1] + s[n]) /\ Total(s) = f[N]
  BY TotalLoop
<1>. HIDE DEF N
<1>. DEFINE S == {n \in 0 .. N : n * a <= f[n] /\ f[n] <= n * b}
<1>3. 0 \in S
  BY <1>1, <1>2
<1>4. ASSUME NEW n \in 0 .. N - 1, n \in S PROVE n + 1 \in S
  <2>1. n + 1 \in 1 .. N /\ n + 1 \in 0 .. N /\ (n + 1) - 1 = n /\ n \in 0 .. N
    BY <1>1
  <2>2. f[n + 1] = f[n] + s[n + 1] /\ f[n] \in Nat /\ f[n + 1] \in Nat
    BY <1>2, <2>1, Zenon
  <2>3. (n + 1) * a = n * a + a /\ (n + 1) * b = n * b + b /\ n * a \in Int /\ n * b \in Int
    BY <2>1
  <2>4. s[n + 1] \in Nat /\ a <= s[n + 1] /\ s[n + 1] <= b
    BY <1>1, <2>1
  <2>. DEFINE x == n * a
              y == n * b
              c == s[n + 1]
              d == f[n]
  <2>5. x <= d /\ d <= y
    BY <1>4
  <2>6. x \in Int /\ y \in Int /\ c \in Nat /\ d \in Nat /\ a <= c /\ c <= b
    BY <2>2, <2>3, <2>4
  <2>. HIDE DEF x, y, c, d
  <2>7. x + a <= d + c /\ d + c <= y + b
    BY <2>5, <2>6
  <2>8. (n + 1) * a <= f[n + 1] /\ f[n + 1] <= (n + 1) * b
    BY <2>2, <2>3, <2>7, Zenon DEF x, y, c, d
  <2>. QED BY <2>1, <2>8
<1>. HIDE DEF S
<1>5. \A n \in 0 .. N : n \in S
  BY <1>1, <1>3, <1>4, BoundedInduction
<1>6. N \in 0 .. N /\ N \in S
  BY <1>1, <1>5
<1>. QED BY <1>2, <1>6 DEF S, N

-----------------------------------------------------------------------------
(* The aggregates.                                                          *)

\* Of numbers up to c, stats() returns aggregates between 0 and c that are in their order.
LEMMA StatsInOrder ==
  ASSUME NEW c \in Nat, NEW s \in Seq(0 .. c)
  PROVE  LET t == Stats(s)
         IN /\ 0 <= t.min /\ t.min <= t.avg /\ t.avg <= t.max /\ t.max <= 100 * c
            /\ t.min <= t.p50 /\ t.p50 <= t.p95 /\ t.p95 <= t.p99 /\ t.p99 <= t.max
<1>1. CASE s = <<>>
  <2>1. Stats(s) = [min |-> 0, avg |-> 0, p50 |-> 0, p95 |-> 0, p99 |-> 0, max |-> 0]
    BY <1>1 DEF Stats
  <2>. QED BY <2>1
<1>2. CASE s # <<>>
  <2>1. Len(s) \in Nat /\ DOMAIN s = 1 .. Len(s) /\ \A n \in 1 .. Len(s) : s[n] \in 0 .. c
    BY LenProperties
  <2>2. s \in Seq(Nat)
    <3>1. \A n \in 1 .. Len(s) : s[n] \in Nat
      BY <2>1
    <3>2. s = [n \in 1 .. Len(s) |-> s[n]]
      BY <2>1
    <3>3. s \in [1 .. Len(s) -> Nat]
      BY <3>1, <3>2, Zenon
    <3>. QED BY <2>1, <3>3, SeqDef
  <2>. DEFINE N == Len(s)
              a == Ranked(s, 0)
              b == Ranked(s, N - 1)
              sum == Total(s)
              p50 == Quantile(s, 50)
              p95 == Quantile(s, 95)
              p99 == Quantile(s, 99)
  <2>3. /\ 0 \in 0 .. N - 1 /\ N - 1 \in 0 .. N - 1
        /\ \A n \in 1 .. N : a <= s[n] /\ s[n] <= b
    BY <1>2, <2>2, RankedBounds
  <2>4. a \in Nat /\ b \in Nat
    BY <2>2, <2>3, RankedIs
  <2>5. b <= c
    <3>1. PICK n \in 1 .. N : b = s[n]
      BY <2>2, <2>3, RankedIs
    <3>. QED BY <2>1, <3>1
  <2>6. /\ p50 \in Nat /\ p95 \in Nat /\ p99 \in Nat
        /\ 100 * a <= p50 /\ p99 <= 100 * b
    BY <1>2, <2>2, QuantileBounds
  <2>7. p50 <= p95 /\ p95 <= p99
    BY <1>2, <2>2, QuantileOrder
  <2>. HIDE DEF a, b
  <2>8. sum \in Nat /\ N * a <= sum /\ sum <= N * b
    BY <2>2, <2>3, <2>4, TotalBounds
  <2>9. Stats(s) = [min |-> 100 * a, avg |-> (100 * sum) \div N,
                    p50 |-> p50, p95 |-> p95, p99 |-> p99, max |-> 100 * b]
    BY <1>2 DEF Stats, a, b
  <2>10. N \in Nat \ {0}
    BY <1>2, <2>2, RankedTypes
  <2>. HIDE DEF N, sum, p50, p95, p99
  <2>11. 100 * a <= (100 * sum) \div N /\ (100 * sum) \div N <= 100 * b
    <3>. DEFINE x == N * a
                y == N * b
    <3>1. x \in Nat /\ y \in Nat /\ N * (100 * a) = 100 * x /\ N * (100 * b) = 100 * y
      BY <2>4, <2>10
    <3>2. x <= sum /\ sum <= y
      BY <2>8
    <3>. HIDE DEF x, y
    <3>3. 100 * x <= 100 * sum /\ 100 * sum <= 100 * y
      BY <2>8, <3>1, <3>2
    <3>4. 100 * sum \in Int /\ 100 * a \in Int /\ 100 * b \in Int
      BY <2>4, <2>8
    <3>5. 100 * sum >= N * (100 * a) /\ 100 * sum <= N * (100 * b)
      BY <3>1, <3>3, <3>4
    <3>6. (100 * sum) \div N >= 100 * a
      BY <2>10, <3>4, <3>5, DivAbove
    <3>7. (100 * sum) \div N <= 100 * b
      BY <2>10, <3>4, <3>5, DivUnder
    <3>8. (100 * sum) \div N \in Int
      BY <2>10, <3>4, DivMod
    <3>. QED BY <3>4, <3>6, <3>7, <3>8
  <2>. DEFINE avg == (100 * sum) \div N
  <2>12. 100 * a <= avg /\ avg <= 100 * b
    BY <2>11
  <2>13. 0 <= 100 * a /\ 100 * b <= 100 * c
    BY <2>4, <2>5
  <2>. HIDE DEF avg
  <2>14. Stats(s) = [min |-> 100 * a, avg |-> avg,
                     p50 |-> p50, p95 |-> p95, p99 |-> p99, max |-> 100 * b]
    BY <2>9 DEF avg
  <2>. QED BY <2>6, <2>7, <2>12, <2>13, <2>14
<1>. QED BY <1>1, <1>2

\* The delta is the widest difference of two of the numbers.
LEMMA DeltaIs ==
  ASSUME NEW s \in Seq(Nat)
  PROVE  /\ Delta(s) \in Nat
         /\ s = <<>> => Delta(s) = 0
         /\ \A i, j \in 1 .. Len(s) : s[j] - s[i] <= Delta(s)
         /\ s # <<>> => \E i, j \in 1 .. Len(s) : Delta(s) = s[j] - s[i]
<1>1. CASE s = <<>>
  <2>1. Delta(s) = 0
    BY <1>1 DEF Delta
  <2>. QED BY <1>1, <2>1
<1>2. CASE s # <<>>
  <2>. DEFINE N == Len(s)
              a == Ranked(s, 0)
              b == Ranked(s, N - 1)
  <2>1. Delta(s) = b - a
    BY <1>2 DEF Delta
  <2>2. /\ 0 \in 0 .. N - 1 /\ N - 1 \in 0 .. N - 1
        /\ \A n \in 1 .. N : a <= s[n] /\ s[n] <= b
    BY <1>2, RankedBounds
  <2>3. a \in Nat /\ b \in Nat
    BY <2>2, RankedIs
  <2>4. PICK i \in 1 .. N : a = s[i]
    BY <2>2, RankedIs
  <2>5. PICK j \in 1 .. N : b = s[j]
    BY <2>2, RankedIs
  <2>6. N \in Nat \ {0} /\ \A n \in 1 .. N : s[n] \in Nat
    BY <1>2, RankedTypes, LenProperties
  <2>. HIDE DEF N, a, b
  <2>7. a <= b
    BY <2>2, <2>3, <2>4
  <2>8. b - a \in Nat
    BY <2>3, <2>7
  <2>9. \A k, l \in 1 .. N : s[l] - s[k] <= b - a
    BY <2>2, <2>3, <2>6
  <2>10. \E k, l \in 1 .. N : Delta(s) = s[l] - s[k]
    BY <2>1, <2>4, <2>5
  <2>. QED BY <1>2, <2>1, <2>8, <2>9, <2>10 DEF N
<1>. QED BY <1>1, <1>2

-----------------------------------------------------------------------------
(* From raw entries to the samples of a window.                             *)

Entry == [ts : Nat, count : Nat]
Sample == [ts : Nat, rate : 0 .. 100, count : Nat]

\* In the order of their times, and no more work than ticks from one to the next.
Steady(raw) == \A k \in 1 .. Len(raw) - 1 :
  raw[k].ts < raw[k + 1].ts /\ raw[k + 1].count - raw[k].count <= raw[k + 1].ts - raw[k].ts

Ascending(s) == \A a, b \in 1 .. Len(s) : a < b => s[a].ts < s[b].ts

LEMMA SampleTypes ==
  ASSUME NEW s \in Seq(Sample)
  PROVE  /\ Len(s) \in Nat /\ DOMAIN s = 1 .. Len(s)
         /\ \A j \in 1 .. Len(s) : /\ s[j] \in Sample /\ s[j].ts \in Nat
                                  /\ s[j].rate \in 0 .. 100 /\ s[j].count \in Nat
<1>1. Len(s) \in Nat /\ DOMAIN s = 1 .. Len(s) /\ \A j \in 1 .. Len(s) : s[j] \in Sample
  BY LenProperties
<1>. QED BY <1>1 DEF Sample

\* No rate is negative, whatever restarts, or above what a container can do.
LEMMA RateBounds ==
  ASSUME NEW prev \in Entry, NEW cur \in Entry, cur.count - prev.count <= cur.ts - prev.ts
  PROVE  Rate(prev, cur) \in 0 .. 100
<1>. DEFINE d == cur.ts - prev.ts
            c == cur.count - prev.count
<1>1. d \in Int /\ c \in Int /\ c <= d
  BY DEF Entry
<1>2. CASE d > 0 /\ c > 0
  <2>1. cur.ts > prev.ts /\ cur.count > prev.count
    BY <1>2 DEF Entry
  <2>2. Rate(prev, cur) = (100 * c) \div d
    BY <2>1 DEF Rate
  <2>. HIDE DEF c, d
  <2>3. d \in Nat \ {0} /\ 100 * c \in Int /\ 100 * c >= d * 0 /\ 100 * c <= d * 100
    BY <1>1, <1>2
  <2>. DEFINE x == 100 * c
  <2>4. x \in Int /\ x >= d * 0 /\ x <= d * 100
    BY <2>3
  <2>. HIDE DEF x
  <2>5. x \div d >= 0
    BY <2>3, <2>4, DivAbove
  <2>6. x \div d <= 100
    BY <2>3, <2>4, DivUnder
  <2>7. x \div d \in Int
    BY <2>3, <2>4, DivMod
  <2>8. Rate(prev, cur) = x \div d
    BY <2>2 DEF x
  <2>. QED BY <2>5, <2>6, <2>7, <2>8
<1>3. CASE ~ (d > 0 /\ c > 0)
  <2>1. ~ (cur.ts > prev.ts /\ cur.count > prev.count)
    BY <1>3 DEF Entry
  <2>2. Rate(prev, cur) = 0
    BY <2>1 DEF Rate
  <2>. QED BY <2>2
<1>. QED BY <1>2, <1>3

\* One sample for every entry but the first.
LEMMA ToSamplesIs ==
  ASSUME NEW raw \in Seq(Entry), Steady(raw)
  PROVE  /\ ToSamples(raw) \in Seq(Sample)
         /\ Len(ToSamples(raw)) = IF raw = <<>> THEN 0 ELSE Len(raw) - 1
         /\ \A k \in 1 .. Len(ToSamples(raw)) :
              /\ k + 1 \in 1 .. Len(raw)
              /\ ToSamples(raw)[k].ts = raw[k + 1].ts
              /\ ToSamples(raw)[k].count = raw[k + 1].count
<1>1. CASE raw = <<>>
  <2>1. ToSamples(raw) = <<>>
    BY <1>1 DEF ToSamples
  <2>2. ToSamples(raw) \in Seq(Sample) /\ Len(ToSamples(raw)) = 0
    BY <2>1
  <2>3. \A k \in 1 .. Len(ToSamples(raw)) : FALSE
    BY <2>2
  <2>. QED BY <1>1, <2>2, <2>3
<1>2. CASE raw # <<>>
  <2>1. Len(raw) \in Nat /\ Len(raw) # 0 /\ \A k \in 1 .. Len(raw) : raw[k] \in Entry
    BY <1>2, LenProperties, EmptySeq
  <2>. DEFINE n == Len(raw) - 1
              sample(k) == [ts |-> raw[k + 1].ts, rate |-> Rate(raw[k], raw[k + 1]),
                            count |-> raw[k + 1].count]
              t == [k \in 1 .. n |-> sample(k)]
  <2>2. n \in Nat /\ Len(raw) = n + 1
    BY <2>1
  <2>3. ToSamples(raw) = t
    BY <1>2 DEF ToSamples
  <2>. HIDE DEF n
  <2>4. ASSUME NEW k \in 1 .. n PROVE sample(k) \in Sample /\ k + 1 \in 1 .. Len(raw)
    <3>1. k \in 1 .. Len(raw) /\ k + 1 \in 1 .. Len(raw)
      BY <2>2
    <3>2. raw[k] \in Entry /\ raw[k + 1] \in Entry
      BY <2>1, <3>1
    <3>3. raw[k + 1].count - raw[k].count <= raw[k + 1].ts - raw[k].ts
      BY DEF Steady, n
    <3>4. Rate(raw[k], raw[k + 1]) \in 0 .. 100
      BY <3>2, <3>3, RateBounds
    <3>. QED BY <3>1, <3>2, <3>4 DEF Entry, Sample
  <2>5. t \in [1 .. n -> Sample]
    BY <2>4
  <2>6. t \in Seq(Sample) /\ Len(t) = n
    BY <2>2, <2>5, SeqDef, LenProperties
  <2>7. \A k \in 1 .. n : t[k].ts = raw[k + 1].ts /\ t[k].count = raw[k + 1].count
    <3>. TAKE k \in 1 .. n
    <3>. DEFINE x == Rate(raw[k], raw[k + 1])
    <3>1. t[k] = [ts |-> raw[k + 1].ts, rate |-> x, count |-> raw[k + 1].count]
      OBVIOUS
    <3>. HIDE DEF t, x
    <3>. QED BY <3>1
  <2>. HIDE DEF t
  <2>. QED BY <1>2, <2>2, <2>3, <2>4, <2>6, <2>7
<1>. QED BY <1>1, <1>2

\* The samples that the report is made of, t of all the samples s: from the window, in the
\* order of their times; of those behind the warm-up none is missing, and no others are there
\* if there is one.
ChosenFrom(t, s, from, to, cutoff) ==
  LET In(j) == from <= s[j].ts /\ s[j].ts <= to
      Late(j) == In(j) /\ cutoff <= s[j].ts
  IN /\ t \in Seq(Sample) /\ Ascending(t)
     /\ \A k \in 1 .. Len(t) : \E j \in 1 .. Len(s) : In(j) /\ t[k] = s[j]
     /\ \A j \in 1 .. Len(s) : Late(j) => \E k \in 1 .. Len(t) : t[k] = s[j]
     /\ (\E j \in 1 .. Len(s) : Late(j)) => \A k \in 1 .. Len(t) : cutoff <= t[k].ts
     /\ ~ (\E j \in 1 .. Len(s) : Late(j)) =>
          \A j \in 1 .. Len(s) : In(j) => \E k \in 1 .. Len(t) : t[k] = s[j]

LEMMA KeptIs ==
  ASSUME NEW s \in Seq(Sample), Ascending(s), NEW from \in Nat, NEW to \in Nat, NEW cutoff \in Nat
  PROVE  ChosenFrom(Kept(InWindow(s, from, to), cutoff), s, from, to, cutoff)
<1>. DEFINE In(j) == from <= s[j].ts /\ s[j].ts <= to
            Late(j) == In(j) /\ cutoff <= s[j].ts
            w == InWindow(s, from, to)
            v == Pick(w, {k \in DOMAIN w : w[k].ts >= cutoff})
            t == Kept(w, cutoff)
            R == {x \in Sample \X Sample : x[1].ts < x[2].ts}
<1>1. /\ Len(s) \in Nat /\ DOMAIN s = 1 .. Len(s)
      /\ \A j \in 1 .. Len(s) : s[j] \in Sample /\ s[j].ts \in Nat
  BY SampleTypes
<1>2. \A a, b \in 1 .. Len(s) : a < b => <<s[a], s[b]>> \in R
  BY <1>1 DEF Ascending
<1>3. /\ w \in Seq(Sample)
      /\ \A k \in 1 .. Len(w) : \E j \in 1 .. Len(s) : In(j) /\ w[k] = s[j]
      /\ \A j \in 1 .. Len(s) : In(j) => \E k \in 1 .. Len(w) : w[k] = s[j]
      /\ \A a, b \in 1 .. Len(w) : a < b => <<w[a], w[b]>> \in R
  <2>. DEFINE I == {k \in DOMAIN s : from <= s[k].ts /\ s[k].ts <= to}
  <2>1. w = Pick(s, I)
    BY DEF InWindow
  <2>2. \A j \in 1 .. Len(s) : j \in I <=> In(j)
    BY <1>1
  <2>. HIDE DEF w, I, In, R
  <2>3. Pick(s, I) \in Seq(Sample)
    BY PickPositions
  <2>4. /\ \A k \in 1 .. Len(Pick(s, I)) : \E j \in 1 .. Len(s) : j \in I /\ Pick(s, I)[k] = s[j]
        /\ \A j \in 1 .. Len(s) : j \in I => \E k \in 1 .. Len(Pick(s, I)) : Pick(s, I)[k] = s[j]
    BY PickMembers
  <2>5. \A a, b \in 1 .. Len(Pick(s, I)) : a < b => <<Pick(s, I)[a], Pick(s, I)[b]>> \in R
    BY <1>2, PickOrdered
  <2>. QED BY <2>1, <2>2, <2>3, <2>4, <2>5, Zenon
<1>. HIDE DEF w
<1>4. /\ Len(w) \in Nat /\ DOMAIN w = 1 .. Len(w)
      /\ \A j \in 1 .. Len(w) : w[j] \in Sample /\ w[j].ts \in Nat
  BY <1>3, SampleTypes
<1>5. /\ v \in Seq(Sample)
      /\ \A k \in 1 .. Len(v) : \E j \in 1 .. Len(w) : cutoff <= w[j].ts /\ v[k] = w[j]
      /\ \A j \in 1 .. Len(w) : cutoff <= w[j].ts => \E k \in 1 .. Len(v) : v[k] = w[j]
      /\ \A a, b \in 1 .. Len(v) : a < b => <<v[a], v[b]>> \in R
  <2>. DEFINE I == {k \in DOMAIN w : w[k].ts >= cutoff}
  <2>1. v = Pick(w, I)
    OBVIOUS
  <2>2. \A j \in 1 .. Len(w) : j \in I <=> cutoff <= w[j].ts
    BY <1>4
  <2>. HIDE DEF v, I, R
  <2>0. w \in Seq(Sample)
    BY <1>3
  <2>3. Pick(w, I) \in Seq(Sample)
    BY <2>0, PickPositions
  <2>4. /\ \A k \in 1 .. Len(Pick(w, I)) : \E j \in 1 .. Len(w) : j \in I /\ Pick(w, I)[k] = w[j]
        /\ \A j \in 1 .. Len(w) : j \in I => \E k \in 1 .. Len(Pick(w, I)) : Pick(w, I)[k] = w[j]
    BY <2>0, PickMembers
  <2>5. \A a, b \in 1 .. Len(Pick(w, I)) : a < b => <<Pick(w, I)[a], Pick(w, I)[b]>> \in R
    BY <1>3, PickOrdered
  <2>. QED BY <2>1, <2>2, <2>3, <2>4, <2>5, Zenon
<1>6. t = IF v = <<>> THEN w ELSE v
  BY DEF Kept
<1>. HIDE DEF v, t
<1>7. CASE v = <<>>
  <2>1. t = w
    BY <1>6, <1>7
  <2>2. \A j \in 1 .. Len(w) : ~ (cutoff <= w[j].ts)
    BY <1>5, <1>7
  <2>3. \A j \in 1 .. Len(s) : ~ Late(j)
    BY <1>3, <2>2
  <2>4. \A a, b \in 1 .. Len(w) : a < b => w[a].ts < w[b].ts
    BY <1>3
  <2>. QED BY <1>3, <2>1, <2>3, <2>4 DEF Ascending, ChosenFrom, t, w
<1>8. CASE v # <<>>
  <2>1. t = v
    BY <1>6, <1>8
  <2>2. ASSUME NEW k \in 1 .. Len(v) PROVE \E j \in 1 .. Len(s) : Late(j) /\ v[k] = s[j]
    <3>1. PICK i \in 1 .. Len(w) : cutoff <= w[i].ts /\ v[k] = w[i]
      BY <1>5
    <3>2. PICK j \in 1 .. Len(s) : In(j) /\ w[i] = s[j]
      BY <1>3
    <3>. QED BY <3>1, <3>2
  <2>3. Len(v) \in Nat \ {0}
    BY <1>5, <1>8, LenProperties, EmptySeq
  <2>4. 1 \in 1 .. Len(v)
    BY <2>3
  <2>5. \E j \in 1 .. Len(s) : Late(j)
    BY <2>2, <2>4
  <2>6. ASSUME NEW j \in 1 .. Len(s), Late(j) PROVE \E k \in 1 .. Len(v) : v[k] = s[j]
    <3>1. PICK i \in 1 .. Len(w) : w[i] = s[j]
      BY <1>3, <2>6
    <3>2. cutoff <= w[i].ts
      BY <2>6, <3>1
    <3>. QED BY <1>5, <3>1, <3>2
  <2>7. \A a, b \in 1 .. Len(v) : a < b => v[a].ts < v[b].ts
    BY <1>5
  <2>8. ASSUME NEW k \in 1 .. Len(v) PROVE cutoff <= v[k].ts
    <3>1. PICK j \in 1 .. Len(w) : cutoff <= w[j].ts /\ v[k] = w[j]
      BY <1>5
    <3>. QED BY <3>1
  <2>. QED BY <1>5, <2>1, <2>2, <2>5, <2>6, <2>7, <2>8 DEF Ascending, ChosenFrom, t, w
<1>. QED BY <1>7, <1>8

-----------------------------------------------------------------------------
(* The report.                                                              *)

\* The samples are in the order of their times as the entries are.
LEMMA SamplesAscend ==
  ASSUME NEW raw \in Seq(Entry), Steady(raw), Ascending(raw)
  PROVE  Ascending(ToSamples(raw))
<1>. DEFINE t == ToSamples(raw)
<1>1. \A k \in 1 .. Len(t) : k + 1 \in 1 .. Len(raw) /\ t[k].ts = raw[k + 1].ts
  BY ToSamplesIs
<1>2. Len(t) \in Nat
  BY ToSamplesIs, LenProperties
<1>. HIDE DEF t
<1>3. ASSUME NEW a \in 1 .. Len(t), NEW b \in 1 .. Len(t), a < b PROVE t[a].ts < t[b].ts
  <2>1. a + 1 < b + 1
    BY <1>2, <1>3
  <2>. QED BY <1>1, <2>1 DEF Ascending
<1>. QED BY <1>3 DEF Ascending, t

LEMMA AggregateIs ==
  ASSUME NEW t \in Seq(Sample)
  PROVE  LET a == Aggregate(t)
             s == a.rate
         IN /\ a.samples = Len(t)
            /\ 0 <= s.min /\ s.min <= s.avg /\ s.avg <= s.max /\ s.max <= 100 * 100
            /\ s.min <= s.p50 /\ s.p50 <= s.p95 /\ s.p95 <= s.p99 /\ s.p99 <= s.max
            /\ a.delta \in Nat
            /\ \A i, j \in 1 .. Len(t) : t[j].count - t[i].count <= a.delta
            /\ t = <<>> => a.delta = 0
            /\ t # <<>> => \E i, j \in 1 .. Len(t) : a.delta = t[j].count - t[i].count
<1>1. /\ Len(t) \in Nat /\ DOMAIN t = 1 .. Len(t)
      /\ \A k \in 1 .. Len(t) : t[k].rate \in 0 .. 100 /\ t[k].count \in Nat
  BY SampleTypes
<1>. DEFINE n == Len(t)
            rates == [k \in 1 .. n |-> t[k].rate]
            counts == [k \in 1 .. n |-> t[k].count]
<1>2. Aggregate(t) = [samples |-> n, rate |-> Stats(rates), delta |-> Delta(counts)]
  BY <1>1 DEF Aggregate
<1>3. rates \in Seq(0 .. 100)
  <2>1. rates \in [1 .. n -> 0 .. 100] /\ n \in Nat
    BY <1>1
  <2>. HIDE DEF rates, n
  <2>. QED BY <2>1, SeqDef
<1>4. counts \in Seq(Nat) /\ Len(counts) = n
  <2>1. counts \in [1 .. n -> Nat] /\ n \in Nat
    BY <1>1
  <2>. HIDE DEF counts, n
  <2>. QED BY <2>1, SeqDef, LenProperties
<1>5. \A k \in 1 .. n : counts[k] = t[k].count
  OBVIOUS
<1>. DEFINE s == Stats(rates)
<1>6. /\ 0 <= s.min /\ s.min <= s.avg /\ s.avg <= s.max /\ s.max <= 100 * 100
      /\ s.min <= s.p50 /\ s.p50 <= s.p95 /\ s.p95 <= s.p99 /\ s.p99 <= s.max
  <2>1. 100 \in Nat
    OBVIOUS
  <2>. HIDE DEF rates
  <2>. QED BY <1>3, <2>1, StatsInOrder
<1>. HIDE DEF s, counts
<1>7. /\ Delta(counts) \in Nat
      /\ counts = <<>> => Delta(counts) = 0
      /\ \A i, j \in 1 .. n : counts[j] - counts[i] <= Delta(counts)
      /\ counts # <<>> => \E i, j \in 1 .. n : Delta(counts) = counts[j] - counts[i]
  BY <1>4, DeltaIs
<1>8. counts = <<>> <=> t = <<>>
  BY <1>4, EmptySeq
<1>9. Aggregate(t) = [samples |-> n, rate |-> s, delta |-> Delta(counts)]
  BY <1>2 DEF s
<1>. HIDE DEF n
<1>10. /\ Aggregate(t).samples = n /\ Aggregate(t).rate = s /\ Aggregate(t).delta = Delta(counts)
  BY <1>9
<1>11. \A i, j \in 1 .. n : t[j].count - t[i].count <= Aggregate(t).delta
  BY <1>5, <1>7, <1>10
<1>12. t # <<>> => \E i, j \in 1 .. n : Aggregate(t).delta = t[j].count - t[i].count
  BY <1>5, <1>7, <1>8, <1>10
<1>. QED BY <1>6, <1>7, <1>8, <1>10, <1>11, <1>12 DEF n

\* Samples in the order of their times have as many times as there are samples.
LEMMA DistinctTimes ==
  ASSUME NEW t \in Seq(Sample), Ascending(t)
  PROVE  Cardinality({t[k].ts : k \in 1 .. Len(t)}) = Len(t)
<1>. DEFINE n == Len(t)
            T == {t[k].ts : k \in 1 .. n}
            f == [k \in 1 .. n |-> t[k].ts]
<1>1. n \in Nat /\ \A k \in 1 .. n : t[k].ts \in Nat
  BY SampleTypes
<1>2. f \in Surjection(1 .. n, T)
  BY DEF Surjection
<1>3. f \in Injection(1 .. n, T)
  <2>1. ASSUME NEW a \in 1 .. n, NEW b \in 1 .. n, f[a] = f[b] PROVE a = b
    <3>1. t[a].ts = t[b].ts
      BY <2>1
    <3>2. ~ (a < b) /\ ~ (b < a)
      BY <1>1, <3>1 DEF Ascending
    <3>. QED BY <1>1, <3>2
  <2>. QED BY <1>2, <2>1 DEF Injection, Surjection, IsInjective
<1>4. ExistsBijection(1 .. n, T)
  BY <1>2, <1>3 DEF ExistsBijection, Bijection
<1>. HIDE DEF n, T
<1>5. Cardinality(T) = n
  BY <1>1, <1>4, FS_CountingElements
<1>. QED BY <1>5 DEF n, T
=============================================================================
