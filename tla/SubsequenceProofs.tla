------------------------- MODULE SubsequenceProofs --------------------------
(***************************************************************************)
(* What Pick returns, for any sequence and any positions: the lemmas that  *)
(* the proofs about loops, windows and buffers rest on.  They need         *)
(* induction over the length of a sequence.  It is stated here with a set  *)
(* in place of a predicate, and follows from the well-foundedness of <.    *)
(***************************************************************************)
EXTENDS Subsequences, SequenceTheorems, WellFoundedInduction, TLAPS

\* Induction over the natural numbers.
LEMMA SetInduction ==
  ASSUME NEW S, 0 \in S, \A n \in Nat : n \in S => n + 1 \in S
  PROVE  \A n \in Nat : n \in S
<1>. DEFINE R == OpToRel(<, Nat)
            T == Nat \ S
<1>1. IsWellFoundedOn(R, Nat)
  BY NatLessThanWellFounded
<1>2. SUFFICES ASSUME T # {} PROVE FALSE
  OBVIOUS
<1>3. T \subseteq Nat
  OBVIOUS
<1>. HIDE DEF T, R
<1>4. PICK x \in T : \A y \in T : ~ (<<y, x>> \in R)
  BY <1>1, <1>2, <1>3, WFMin
<1>5. \A a, b \in Nat : a < b => <<a, b>> \in R
  BY DEF R, OpToRel
<1>6. x \in Nat /\ x \notin S
  BY <1>3, <1>4 DEF T
<1>7. x # 0
  BY <1>6
<1>8. x - 1 \in Nat /\ x - 1 < x
  BY <1>6, <1>7
<1>9. x - 1 \in S
  BY <1>4, <1>5, <1>6, <1>8 DEF T
<1>. QED BY <1>6, <1>8, <1>9

\* The same up to a bound.
LEMMA BoundedInduction ==
  ASSUME NEW N \in Nat, NEW S, 0 \in S, \A n \in 0 .. N - 1 : n \in S => n + 1 \in S
  PROVE  \A n \in 0 .. N : n \in S
<1>. DEFINE T == {n \in Nat : n <= N => n \in S}
<1>1. 0 \in T
  OBVIOUS
<1>2. \A n \in Nat : n \in T => n + 1 \in T
  OBVIOUS
<1>. HIDE DEF T
<1>3. \A n \in Nat : n \in T
  BY <1>1, <1>2, SetInduction
<1>. QED BY <1>3 DEF T

\* The functions that start with b and go on as the N steps say: there is one.
Orbits(V, b, N, steps) ==
  {f \in [0 .. N -> V] : f[0] = b /\ \A k \in 1 .. N : f[k] = steps[k][f[k - 1]]}

StepsOf(V, N) == [1 .. N -> [V -> V]]

LEMMA Iterates ==
  ASSUME NEW V, NEW b \in V, NEW N \in Nat, NEW step \in StepsOf(V, N)
  PROVE  Orbits(V, b, N, step) # {}
<1>. DEFINE Goes(f, n) ==
              /\ f \in [0 .. n -> V]
              /\ f[0] = b
              /\ \A k \in 1 .. n : f[k] = step[k][f[k - 1]]
            S == {n \in 0 .. N : \E f : Goes(f, n)}
<1>0. step \in [1 .. N -> [V -> V]]
  BY DEF StepsOf
<1>1. 0 \in S
  <2>1. Goes([k \in 0 .. 0 |-> b], 0)
    OBVIOUS
  <2>. HIDE DEF Goes
  <2>. QED BY <2>1
<1>2. ASSUME NEW n \in 0 .. N - 1, n \in S PROVE n + 1 \in S
  <2>1. PICK f : Goes(f, n)
    BY <1>2
  <2>. DEFINE v == step[n + 1][f[n]]
              g == [k \in 0 .. n + 1 |-> IF k = n + 1 THEN v ELSE f[k]]
  <2>2. n \in Nat /\ n + 1 \in 1 .. N /\ n + 1 \in 0 .. N
    OBVIOUS
  <2>3. f[n] \in V
    BY <2>1, <2>2
  <2>4. v \in V
    BY <1>0, <2>2, <2>3
  <2>. HIDE DEF v
  <2>5. /\ \A k \in 0 .. n : g[k] = f[k] /\ f[k] \in V
        /\ g[n + 1] = v
    BY <2>1, <2>2
  <2>6. g \in [0 .. n + 1 -> V]
    BY <2>1, <2>2, <2>4
  <2>. HIDE DEF g
  <2>7. g[0] = b
    BY <2>1, <2>2, <2>5
  <2>8. \A k \in 1 .. n + 1 : g[k] = step[k][g[k - 1]]
    <3>1. ASSUME NEW k \in 1 .. n PROVE g[k] = step[k][g[k - 1]]
      <4>1. k \in 0 .. n /\ k - 1 \in 0 .. n
        BY <2>2
      <4>. QED BY <2>1, <2>5, <3>1, <4>1
    <3>2. g[n + 1] = step[n + 1][g[(n + 1) - 1]]
      <4>1. (n + 1) - 1 = n /\ n \in 0 .. n
        BY <2>2
      <4>. QED BY <2>5, <4>1 DEF v
    <3>3. \A k \in 1 .. n + 1 : k \in 1 .. n \/ k = n + 1
      BY <2>2
    <3>. QED BY <3>1, <3>2, <3>3
  <2>9. Goes(g, n + 1)
    BY <2>6, <2>7, <2>8
  <2>. HIDE DEF Goes
  <2>. QED BY <2>2, <2>9
<1>. HIDE DEF S
<1>3. \A n \in 0 .. N : n \in S
  BY <1>1, <1>2, BoundedInduction
<1>4. N \in S
  BY <1>3
<1>. QED BY <1>4 DEF S, Orbits

-----------------------------------------------------------------------------
(* The loop.                                                                *)

\* What the loop has after each pass: a sequence of elements of s, longer by s[n] after
\* the n-th if that position is to be kept.
LEMMA PickedLoop ==
  ASSUME NEW V, NEW s \in Seq(V), NEW I
  PROVE  /\ Picked(s, I) \in [0 .. Len(s) -> Seq(V)]
         /\ Picked(s, I)[0] = <<>>
         /\ \A n \in 1 .. Len(s) :
              Picked(s, I)[n] = IF n \in I THEN Append(Picked(s, I)[n - 1], s[n])
                                           ELSE Picked(s, I)[n - 1]
<1>. DEFINE N == Len(s)
            W == Seq(V)
            step == [n \in 1 .. N |-> [w \in W |-> IF n \in I THEN Append(w, s[n]) ELSE w]]
            upto == Picked(s, I)
<1>1. N \in Nat /\ \A n \in 1 .. N : s[n] \in V
  BY LenProperties
<1>2. \A n \in 1 .. N : \A w \in W : Append(w, s[n]) \in W
  BY <1>1, AppendProperties
<1>3. /\ <<>> \in W
      /\ step \in StepsOf(W, N)
  BY <1>2 DEF StepsOf
<1>4. \A n \in 1 .. N : \A w \in W :
        step[n][w] = IF n \in I THEN Append(w, s[n]) ELSE w
  OBVIOUS
<1>. HIDE DEF N, W, step
<1>5. PICK f \in [0 .. N -> W] :
        f[0] = <<>> /\ \A k \in 1 .. N : f[k] = step[k][f[k - 1]]
  <2>. DEFINE b == <<>>
  <2>1. b \in W
    BY <1>3
  <2>. HIDE DEF b
  <2>2. Orbits(W, b, N, step) # {}
    BY <1>1, <1>3, <2>1, Iterates
  <2>. QED BY <2>2 DEF b, Orbits
<1>6. \A n \in 1 .. N : f[n] = IF n \in I THEN Append(f[n - 1], s[n]) ELSE f[n - 1]
  <2>. TAKE n \in 1 .. N
  <2>1. n - 1 \in 0 .. N
    BY <1>1
  <2>. QED BY <1>4, <1>5, <2>1
<1>7. f = [n \in 0 .. N |-> IF n = 0 THEN <<>>
                            ELSE IF n \in I THEN Append(f[n - 1], s[n]) ELSE f[n - 1]]
  <2>1. \A n \in 0 .. N : n = 0 \/ n \in 1 .. N
    BY <1>1
  <2>. QED BY <1>5, <1>6, <2>1
<1>8. upto = [n \in 0 .. N |-> IF n = 0 THEN <<>>
                               ELSE IF n \in I THEN Append(upto[n - 1], s[n]) ELSE upto[n - 1]]
  <2>. DEFINE Rec(g) == g = [n \in 0 .. N |-> IF n = 0 THEN <<>>
                               ELSE IF n \in I THEN Append(g[n - 1], s[n]) ELSE g[n - 1]]
  <2>1. upto = CHOOSE g : Rec(g)
    BY DEF Picked, N
  <2>2. Rec(f)
    BY <1>7
  <2>. HIDE DEF Rec, upto
  <2>3. Rec(upto)
    BY <2>1, <2>2
  <2>. QED BY <2>3 DEF Rec
<1>. HIDE DEF upto
<1>9. upto[0] = <<>> /\ \A n \in 1 .. N :
        upto[n] = IF n \in I THEN Append(upto[n - 1], s[n]) ELSE upto[n - 1]
  <2>1. \A n \in 1 .. N : n \in 0 .. N /\ n # 0
    BY <1>1
  <2>2. 0 \in 0 .. N
    BY <1>1
  <2>. QED BY <1>8, <2>1, <2>2, Zenon
<1>10. \A n \in 0 .. N : upto[n] \in W
  <2>. DEFINE S == {n \in 0 .. N : upto[n] \in W}
  <2>1. 0 \in S
    BY <1>1, <1>3, <1>9
  <2>2. ASSUME NEW n \in 0 .. N - 1, n \in S PROVE n + 1 \in S
    <3>1. n + 1 \in 1 .. N /\ n + 1 \in 0 .. N /\ (n + 1) - 1 = n
      BY <1>1
    <3>2. upto[n + 1] = IF n + 1 \in I THEN Append(upto[n], s[n + 1]) ELSE upto[n]
      BY <1>9, <3>1, Zenon
    <3>. QED BY <1>2, <2>2, <3>1, <3>2 DEF W, N
  <2>. HIDE DEF S
  <2>3. \A n \in 0 .. N : n \in S
    BY <1>1, <2>1, <2>2, BoundedInduction
  <2>. QED BY <2>3 DEF S
<1>11. upto \in [0 .. N -> W]
  <2>1. upto = [n \in 0 .. N |-> upto[n]]
    BY <1>8
  <2>. QED BY <1>10, <2>1, Zenon
<1>. QED BY <1>9, <1>11 DEF upto, N, W

\* What is kept after some passes is never taken back.
LEMMA PickedGrows ==
  ASSUME NEW V, NEW s \in Seq(V), NEW I, NEW i \in 0 .. Len(s)
  PROVE  \A n \in i .. Len(s) :
           /\ Len(Picked(s, I)[i]) <= Len(Picked(s, I)[n])
           /\ \A k \in 1 .. Len(Picked(s, I)[i]) : Picked(s, I)[n][k] = Picked(s, I)[i][k]
<1>. DEFINE P == Picked(s, I)
            N == Len(s)
            S == {d \in 0 .. N - i : /\ Len(P[i]) <= Len(P[i + d])
                                     /\ \A k \in 1 .. Len(P[i]) : P[i + d][k] = P[i][k]}
<1>1. N \in Nat /\ \A n \in 1 .. N : s[n] \in V
  BY LenProperties
<1>2. /\ P \in [0 .. N -> Seq(V)]
      /\ \A n \in 1 .. N : P[n] = IF n \in I THEN Append(P[n - 1], s[n]) ELSE P[n - 1]
  BY PickedLoop
<1>. HIDE DEF P, N
<1>3. \A n \in 0 .. N : Len(P[n]) \in Nat
  BY <1>2, LenProperties
<1>4. N - i \in Nat /\ i \in Nat
  BY <1>1 DEF N
<1>5. 0 \in S
  <2>1. i + 0 = i /\ i \in 0 .. N
    BY <1>4 DEF N
  <2>. QED BY <1>3, <1>4, <2>1
<1>6. ASSUME NEW d \in 0 .. (N - i) - 1, d \in S PROVE d + 1 \in S
  <2>1. /\ d \in Nat /\ i + d \in 0 .. N /\ i + (d + 1) \in 1 .. N /\ (i + (d + 1)) - 1 = i + d
        /\ d + 1 \in 0 .. N - i /\ i \in 0 .. N /\ i + (d + 1) \in 0 .. N
    BY <1>1, <1>4
  <2>. DEFINE t == P[i + d]
              n == i + (d + 1)
  <2>2. P[n] = IF n \in I THEN Append(t, s[n]) ELSE t
    BY <1>2, <2>1
  <2>3. t \in Seq(V) /\ s[n] \in V /\ Len(t) \in Nat /\ Len(P[i]) \in Nat
    BY <1>1, <1>2, <1>3, <2>1
  <2>4. Len(P[i]) <= Len(t) /\ \A k \in 1 .. Len(P[i]) : t[k] = P[i][k]
    BY <1>6
  <2>. HIDE DEF t, n
  <2>5. Len(t) <= Len(P[n]) /\ \A k \in 1 .. Len(t) : P[n][k] = t[k]
    <3>1. CASE n \in I
      BY <2>2, <2>3, <3>1, AppendProperties
    <3>2. CASE n \notin I
      BY <2>2, <2>3, <3>2
    <3>. QED BY <3>1, <3>2
  <2>6. Len(P[n]) \in Nat
    BY <1>3, <2>1 DEF n
  <2>. QED BY <2>1, <2>3, <2>4, <2>5, <2>6 DEF n
<1>. HIDE DEF S
<1>7. \A d \in 0 .. N - i : d \in S
  BY <1>4, <1>5, <1>6, BoundedInduction
<1>8. ASSUME NEW n \in i .. N
      PROVE  Len(P[i]) <= Len(P[n]) /\ \A k \in 1 .. Len(P[i]) : P[n][k] = P[i][k]
  <2>1. n - i \in 0 .. N - i /\ i + (n - i) = n
    BY <1>1, <1>4
  <2>2. n - i \in S
    BY <1>7, <2>1
  <2>. QED BY <2>1, <2>2 DEF S
<1>. QED BY <1>8 DEF P, N

\* So the result after i passes is a prefix of the result after all of them.
LEMMA PickPrefix ==
  ASSUME NEW V, NEW s \in Seq(V), NEW I, NEW i \in 0 .. Len(s)
  PROVE  /\ Len(Picked(s, I)[i]) \in 0 .. Len(Pick(s, I))
         /\ Picked(s, I)[i] = SubSeq(Pick(s, I), 1, Len(Picked(s, I)[i]))
<1>. DEFINE t == Picked(s, I)[i]
            u == Pick(s, I)
<1>1. Len(s) \in Nat /\ Len(s) \in i .. Len(s)
  BY LenProperties
<1>2. t \in Seq(V) /\ u \in Seq(V)
  BY <1>1, PickedLoop DEF Pick
<1>3. Len(t) <= Len(u) /\ \A k \in 1 .. Len(t) : u[k] = t[k]
  BY <1>1, PickedGrows DEF Pick
<1>. HIDE DEF t, u
<1>4. Len(t) \in Nat /\ Len(u) \in Nat /\ t \in [1 .. Len(t) -> V] /\ u \in [1 .. Len(u) -> V]
  BY <1>2, LenProperties
<1>5. SubSeq(u, 1, Len(t)) = [k \in 1 .. Len(t) |-> u[k]]
  BY <1>3, <1>4
<1>6. t = [k \in 1 .. Len(t) |-> t[k]]
  BY <1>4
<1>7. t = SubSeq(u, 1, Len(t))
  BY <1>3, <1>5, <1>6, Zenon
<1>. QED BY <1>3, <1>4, <1>7 DEF t, u

-----------------------------------------------------------------------------
(* The positions.                                                           *)

\* m leads each position of t to the one of s it comes from: in order, and to all those in J.
Comes(t, s, J, m) ==
  /\ m \in [1 .. Len(t) -> J]
  /\ \A a, b \in 1 .. Len(t) : a < b => m[a] < m[b]
  /\ \A k \in 1 .. Len(t) : t[k] = s[m[k]]
  /\ \A j \in J : \E k \in 1 .. Len(t) : m[k] = j

LEMMA PickedPositions ==
  ASSUME NEW V, NEW s \in Seq(V), NEW I
  PROVE  \A n \in 0 .. Len(s) : \E m : Comes(Picked(s, I)[n], s, I \cap (1 .. n), m)
<1>. DEFINE P == Picked(s, I)
            N == Len(s)
            S == {n \in 0 .. N : \E m : Comes(P[n], s, I \cap (1 .. n), m)}
<1>1. N \in Nat /\ \A n \in 1 .. N : s[n] \in V
  BY LenProperties
<1>2. /\ P \in [0 .. N -> Seq(V)] /\ P[0] = <<>>
      /\ \A n \in 1 .. N : P[n] = IF n \in I THEN Append(P[n - 1], s[n]) ELSE P[n - 1]
  BY PickedLoop
<1>. HIDE DEF P, N
<1>3. 0 \in S
  <2>. DEFINE m == [k \in 1 .. 0 |-> 0]
  <2>1. P[0] = <<>> /\ Len(P[0]) = 0
    BY <1>2
  <2>2. I \cap (1 .. 0) = {}
    OBVIOUS
  <2>3. m \in [1 .. 0 -> {}]
    OBVIOUS
  <2>. HIDE DEF m
  <2>4. Comes(P[0], s, I \cap (1 .. 0), m)
    BY <2>1, <2>2, <2>3 DEF Comes
  <2>. QED BY <1>1, <2>4
<1>4. ASSUME NEW n \in 0 .. N - 1, n \in S PROVE n + 1 \in S
  <2>1. /\ n \in Nat /\ n \in 0 .. N /\ n + 1 \in 1 .. N /\ n + 1 \in 0 .. N
        /\ (n + 1) - 1 = n
    BY <1>1
  <2>. DEFINE t == P[n]
              u == P[n + 1]
              J == I \cap (1 .. n)
  <2>2. PICK m : Comes(t, s, J, m)
    BY <1>4
  <2>3. u = IF n + 1 \in I THEN Append(t, s[n + 1]) ELSE t
    BY <1>2, <2>1
  <2>4. t \in Seq(V) /\ s[n + 1] \in V
    BY <1>1, <1>2, <2>1
  <2>5. Len(t) \in Nat
    BY <2>4, LenProperties
  <2>6. CASE n + 1 \notin I
    <3>1. I \cap (1 .. n + 1) = J
      BY <2>1, <2>6
    <3>2. u = t
      BY <2>3, <2>6
    <3>. QED BY <2>1, <2>2, <3>1, <3>2
  <2>7. CASE n + 1 \in I
    <3>. DEFINE l == Len(t)
                q == [k \in 1 .. l + 1 |-> IF k = l + 1 THEN n + 1 ELSE m[k]]
    <3>1. I \cap (1 .. n + 1) = J \cup {n + 1}
      BY <2>1, <2>7
    <3>2. /\ Len(u) = l + 1 /\ u[l + 1] = s[n + 1]
          /\ \A k \in 1 .. l : u[k] = t[k]
      BY <2>3, <2>4, <2>7, AppendProperties
    <3>3. J \subseteq 1 .. n
      OBVIOUS
    <3>. HIDE DEF t, u, J
    <3>4. /\ \A k \in 1 .. l + 1 : k \in 1 .. l \/ k = l + 1
          /\ \A k \in 1 .. l : k \in 1 .. l + 1 /\ k # l + 1
          /\ l + 1 \in 1 .. l + 1
      BY <2>5
    <3>5. /\ q[l + 1] = n + 1
          /\ \A k \in 1 .. l : q[k] = m[k] /\ m[k] \in J
      BY <2>2, <3>4 DEF Comes
    <3>6. q \in [1 .. l + 1 -> J \cup {n + 1}]
      BY <2>2, <3>4 DEF Comes
    <3>. HIDE DEF q
    <3>7. ASSUME NEW a \in 1 .. l + 1, NEW b \in 1 .. l + 1, a < b
          PROVE  q[a] < q[b]
      <4>1. a \in 1 .. l
        BY <2>5, <3>7
      <4>2. CASE b \in 1 .. l
        BY <2>2, <3>5, <3>7, <4>1, <4>2 DEF Comes
      <4>3. CASE b = l + 1
        <5>1. m[a] \in 1 .. n /\ q[a] = m[a]
          BY <3>3, <3>5, <4>1
        <5>. QED BY <2>1, <3>5, <4>3, <5>1
      <4>. QED BY <3>4, <4>2, <4>3
    <3>8. \A k \in 1 .. l + 1 : u[k] = s[q[k]]
      BY <2>2, <3>2, <3>4, <3>5 DEF Comes
    <3>9. \A j \in J \cup {n + 1} : \E k \in 1 .. l + 1 : q[k] = j
      <4>1. ASSUME NEW j \in J PROVE \E k \in 1 .. l + 1 : q[k] = j
        BY <2>2, <3>4, <3>5 DEF Comes
      <4>. QED BY <3>4, <3>5, <4>1
    <3>10. Comes(u, s, J \cup {n + 1}, q)
      BY <3>2, <3>6, <3>7, <3>8, <3>9 DEF Comes
    <3>. QED BY <2>1, <3>1, <3>10 DEF u
  <2>. QED BY <2>6, <2>7
<1>. HIDE DEF S
<1>5. \A n \in 0 .. N : n \in S
  BY <1>1, <1>3, <1>4, BoundedInduction
<1>. QED BY <1>5 DEF S, P, N

\* What Pick returns comes from the positions in I, in order, each of them once.
LEMMA PickPositions ==
  ASSUME NEW V, NEW s \in Seq(V), NEW I
  PROVE  /\ Pick(s, I) \in Seq(V)
         /\ \E m : Comes(Pick(s, I), s, I \cap (1 .. Len(s)), m)
<1>1. Len(s) \in Nat /\ Len(s) \in 0 .. Len(s)
  BY LenProperties
<1>2. Pick(s, I) \in Seq(V)
  BY <1>1, PickedLoop DEF Pick
<1>3. \A n \in 0 .. Len(s) : \E m : Comes(Picked(s, I)[n], s, I \cap (1 .. n), m)
  BY PickedPositions
<1>4. \E m : Comes(Picked(s, I)[Len(s)], s, I \cap (1 .. Len(s)), m)
  BY <1>1, <1>3
<1>. QED BY <1>2, <1>4 DEF Pick

\* Every element of the result is one of s at a position in I, and each of those is there.
LEMMA PickMembers ==
  ASSUME NEW V, NEW s \in Seq(V), NEW I
  PROVE  /\ \A k \in 1 .. Len(Pick(s, I)) : \E j \in 1 .. Len(s) : j \in I /\ Pick(s, I)[k] = s[j]
         /\ \A j \in 1 .. Len(s) : j \in I => \E k \in 1 .. Len(Pick(s, I)) : Pick(s, I)[k] = s[j]
<1>1. PICK m : Comes(Pick(s, I), s, I \cap (1 .. Len(s)), m)
  BY PickPositions
<1>. QED BY <1>1 DEF Comes

LEMMA PickStays ==
  ASSUME NEW V, NEW s \in Seq(V), NEW I, NEW j \in 1 .. Len(s), j \in I
  PROVE  \E k \in 1 .. Len(Pick(s, I)) : Pick(s, I)[k] = s[j]
<1>1. PICK m : Comes(Pick(s, I), s, I \cap (1 .. Len(s)), m)
  BY PickPositions
<1>. QED BY <1>1 DEF Comes

\* Nothing is lost if every position is kept.
LEMMA PickAll ==
  ASSUME NEW V, NEW s \in Seq(V), NEW I, 1 .. Len(s) \subseteq I
  PROVE  Pick(s, I) = s
<1>. DEFINE P == Picked(s, I)
            N == Len(s)
            S == {n \in 0 .. N : Len(P[n]) = n /\ \A k \in 1 .. n : P[n][k] = s[k]}
<1>1. N \in Nat /\ \A n \in 1 .. N : s[n] \in V /\ n \in I
  BY LenProperties
<1>2. /\ P \in [0 .. N -> Seq(V)] /\ P[0] = <<>>
      /\ \A n \in 1 .. N : P[n] = IF n \in I THEN Append(P[n - 1], s[n]) ELSE P[n - 1]
  BY PickedLoop
<1>. HIDE DEF P, N
<1>3. 0 \in S
  BY <1>1, <1>2
<1>4. ASSUME NEW n \in 0 .. N - 1, n \in S PROVE n + 1 \in S
  <2>1. /\ n \in Nat /\ n \in 0 .. N /\ n + 1 \in 1 .. N /\ n + 1 \in 0 .. N
        /\ (n + 1) - 1 = n
    BY <1>1
  <2>. DEFINE t == P[n]
              u == P[n + 1]
  <2>2. u = Append(t, s[n + 1]) /\ t \in Seq(V) /\ s[n + 1] \in V
    BY <1>1, <1>2, <2>1
  <2>3. Len(t) = n /\ \A k \in 1 .. n : t[k] = s[k]
    BY <1>4
  <2>. HIDE DEF t, u
  <2>4. Len(u) = n + 1 /\ u[n + 1] = s[n + 1] /\ \A k \in 1 .. n : u[k] = t[k]
    BY <2>2, <2>3, AppendProperties
  <2>5. \A k \in 1 .. n + 1 : k \in 1 .. n \/ k = n + 1
    BY <2>1
  <2>6. \A k \in 1 .. n + 1 : u[k] = s[k]
    BY <2>3, <2>4, <2>5
  <2>. QED BY <2>1, <2>4, <2>6 DEF u
<1>. HIDE DEF S
<1>5. \A n \in 0 .. N : n \in S
  BY <1>1, <1>3, <1>4, BoundedInduction
<1>6. N \in 0 .. N /\ N \in S
  BY <1>1, <1>5
<1>7. P[N] \in Seq(V) /\ Len(P[N]) = N /\ \A k \in 1 .. N : P[N][k] = s[k]
  BY <1>2, <1>6 DEF S
<1>. QED BY <1>7, SeqEqual DEF P, N, Pick

\* A sequence without the positions that are kept leaves nothing.
LEMMA PickNone ==
  ASSUME NEW V, NEW s \in Seq(V), NEW I, I \cap (1 .. Len(s)) = {}
  PROVE  Pick(s, I) = <<>>
<1>1. PICK m : Comes(Pick(s, I), s, {}, m)
  BY PickPositions
<1>2. Pick(s, I) \in Seq(V)
  BY PickPositions
<1>3. Len(Pick(s, I)) \in Nat /\ 1 \notin 1 .. Len(Pick(s, I))
  BY <1>1, <1>2, LenProperties DEF Comes
<1>4. Len(Pick(s, I)) = 0
  BY <1>3
<1>. QED BY <1>2, <1>4, EmptySeq

\* Picking keeps any relation that holds of the elements of s in their order, and brings
\* no two of them further apart.
LEMMA PickOrdered ==
  ASSUME NEW V, NEW s \in Seq(V), NEW I, NEW R,
         \A a, b \in 1 .. Len(s) : a < b => <<s[a], s[b]>> \in R
  PROVE  \A a, b \in 1 .. Len(Pick(s, I)) : a < b => <<Pick(s, I)[a], Pick(s, I)[b]>> \in R
<1>. DEFINE t == Pick(s, I)
<1>1. PICK m : Comes(t, s, I \cap (1 .. Len(s)), m)
  BY PickPositions
<1>. HIDE DEF t
<1>2. ASSUME NEW a \in 1 .. Len(t), NEW b \in 1 .. Len(t), a < b PROVE <<t[a], t[b]>> \in R
  <2>1. m[a] \in 1 .. Len(s) /\ m[b] \in 1 .. Len(s) /\ m[a] < m[b]
    BY <1>1, <1>2 DEF Comes
  <2>2. t[a] = s[m[a]] /\ t[b] = s[m[b]]
    BY <1>1 DEF Comes
  <2>3. <<s[m[a]], s[m[b]]>> \in R
    BY <2>1
  <2>. QED BY <2>2, <2>3, Zenon
<1>. QED BY <1>2 DEF t

LEMMA ApartByPositions ==
  ASSUME NEW n \in Nat, NEW m \in [1 .. n -> Nat],
         \A a, b \in 1 .. n : a < b => m[a] < m[b]
  PROVE  \A a, b \in 1 .. n : a < b => b - a <= m[b] - m[a]
<1>. DEFINE S == {d \in Nat : \A a \in 1 .. n : a + d \in 1 .. n => d <= m[a + d] - m[a]}
<1>1. 0 \in S
  <2>1. \A a \in 1 .. n : a + 0 = a /\ m[a] \in Nat
    OBVIOUS
  <2>. QED BY <2>1
<1>2. ASSUME NEW d \in Nat, d \in S PROVE d + 1 \in S
  <2>. SUFFICES ASSUME NEW a \in 1 .. n, a + (d + 1) \in 1 .. n
               PROVE  d + 1 <= m[a + (d + 1)] - m[a]
    OBVIOUS
  <2>1. a + d \in 1 .. n /\ a + d < a + (d + 1)
    OBVIOUS
  <2>2. d <= m[a + d] - m[a]
    BY <1>2, <2>1
  <2>3. m[a + d] < m[a + (d + 1)]
    BY <2>1
  <2>4. m[a] \in Nat /\ m[a + d] \in Nat /\ m[a + (d + 1)] \in Nat
    BY <2>1
  <2>. QED BY <2>2, <2>3, <2>4
<1>. HIDE DEF S
<1>3. \A d \in Nat : d \in S
  BY <1>1, <1>2, SetInduction
<1>4. ASSUME NEW a \in 1 .. n, NEW b \in 1 .. n, a < b
      PROVE  b - a <= m[b] - m[a]
  <2>1. b - a \in Nat /\ a + (b - a) = b
    BY <1>4
  <2>. QED BY <1>3, <2>1 DEF S
<1>. QED BY <1>4
=============================================================================
