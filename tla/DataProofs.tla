----------------------------- MODULE DataProofs -----------------------------
(***************************************************************************)
(* Proofs about DataService, for any catalogue, filter, query and limit.   *)
(***************************************************************************)
EXTENDS DataService, SubsequenceProofs

(***************************************************************************)
(* The loop invariants.  What is put together so far passes, and what was  *)
(* passed over does not; a lookup holds no more than its limit, and only a *)
(* limit that is reached leaves products out.                              *)
(***************************************************************************)
SearchExact ==
  asked \in Filter =>
    /\ \A k \in 1 .. Len(out) : Passes(out[k], asked)
    /\ \A k \in 1 .. i : Passes(products[k], asked) => \E n \in 1 .. Len(out) : out[n] = products[k]

LookupExact ==
  asked \in Query =>
    /\ Limited(asked) => Len(out) <= asked.limit
    /\ \A k \in 1 .. Len(out) : Contains(out[k], asked)
    /\ \/ Limited(asked) /\ Len(out) = asked.limit
       \/ \A k \in 1 .. i : Contains(products[k], asked) =>
            \E n \in 1 .. Len(out) : out[n] = products[k]

DInv == TypeOK /\ SearchExact /\ LookupExact

\* The catalogue is a sequence of products.
LEMMA Catalogue ==
  ASSUME TypeOK
  PROVE  /\ products \in Seq(Product) /\ Len(products) \in Nat
         /\ \A k \in 1 .. Len(products) : products[k] \in Product
  BY DataAssumption DEF TypeOK

LEMMA Distinct == Filter \cap Query = {}
<1>. SUFFICES ASSUME NEW r \in Filter, r \in Query PROVE FALSE
  OBVIOUS
<1>1. DOMAIN r = {"category", "max"}
  BY DEF Filter
<1>2. DOMAIN r = {"query", "limit"}
  BY DEF Query
<1>. QED BY <1>1, <1>2

\* One pass of either loop: the product is put at the end of the result, or not.
LEMMA Extend ==
  ASSUME NEW s \in Seq(Product), NEW p \in Product
  PROVE  /\ Append(s, p) \in Seq(Product)
         /\ Len(Append(s, p)) = Len(s) + 1
         /\ \A k \in 1 .. Len(s) : Append(s, p)[k] = s[k]
         /\ Append(s, p)[Len(s) + 1] = p
  BY AppendProperties

LEMMA Prefix ==
  ASSUME NEW s \in Seq(Product), NEW n \in Int, n > 0, n < Len(s)
  PROVE  /\ SubSeq(s, 1, n) \in Seq(Product)
         /\ Len(SubSeq(s, 1, n)) = n
         /\ \A k \in 1 .. n : SubSeq(s, 1, n)[k] = s[k]
<1>1. Len(s) \in Nat /\ \A k \in 1 .. n : s[k] \in Product
  BY LenProperties
<1>2. SubSeq(s, 1, n) = [k \in 1 .. n |-> s[k]]
  BY <1>1
<1>. QED BY <1>1, <1>2

LEMMA QueryLimit ==
  ASSUME NEW q \in Query
  PROVE  q.limit \in Int
  BY DataAssumption DEF Query

LEMMA Initially ==
  ASSUME Init
  PROVE  DInv
  BY DataAssumption DEF Init, DInv, TypeOK, SearchExact, LookupExact, Filter, Query

LEMMA TypeStep ==
  ASSUME DInv, [Next]_vars
  PROVE  TypeOK'
<1>. USE DataAssumption DEF DInv, TypeOK, store
<1>1. CASE BadBody \/ ListAll
  BY <1>1 DEF BadBody, ListAll, Answer
<1>2. ASSUME NEW uid \in Owners \cup {Nothing}, ListMine(uid) PROVE TypeOK'
  BY <1>2 DEF ListMine, Answer
<1>3. ASSUME NEW f \in Filter, Begin("search", f) PROVE TypeOK'
  BY <1>3, Catalogue DEF Begin
<1>4. CASE SearchStep
  BY <1>4, Catalogue, Extend DEF SearchStep
<1>5. CASE SearchEnd
  BY <1>5 DEF SearchEnd, Answer
<1>6. ASSUME NEW q \in Query, LookupAll(q) PROVE TypeOK'
  <2>1. ASSUME Limited(q), q.limit < Len(products)
        PROVE  SubSeq(products, 1, q.limit) \in Seq(Product)
    <3>1. q.limit \in Int /\ q.limit > 0
      BY <2>1, QueryLimit DEF Limited
    <3>2. products \in Seq(Product)
      BY Catalogue
    <3>. QED BY <2>1, <3>1, <3>2, Prefix
  <2>. QED BY <1>6, <2>1, Catalogue DEF LookupAll, Answer
<1>7. ASSUME NEW q \in Query, q.query # Empty, Begin("lookup", q) PROVE TypeOK'
  BY <1>7, Catalogue DEF Begin, Query
<1>8. CASE LookupStep
  BY <1>8, Catalogue, Extend DEF LookupStep
<1>9. CASE LookupEnd
  BY <1>9 DEF LookupEnd, Answer
<1>10. CASE UNCHANGED vars
  BY <1>10 DEF vars
<1>. QED
  BY <1>1, <1>2, <1>3, <1>4, <1>5, <1>6, <1>7, <1>8, <1>9, <1>10 DEF Next

\* What a pass of the loop does to soundness and completeness, whatever it looks for.
LEMMA Pass ==
  ASSUME TypeOK, asked # Nothing, i < Len(products), i' = i + 1, products' = products,
         NEW S \in SUBSET Product,
         out' = IF products[i + 1] \in S THEN Append(out, products[i + 1]) ELSE out,
         \A k \in 1 .. Len(out) : out[k] \in S
  PROVE  /\ \A k \in 1 .. Len(out') : out'[k] \in S
         /\ (\A k \in 1 .. i : products[k] \in S => \E n \in 1 .. Len(out) : out[n] = products[k])
              => \A k \in 1 .. i' : products[k] \in S =>
                   \E n \in 1 .. Len(out') : out'[n] = products[k]
         /\ Len(out') \in {Len(out), Len(out) + 1}
<1>1. i \in Nat /\ out \in Seq(Product) /\ products[i + 1] \in Product /\ Len(out) \in Nat
  BY Catalogue, LenProperties DEF TypeOK
<1>2. CASE products[i + 1] \notin S
  <2>1. out' = out
    BY <1>2
  <2>2. \A k \in 1 .. i' : k \in 1 .. i \/ k = i + 1
    BY <1>1
  <2>. QED BY <1>2, <2>1, <2>2
<1>3. CASE products[i + 1] \in S
  <2>. DEFINE p == products[i + 1]
  <2>1. out' = Append(out, p)
    BY <1>3
  <2>2. /\ Len(out') = Len(out) + 1
        /\ \A k \in 1 .. Len(out) : out'[k] = out[k]
        /\ out'[Len(out) + 1] = p
    BY <1>1, <2>1, Extend
  <2>3. \A k \in 1 .. Len(out') : k \in 1 .. Len(out) \/ k = Len(out) + 1
    BY <1>1, <2>2
  <2>4. /\ \A k \in 1 .. Len(out) : k \in 1 .. Len(out')
        /\ Len(out) + 1 \in 1 .. Len(out')
    BY <1>1, <2>2
  <2>5. \A k \in 1 .. i' : k \in 1 .. i \/ k = i + 1
    BY <1>1
  <2>. HIDE DEF p
  <2>6. \A k \in 1 .. Len(out') : out'[k] \in S
    BY <1>3, <2>2, <2>3 DEF p
  <2>7. ASSUME \A k \in 1 .. i : products[k] \in S =>
                 \E n \in 1 .. Len(out) : out[n] = products[k],
               NEW k \in 1 .. i', products[k] \in S
        PROVE  \E n \in 1 .. Len(out') : out'[n] = products[k]
    <3>1. CASE k \in 1 .. i
      BY <2>2, <2>4, <2>7, <3>1
    <3>2. CASE k = i + 1
      BY <2>2, <2>4, <3>2 DEF p
    <3>. QED BY <2>5, <2>7, <3>1, <3>2
  <2>. QED BY <2>2, <2>6, <2>7
<1>. QED BY <1>2, <1>3

LEMMA SearchExactStep ==
  ASSUME DInv, [Next]_vars
  PROVE  SearchExact'
<1>. USE DEF store
<1>1. TypeOK /\ SearchExact /\ TypeOK'
  BY TypeStep DEF DInv
<1>2. CASE SearchStep
  <2>. DEFINE S == {p \in Product : Passes(p, asked)}
  <2>1. /\ asked \in Filter /\ asked # Nothing /\ i \in Nat /\ i < Len(products)
        /\ products' = products /\ asked' = asked /\ i' = i + 1
    BY <1>1, <1>2, Catalogue, DataAssumption DEF SearchStep, TypeOK
  <2>2. products[i + 1] \in Product
    BY <1>1, <2>1, Catalogue
  <2>3. out' = IF products[i + 1] \in S THEN Append(out, products[i + 1]) ELSE out
    BY <1>2, <2>2 DEF SearchStep
  <2>4. /\ \A k \in 1 .. Len(out) : out[k] \in Product
        /\ \A k \in 1 .. i + 1 : products[k] \in Product
        /\ out' \in Seq(Product)
        /\ \A k \in 1 .. Len(out') : out'[k] \in Product
    BY <1>1, <2>1, Catalogue DEF TypeOK
  <2>5. /\ \A k \in 1 .. Len(out) : out[k] \in S
        /\ \A k \in 1 .. i : products[k] \in S => \E n \in 1 .. Len(out) : out[n] = products[k]
    BY <1>1, <2>1, <2>4 DEF SearchExact
  <2>6. S \in SUBSET Product
    OBVIOUS
  <2>. HIDE DEF S
  <2>7. /\ \A k \in 1 .. Len(out') : out'[k] \in S
        /\ \A k \in 1 .. i' : products[k] \in S => \E n \in 1 .. Len(out') : out'[n] = products[k]
    BY <1>1, <2>1, <2>3, <2>5, <2>6, Pass
  <2>. QED BY <2>1, <2>4, <2>7 DEF S, SearchExact, Passes
<1>3. CASE SearchEnd \/ LookupEnd \/ UNCHANGED vars \/ BadBody \/ ListAll
  <2>1. /\ products' = products /\ asked' = asked /\ i' = i
        /\ out' = out \/ asked' = Nothing
    BY <1>1, <1>3 DEF SearchEnd, LookupEnd, BadBody, ListAll, vars, Answer, TypeOK
  <2>. QED BY <1>1, <2>1, DataAssumption DEF SearchExact, Passes
<1>4. CASE \E uid \in Owners \cup {Nothing} : ListMine(uid)
  <2>1. asked' = Nothing
    BY <1>1, <1>4 DEF ListMine, TypeOK
  <2>. QED BY <2>1, DataAssumption DEF SearchExact
<1>5. CASE \E f \in Filter : Begin("search", f)
  BY <1>5 DEF Begin, SearchExact
<1>6. CASE LookupStep \/ \E q \in Query : LookupAll(q) \/ (q.query # Empty /\ Begin("lookup", q))
  <2>1. asked' \in Query
    BY <1>1, <1>6 DEF LookupStep, LookupAll, Begin, TypeOK
  <2>. QED BY <2>1, Distinct DEF SearchExact
<1>. QED BY <1>2, <1>3, <1>4, <1>5, <1>6 DEF Next

LEMMA LookupExactStep ==
  ASSUME DInv, [Next]_vars
  PROVE  LookupExact'
<1>. USE DEF store
<1>1. TypeOK /\ LookupExact /\ TypeOK'
  BY TypeStep DEF DInv
<1>2. CASE LookupStep
  <2>. DEFINE S == {p \in Product : Contains(p, asked)}
  <2>1. /\ asked \in Query /\ asked.query \in Strings /\ asked # Nothing
        /\ i \in Nat /\ i < Len(products)
        /\ products' = products /\ asked' = asked /\ i' = i + 1
    BY <1>1, <1>2, Catalogue, DataAssumption DEF LookupStep, TypeOK
  <2>2. products[i + 1] \in Product /\ lowerNames[i + 1] = products[i + 1].name
    BY <1>1, <2>1, Catalogue DEF TypeOK
  <2>3. out' = IF products[i + 1] \in S THEN Append(out, products[i + 1]) ELSE out
    BY <1>2, <2>1, <2>2, DataAssumption DEF LookupStep, Contains
  <2>4. /\ \A k \in 1 .. Len(out) : out[k] \in Product
        /\ \A k \in 1 .. i + 1 : products[k] \in Product
        /\ out' \in Seq(Product)
        /\ \A k \in 1 .. Len(out') : out'[k] \in Product
        /\ Len(out) \in Nat
    BY <1>1, <2>1, Catalogue DEF TypeOK
  <2>5. asked.limit \in Int /\ ~ (Limited(asked) /\ Len(out) = asked.limit)
        /\ (Limited(asked) => Len(out) < asked.limit)
    BY <1>2, <2>1, <2>4, QueryLimit DEF LookupStep, LimitReached
  <2>6. /\ \A k \in 1 .. Len(out) : out[k] \in S
        /\ \A k \in 1 .. i : products[k] \in S => \E n \in 1 .. Len(out) : out[n] = products[k]
    BY <1>1, <2>1, <2>4, <2>5 DEF LookupExact
  <2>7. S \in SUBSET Product
    OBVIOUS
  <2>. HIDE DEF S
  <2>8. /\ \A k \in 1 .. Len(out') : out'[k] \in S
        /\ \A k \in 1 .. i' : products[k] \in S => \E n \in 1 .. Len(out') : out'[n] = products[k]
        /\ Len(out') \in {Len(out), Len(out) + 1}
    BY <1>1, <2>1, <2>3, <2>6, <2>7, Pass
  <2>9. Limited(asked) => Len(out') <= asked.limit
    BY <2>4, <2>5, <2>8
  <2>. QED BY <2>1, <2>4, <2>8, <2>9 DEF S, LookupExact, Contains, Limited
<1>3. CASE SearchEnd \/ LookupEnd \/ UNCHANGED vars \/ BadBody \/ ListAll
  <2>1. /\ products' = products /\ asked' = asked /\ i' = i
        /\ out' = out \/ asked' = Nothing
    BY <1>1, <1>3 DEF SearchEnd, LookupEnd, BadBody, ListAll, vars, Answer, TypeOK
  <2>. QED BY <1>1, <2>1, DataAssumption DEF LookupExact, Contains, Limited
<1>4. CASE \E uid \in Owners \cup {Nothing} : ListMine(uid)
  <2>1. asked' = Nothing
    BY <1>1, <1>4 DEF ListMine, TypeOK
  <2>. QED BY <2>1, DataAssumption DEF LookupExact
<1>5. CASE SearchStep \/ \E f \in Filter : Begin("search", f)
  <2>1. asked' \in Filter
    BY <1>1, <1>5 DEF SearchStep, Begin, TypeOK
  <2>. QED BY <2>1, Distinct DEF LookupExact
<1>6. ASSUME NEW q \in Query, Begin("lookup", q) PROVE LookupExact'
  <2>1. asked' = q /\ out' = <<>> /\ i' = 0
    BY <1>6 DEF Begin
  <2>2. q.limit \in Int
    BY QueryLimit
  <2>. QED BY <2>1, <2>2 DEF LookupExact, Limited
<1>7. ASSUME NEW q \in Query, LookupAll(q) PROVE LookupExact'
  <2>1. /\ asked' = q /\ products' = products /\ i' = Len(products) /\ q.query = Empty
        /\ out' = IF Limited(q) /\ q.limit < Len(products)
                  THEN SubSeq(products, 1, q.limit) ELSE products
    BY <1>7 DEF LookupAll, Answer
  <2>2. q.limit \in Int /\ products \in Seq(Product) /\ Len(products) \in Nat
    BY <1>1, QueryLimit, Catalogue
  <2>3. ASSUME Limited(q), q.limit < Len(products)
        PROVE  Len(out') = q.limit
    <3>1. q.limit > 0
      BY <2>3 DEF Limited
    <3>. QED BY <2>1, <2>2, <2>3, <3>1, Prefix
  <2>4. CASE Limited(q) /\ q.limit < Len(products)
    BY <2>1, <2>2, <2>3, <2>4 DEF LookupExact, Limited, Contains
  <2>5. CASE ~ (Limited(q) /\ q.limit < Len(products))
    <3>1. out' = products
      BY <2>1, <2>5
    <3>. QED BY <2>1, <2>2, <2>5, <3>1 DEF LookupExact, Limited, Contains
  <2>. QED BY <2>4, <2>5
<1>. QED BY <1>2, <1>3, <1>4, <1>5, <1>6, <1>7 DEF Next

LEMMA Inductive ==
  ASSUME DInv, [Next]_vars
  PROVE  DInv'
  BY TypeStep, SearchExactStep, LookupExactStep DEF DInv

LEMMA Invariance == Spec => []DInv
  BY Initially, Inductive, PTL DEF Spec

-----------------------------------------------------------------------------
(* The exact answers: what the loops have put together so far is what Pick *)
(* would have, had the catalogue ended there.                              *)

\* The positions that a search, or a lookup, looks for.
Searched == {k \in DOMAIN products :
  /\ asked.category \in {Nothing, products[k].category}
  /\ asked.max = Nothing \/ ~ (products[k].price > asked.max)}

LookedUp == {k \in DOMAIN products :
  asked.query = Empty \/ products[k].name \in Found[asked.query]}

LoopInv ==
  /\ pc = "search" => out = Picked(products, Searched)[i]
  /\ pc = "lookup" => out = Picked(products, LookedUp)[i]
  /\ SearchIsSelection /\ LookupIsPrefix

\* One more pass of the loop, for any set of positions.
LEMMA PickedNext ==
  ASSUME TypeOK, i < Len(products), NEW I
  PROVE  /\ i \in Nat /\ i + 1 \in DOMAIN products
         /\ Picked(products, I)[i + 1] = IF i + 1 \in I
                                        THEN Append(Picked(products, I)[i], products[i + 1])
                                        ELSE Picked(products, I)[i]
<1>1. /\ products \in Seq(Product) /\ i \in Nat
      /\ DOMAIN products = 1 .. Len(products) /\ Len(products) \in Nat
  BY Catalogue, LenProperties DEF TypeOK
<1>2. i + 1 \in 1 .. Len(products) /\ (i + 1) - 1 = i
  BY <1>1
<1>3. Picked(products, I)[i + 1] = IF i + 1 \in I
        THEN Append(Picked(products, I)[(i + 1) - 1], products[i + 1])
        ELSE Picked(products, I)[(i + 1) - 1]
  BY <1>1, <1>2, PickedLoop
<1>. QED BY <1>1, <1>2, <1>3

\* The first n elements of a sequence, when n is in its range, or beyond.
LEMMA FirstProperties ==
  ASSUME NEW s \in Seq(Product), NEW n \in Int
  PROVE  /\ n <= Len(s) => First(s, n) = SubSeq(s, 1, n)
         /\ n >= Len(s) => First(s, n) = s
<1>. DEFINE m == IF n < Len(s) THEN n ELSE Len(s)
<1>1. Len(s) \in Nat /\ SubSeq(s, 1, Len(s)) = s
  BY LenProperties, SubSeqFull
<1>2. /\ n <= Len(s) => m = n
      /\ n >= Len(s) => m = Len(s)
  <2>. DEFINE l == Len(s)
  <2>1. l \in Nat
    BY <1>1
  <2>. HIDE DEF l
  <2>2. /\ n <= l => (IF n < l THEN n ELSE l) = n
        /\ n >= l => (IF n < l THEN n ELSE l) = l
    BY <2>1
  <2>. QED BY <2>2 DEF l
<1>3. First(s, n) = SubSeq(s, 1, m)
  BY Zenon DEF First
<1>. HIDE DEF m
<1>. QED BY <1>1, <1>2, <1>3, Zenon

LEMMA SearchLoop ==
  ASSUME DInv, LoopInv, SearchStep
  PROVE  LoopInv'
<1>. USE DEF store
<1>1. /\ TypeOK /\ i < Len(products) /\ asked \in Filter
      /\ products' = products /\ asked' = asked /\ i' = i + 1
      /\ pc = "search" /\ pc' = "search"
  BY DEF SearchStep, DInv, TypeOK
<1>2. i + 1 \in DOMAIN products
  BY <1>1, PickedNext
<1>3. products[i + 1] \in Product
  BY <1>1, Catalogue DEF TypeOK
<1>4. i + 1 \in Searched <=> Passes(products[i + 1], asked)
  <2>. DEFINE p == products[i + 1]
  <2>1. p.price \in Int /\ p.category # Nothing
    BY <1>3, DataAssumption DEF Product
  <2>2. asked.max \in Int \/ asked.max = Nothing
    BY <1>1, DataAssumption DEF Filter
  <2>3. i + 1 \in Searched <=>
          /\ asked.category \in {Nothing, p.category}
          /\ asked.max = Nothing \/ ~ (p.price > asked.max)
    BY <1>2 DEF Searched
  <2>. HIDE DEF p
  <2>4. asked.max = Nothing \/ ~ (p.price > asked.max) <=> (asked.max # Nothing => p.price <= asked.max)
    BY <2>1, <2>2
  <2>. QED BY <2>1, <2>3, <2>4 DEF p, Passes
<1>5. out = Picked(products, Searched)[i]
  BY <1>1 DEF LoopInv
<1>6. out' = Picked(products, Searched)[i + 1]
  BY <1>1, <1>4, <1>5, PickedNext DEF SearchStep
<1>7. Searched' = Searched
  BY <1>1 DEF Searched
<1>. QED BY <1>1, <1>6, <1>7 DEF LoopInv, SearchIsSelection, LookupIsPrefix

LEMMA LookupLoop ==
  ASSUME DInv, LoopInv, LookupStep
  PROVE  LoopInv'
<1>. USE DEF store
<1>1. /\ TypeOK /\ i < Len(products) /\ asked \in Query /\ asked.query \in Strings
      /\ products' = products /\ asked' = asked /\ i' = i + 1
      /\ pc = "lookup" /\ pc' = "lookup"
  BY DEF LookupStep, DInv, TypeOK
<1>2. i + 1 \in DOMAIN products
  BY <1>1, PickedNext
<1>3. lowerNames[i + 1] = products[i + 1].name
  BY <1>1, <1>2 DEF TypeOK
<1>4. i + 1 \in LookedUp <=> lowerNames[i + 1] \in Found[asked.query]
  BY <1>1, <1>2, <1>3, DataAssumption DEF LookedUp
<1>5. out = Picked(products, LookedUp)[i]
  BY <1>1 DEF LoopInv
<1>6. out' = Picked(products, LookedUp)[i + 1]
  BY <1>1, <1>4, <1>5, PickedNext DEF LookupStep
<1>7. LookedUp' = LookedUp
  BY <1>1 DEF LookedUp
<1>. QED BY <1>1, <1>6, <1>7 DEF LoopInv, SearchIsSelection, LookupIsPrefix

LEMMA LookupFinal ==
  ASSUME DInv, LoopInv, LookupEnd
  PROVE  LookupIsPrefix'
<1>. USE DEF store
<1>. DEFINE all == Pick(products, LookedUp)
<1>1. /\ TypeOK /\ LookupExact /\ asked \in Query /\ asked.query \in Strings
      /\ products' = products /\ asked' = asked /\ out' = out
      /\ pc = "lookup" /\ out = Picked(products, LookedUp)[i]
      /\ i = Len(products) \/ LimitReached
  BY DEF LookupEnd, Answer, DInv, LoopInv, TypeOK
<1>2. /\ i \in 0 .. Len(products) /\ products \in Seq(Product) /\ asked.limit \in Int
      /\ Len(products) \in Nat
  BY <1>1, Catalogue, QueryLimit DEF TypeOK
<1>3. all \in Seq(Product)
  BY <1>2, PickPositions
<1>4. Len(all) \in Nat
  BY <1>3, LenProperties
<1>5. Len(out) \in 0 .. Len(all) /\ out = SubSeq(all, 1, Len(out))
  BY <1>1, <1>2, PickPrefix
<1>6. i = Len(products) => out = all
  BY <1>1 DEF Pick
<1>. HIDE DEF all
<1>7. CASE asked.limit > 0
  <2>1. Len(out) <= asked.limit
    BY <1>1, <1>7 DEF LookupExact, Limited
  <2>2. ASSUME LimitReached PROVE out = First(all, asked.limit)
    <3>1. Len(out) = asked.limit
      BY <1>2, <1>4, <1>5, <2>1, <2>2 DEF LimitReached
    <3>2. asked.limit \in Int /\ asked.limit <= Len(all)
      BY <1>2, <1>4, <1>5, <3>1
    <3>3. First(all, asked.limit) = SubSeq(all, 1, asked.limit)
      BY <1>3, <3>2, FirstProperties
    <3>. QED BY <1>5, <3>1, <3>3, Zenon
  <2>3. ASSUME i = Len(products) PROVE out = First(all, asked.limit)
    BY <1>2, <1>3, <1>4, <1>6, <2>1, <2>3, FirstProperties
  <2>4. out = First(all, asked.limit)
    BY <1>1, <2>2, <2>3
  <2>. QED BY <1>1, <1>7, <2>4 DEF LookupIsPrefix, LookedUp, all
<1>8. CASE ~ (asked.limit > 0)
  <2>1. out = all
    BY <1>1, <1>6, <1>8 DEF LimitReached, Limited
  <2>. QED BY <1>1, <1>8, <2>1 DEF LookupIsPrefix, LookedUp, all
<1>. QED BY <1>7, <1>8

LEMMA LookupAtOnce ==
  ASSUME DInv, NEW q \in Query, LookupAll(q)
  PROVE  LookupIsPrefix'
<1>. USE DEF store
<1>1. /\ TypeOK /\ asked' = q /\ products' = products /\ q.query = Empty
      /\ out' = IF Limited(q) /\ q.limit < Len(products)
                THEN SubSeq(products, 1, q.limit) ELSE products
  BY DEF DInv, LookupAll, Answer
<1>2. q.limit \in Int /\ products \in Seq(Product) /\ Len(products) \in Nat
  BY <1>1, QueryLimit, Catalogue
<1>3. 1 .. Len(products) \subseteq LookedUp'
  BY <1>1, <1>2, LenProperties DEF LookedUp
<1>4. Pick(products, LookedUp') = products
  BY <1>2, <1>3, PickAll
<1>5. out' = IF q.limit > 0 THEN First(products, q.limit) ELSE products
  <2>1. CASE q.limit > 0 /\ q.limit < Len(products)
    <3>1. First(products, q.limit) = SubSeq(products, 1, q.limit)
      BY <1>2, <2>1, FirstProperties
    <3>2. out' = SubSeq(products, 1, q.limit)
      BY <1>1, <2>1, Zenon DEF Limited
    <3>. QED BY <2>1, <3>1, <3>2, Zenon
  <2>2. CASE q.limit > 0 /\ ~ (q.limit < Len(products))
    BY <1>1, <1>2, <2>2, FirstProperties DEF Limited
  <2>3. CASE ~ (q.limit > 0)
    BY <1>1, <1>2, <2>3 DEF Limited
  <2>. QED BY <2>1, <2>2, <2>3
<1>. QED BY <1>1, <1>4, <1>5 DEF LookupIsPrefix, LookedUp

LEMMA LoopStep ==
  ASSUME DInv, LoopInv, [Next]_vars
  PROVE  LoopInv'
<1>. USE DEF store
<1>1. CASE SearchStep
  BY <1>1, SearchLoop
<1>2. CASE LookupStep
  BY <1>2, LookupLoop
<1>3. CASE SearchEnd
  <2>1. /\ asked \in Filter /\ products' = products /\ asked' = asked /\ out' = out
        /\ pc = "search" /\ pc' = "done" /\ i = Len(products)
    BY <1>3 DEF SearchEnd, Answer, DInv, TypeOK
  <2>2. out' = Pick(products, Searched)
    BY <2>1 DEF LoopInv, Pick
  <2>3. asked' \notin Query
    BY <2>1, Distinct
  <2>. QED BY <2>1, <2>2, <2>3 DEF LoopInv, SearchIsSelection, LookupIsPrefix, Searched
<1>4. CASE LookupEnd
  <2>1. asked' \in Query /\ pc' = "done"
    BY <1>4 DEF LookupEnd, Answer, DInv, TypeOK
  <2>2. asked' \notin Filter
    BY <2>1, Distinct
  <2>. QED BY <1>4, <2>1, <2>2, LookupFinal DEF LoopInv, SearchIsSelection
<1>5. ASSUME NEW q \in Query, LookupAll(q) PROVE LoopInv'
  <2>1. asked' \in Query /\ pc' = "done"
    BY <1>5 DEF LookupAll, Answer
  <2>2. asked' \notin Filter
    BY <2>1, Distinct
  <2>. QED BY <1>5, <2>1, <2>2, LookupAtOnce DEF LoopInv, SearchIsSelection
<1>6. ASSUME NEW loop \in {"search", "lookup"}, NEW request, Begin(loop, request)
      PROVE  LoopInv'
  <2>1. /\ i' = 0 /\ out' = <<>> /\ pc' = loop /\ products' = products
    BY <1>6 DEF Begin
  <2>2. \A I : Picked(products, I)[0] = <<>>
    BY Catalogue, PickedLoop DEF DInv
  <2>. QED BY <2>1, <2>2 DEF LoopInv, SearchIsSelection, LookupIsPrefix
<1>7. CASE BadBody \/ ListAll \/ \E uid \in Owners \cup {Nothing} : ListMine(uid)
  <2>1. asked' = Nothing /\ pc' = "done"
    BY <1>7 DEF BadBody, ListAll, ListMine, Answer, DInv, TypeOK
  <2>. QED BY <2>1, DataAssumption DEF LoopInv, SearchIsSelection, LookupIsPrefix
<1>8. CASE UNCHANGED vars
  BY <1>8 DEF vars, LoopInv, SearchIsSelection, LookupIsPrefix, Searched, LookedUp
<1>. QED BY <1>1, <1>2, <1>3, <1>4, <1>5, <1>6, <1>7, <1>8 DEF Next

LEMMA LoopsRight == Spec => [](DInv /\ LoopInv)
<1>1. Init => LoopInv
  BY DEF Init, LoopInv, SearchIsSelection, LookupIsPrefix
<1>. QED BY Initially, Inductive, LoopStep, <1>1, PTL DEF Spec

-----------------------------------------------------------------------------

\* The loop index stays within the catalogue, and nothing but products is ever answered.
THEOREM DataTypeCorrect == Spec => []TypeOK
  BY Invariance, PTL DEF DInv

\* Search answers with the subsequence of the catalogue that passes the filter: each
\* product as often as it is there, and in that order.
THEOREM SearchSelects == Spec => []SearchIsSelection
  BY LoopsRight, PTL DEF LoopInv

\* Lookup answers with the first limit products that contain the query, in the order of
\* the catalogue, though it leaves the loop as soon as it has them; with all of them where
\* the limit is none.
THEOREM LookupIsFirst == Spec => []LookupIsPrefix
  BY LoopsRight, PTL DEF LoopInv
=============================================================================
