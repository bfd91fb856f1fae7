---------------------------- MODULE DataService -----------------------------
(***************************************************************************)
(* data-service: a request to the immutable catalogue.  Search and Lookup  *)
(* are the loops of products.Store, one step per product; the other two    *)
(* routes answer from what NewStore prepared.  Requests share nothing they *)
(* write to, so one request at a time shows all there is.                  *)
(***************************************************************************)
EXTENDS Subsequences

CONSTANTS
  Catalogues,  \* what seed() may return: sequences of products
  Owners, Categories, Prices,
  Names,       \* product names
  Strings,     \* query strings
  Empty,       \* ""
  Found,       \* Found[s] = the names whose lower case contains the lower case of s
  Limits,      \* lookup limits
  Nothing      \* a nil pointer, or an absent header

Product == [owner : Owners, name : Names, price : Prices, category : Categories]
Filter == [category : Categories \cup {Nothing}, max : Prices \cup {Nothing}]
Query == [query : Strings \cup {Empty}, limit : Limits]

ASSUME DataAssumption ==
  /\ Catalogues \subseteq Seq(Product)
  /\ Prices \subseteq Int /\ Limits \subseteq Int
  /\ Nothing \notin Categories /\ Nothing \notin Prices /\ Nothing \notin Owners
  /\ Found \in [Strings -> SUBSET Names]
  /\ Nothing \notin Filter /\ Nothing \notin Query
  /\ Empty \notin Strings

VARIABLES
  products,    \* Store.products
  lowerNames,  \* Store.lowerNames: names up to case
  pc,          \* "idle", "search" or "lookup" in the loop, "done"
  asked,       \* the filter or query of the request
  i,           \* products the loop has passed
  out,         \* the result so far
  status       \* HTTP status of the answer, 0 before it

vars == <<products, lowerNames, pc, asked, i, out, status>>
store == <<products, lowerNames>>

\* NewStore.
Init ==
  /\ products \in Catalogues
  /\ lowerNames = [k \in DOMAIN products |-> products[k].name]
  /\ pc = "idle"
  /\ asked = Nothing
  /\ i = 0
  /\ out = <<>>
  /\ status = 0

Answer(code, result) ==
  /\ pc' = "done"
  /\ out' = result
  /\ status' = code

\* A body that json.Unmarshal refuses.
BadBody ==
  /\ pc = "idle"
  /\ Answer(400, <<>>)
  /\ UNCHANGED <<store, asked, i>>

\* ByOwner: ownerIndex holds the products of each owner in the order of the catalogue.
ByOwner(uid) == Pick(products, {k \in DOMAIN products : products[k].owner = uid})

ListAll ==
  /\ pc = "idle"
  /\ Answer(200, products)
  /\ UNCHANGED <<store, asked, i>>

ListMine(uid) ==
  /\ pc = "idle"
  /\ IF uid = Nothing
     THEN Answer(401, <<>>)
     ELSE Answer(200, ByOwner(uid))
  /\ UNCHANGED <<store, asked, i>>

Begin(loop, request) ==
  /\ pc = "idle"
  /\ pc' = loop
  /\ asked' = request
  /\ i' = 0
  /\ out' = <<>>
  /\ UNCHANGED <<store, status>>

-----------------------------------------------------------------------------
(* Search.                                                                  *)

\* Mutant of Passes: the price limit is exclusive.
PassesBelow(p, f) ==
  /\ f.category # Nothing => p.category = f.category
  /\ f.max # Nothing => p.price < f.max

Passes(p, f) ==
  /\ f.category # Nothing => p.category = f.category
  /\ f.max # Nothing => p.price <= f.max

\* Mutant of SearchStep: the index advances in the loop head and in its body.
SearchStepTwice ==
  /\ pc = "search"
  /\ i < Len(products)
  /\ i' = i + 2
  /\ out' = IF Passes(products[i + 1], asked) THEN Append(out, products[i + 1]) ELSE out
  /\ UNCHANGED <<store, pc, asked, status>>

SearchStep ==
  /\ pc = "search"
  /\ i < Len(products)
  /\ i' = i + 1
  /\ out' = IF Passes(products[i + 1], asked) THEN Append(out, products[i + 1]) ELSE out
  /\ UNCHANGED <<store, pc, asked, status>>

SearchEnd ==
  /\ pc = "search"
  /\ i = Len(products)
  /\ Answer(200, out)
  /\ UNCHANGED <<store, asked, i>>

-----------------------------------------------------------------------------
(* Lookup.                                                                  *)

Limited(q) == q.limit > 0

\* Mutant of LookupAll: the empty query forgets its limit.
LookupAllUnlimited(q) ==
  /\ pc = "idle"
  /\ q.query = Empty
  /\ asked' = q
  /\ i' = Len(products)
  /\ Answer(200, products)
  /\ UNCHANGED store

\* The empty query: no loop, the first products of the catalogue.
LookupAll(q) ==
  /\ pc = "idle"
  /\ q.query = Empty
  /\ asked' = q
  /\ i' = Len(products)
  /\ Answer(200, IF Limited(q) /\ q.limit < Len(products)
                 THEN SubSeq(products, 1, q.limit) ELSE products)
  /\ UNCHANGED store

\* The break at the end of the loop body.
LimitReached == Limited(asked) /\ Len(out) >= asked.limit

LookupStep ==
  /\ pc = "lookup"
  /\ i < Len(products)
  /\ ~ LimitReached
  /\ i' = i + 1
  /\ out' = IF lowerNames[i + 1] \in Found[asked.query] THEN Append(out, products[i + 1]) ELSE out
  /\ UNCHANGED <<store, pc, asked, status>>

LookupEnd ==
  /\ pc = "lookup"
  /\ i = Len(products) \/ LimitReached
  /\ Answer(200, out)
  /\ UNCHANGED <<store, asked, i>>

-----------------------------------------------------------------------------
Next ==
  \/ BadBody \/ ListAll
  \/ \E uid \in Owners \cup {Nothing} : ListMine(uid)
  \/ \E f \in Filter : Begin("search", f)
  \/ SearchStep \/ SearchEnd
  \/ \E q \in Query : LookupAll(q) \/ (q.query # Empty /\ Begin("lookup", q))
  \/ LookupStep \/ LookupEnd

Spec == Init /\ [][Next]_vars

-----------------------------------------------------------------------------
(* Properties.                                                              *)

\* The variables keep to their types, and an answer has its status only once it is given.
TypeOK ==
  /\ products \in Catalogues
  /\ lowerNames = [k \in DOMAIN products |-> products[k].name]
  /\ pc \in {"idle", "search", "lookup", "done"}
  /\ asked \in Filter \cup Query \cup {Nothing}
  /\ pc = "idle" => asked = Nothing
  /\ pc = "search" => asked \in Filter
  /\ pc = "lookup" => asked \in Query /\ asked.query \in Strings
  /\ i \in 0 .. Len(products)
  /\ asked # Nothing => out \in Seq(Product)
  /\ status \in {0, 200, 400, 401}
  /\ pc # "done" => status = 0

First(s, n) == SubSeq(s, 1, IF n < Len(s) THEN n ELSE Len(s))

\* Store.Search gives exactly the products that pass the filter, in catalogue order.
SearchIsSelection ==
  pc = "done" /\ status = 200 /\ asked \in Filter =>
    out = Pick(products, {k \in DOMAIN products :
            /\ asked.category \in {Nothing, products[k].category}
            /\ asked.max = Nothing \/ ~ (products[k].price > asked.max)})

\* Store.Lookup gives the first limit products whose names contain the query up to case;
\* a limit that is not positive means none, and the empty query is in every name.
LookupIsPrefix ==
  pc = "done" /\ status = 200 /\ asked \in Query =>
    LET all == Pick(products, {k \in DOMAIN products :
                 asked.query = Empty \/ products[k].name \in Found[asked.query]})
    IN out = IF asked.limit > 0 THEN First(all, asked.limit) ELSE all

\* Whether p belongs in the answer to q.
Contains(p, q) == q.query = Empty \/ p.name \in Found[q.query]
=============================================================================
