--------------------------- MODULE ContractProofs ---------------------------
(***************************************************************************)
(* Proofs about Contract: for any clients, catalogue and lookup limit, and *)
(* however bodies are cut up.  Every request, through whichever gateway,   *)
(* is a request data-service knows, so what is proved of data-service      *)
(* holds behind the gateways.                                              *)
(***************************************************************************)
EXTENDS Contract, DataProofs

\* Who asks what through which gateway: none of it ever changes.
Asking ==
  /\ ask \in Clients
  /\ gate \in Gateways \cup {"direct"}
  /\ gate = "direct" => ask.route # "lookup"
  /\ gate # "direct" => ask.route # "internal"

\* A lookup that came through a gateway runs with the gateway's limit, or was refused.
LookupInv ==
  gate # "direct" /\ ask.route = "lookup" =>
    \/ asked = Nothing /\ out = <<>> /\ pc \in {"idle", "done"}
    \/ asked \in Query /\ asked.limit = LookupLimit /\ pc \in {"lookup", "done"}

CInv == Asking /\ LookupInv /\ DInv

-----------------------------------------------------------------------------
(* Types of what the gateways make of a request.                            *)

LEMMA SearchFilterType ==
  ASSUME Asking, ask.route = "search", Unmarshals(Decoded)
  PROVE  SearchFilter(Decoded) \in Filter
<1>1. ask \in Search
  BY ContractAssumption DEF Asking, PublicLookup, Mine, Items, InternalLookup
<1>2. Decoded = ask
  BY <1>1 DEF Decoded, Unmarshals, Search
<1>3. ask.category.kind = "string" => ask.category.text \in Categories
  BY <1>1 DEF Search, String, Others
<1>4. ask.max.kind = "int" => ask.max.number \in Prices
  BY <1>1 DEF Search, Number, Others
<1>. QED BY <1>2, <1>3, <1>4 DEF SearchFilter, Filter

LEMMA LookupInternalType ==
  ASSUME Asking, ask.route = "lookup", Accepts(Decoded)
  PROVE  /\ LookupInternal(Decoded) \in Query
         /\ LookupInternal(Decoded).limit = LookupLimit
<1>1. ask \in PublicLookup
  BY ContractAssumption DEF Asking, Search, Mine, Items, InternalLookup
<1>2. /\ Decoded.q = ask.q /\ Decoded.route = "lookup"
      /\ Decoded.top \in {"object", "list", "garbled"}
  BY <1>1 DEF Decoded, PublicLookup
<1>3. ask.q.kind = "string"
  <2>1. CASE PythonAccepts(Decoded)
    BY <1>2, <2>1 DEF PythonAccepts
  <2>2. CASE LuaAccepts(Decoded)
    <3>. DEFINE d == Decoded
    <3>1. d.route = "lookup" /\ d.top \in {"object", "list", "garbled"} /\ d.q = ask.q
      BY <1>2
    <3>2. LuaAccepts(d)
      BY <2>2
    <3>. HIDE DEF d
    <3>3. d.top = "object"
      BY <3>1, <3>2 DEF LuaAccepts
    <3>. QED BY <3>1, <3>2, <3>3 DEF LuaAccepts
  <2>3. CASE ApigateAccepts(Decoded)
    BY <1>2, <2>3 DEF ApigateAccepts, Borrowed
  <2>. QED BY <2>1, <2>2, <2>3 DEF Asking, Accepts
<1>4. ask.q.text \in Strings \cup {Empty}
  BY <1>1, <1>3 DEF PublicLookup, String, Others
<1>5. Trimmed(Decoded.q) \in Strings \cup {Empty}
  BY <1>2, <1>4, ContractAssumption DEF Trimmed
<1>. QED BY <1>5, ContractAssumption DEF LookupInternal, Query

LEMMA IdentityType ==
  ASSUME Asking, ask.route = "mine", NEW answer
  PROVE  /\ Identity(answer) \in Owners \cup {Nothing}
         /\ ask.claimed \in Owners \cup {Nothing}
<1>1. ask \in Mine
  BY ContractAssumption DEF Asking, Search, PublicLookup, Items, InternalLookup
<1>. QED BY <1>1, ContractAssumption DEF Mine, Identity

LEMMA DirectType ==
  ASSUME Asking, ask.route = "internal"
  PROVE  [query |-> ask.query, limit |-> ask.limit] \in Query
<1>1. ask \in InternalLookup
  BY ContractAssumption DEF Asking, Search, PublicLookup, Items, Mine
<1>. QED BY <1>1 DEF InternalLookup, Query

-----------------------------------------------------------------------------

\* Steps of the request that data-service has no part in.
Outside ==
  \/ \E n \in 0 .. Parts, more \in BOOLEAN : ReadFirst(n, more) \/ ReadNext(n, more)
  \/ Leave \/ TakeIn \/ UNCHANGED cvars

LEMMA OutsideFrame ==
  ASSUME Outside
  PROVE  UNCHANGED <<products, lowerNames, pc, asked, i, out, status, gate, ask>>
  BY DEF Outside, ReadFirst, ReadNext, Deliver, Leave, TakeIn, cvars, contract, vars

\* Each step of a request is a step of data-service, or none of its business.
LEMMA DataStep ==
  ASSUME Asking, [CNext]_cvars
  PROVE  [Next]_vars
<1>1. CASE Outside
  BY <1>1, OutsideFrame DEF vars
<1>2. CASE HandleItems
  BY <1>2 DEF HandleItems, Next
<1>3. ASSUME NEW answer \in Answers, HandleMine(answer) PROVE Next
  BY <1>3, IdentityType DEF HandleMine, Handle, Next
<1>4. CASE DirectMine
  BY <1>4, IdentityType DEF DirectMine, Handle, Next
<1>5. CASE HandleSearch
  BY <1>5, SearchFilterType DEF HandleSearch, Handle, Next
<1>6. CASE HandleLookup
  BY <1>6, LookupInternalType DEF HandleLookup, Handle, Take, Next
<1>7. CASE DirectLookup
  BY <1>7, DirectType DEF DirectLookup, Handle, Take, Next
<1>8. CASE Loops
  BY <1>8 DEF Loops, Next
<1>. QED BY <1>1, <1>2, <1>3, <1>4, <1>5, <1>6, <1>7, <1>8 DEF CNext, Outside

LEMMA AskingStep ==
  ASSUME Asking, [CNext]_cvars
  PROVE  Asking' /\ UNCHANGED <<gate, ask>>
<1>1. UNCHANGED <<gate, ask>>
  BY OutsideFrame DEF CNext, Outside, HandleItems, HandleMine, DirectMine, HandleSearch,
     HandleLookup, DirectLookup, Handle, Loops, contract, cvars
<1>. QED BY <1>1 DEF Asking

LEMMA LookupStepInv ==
  ASSUME CInv, [CNext]_cvars
  PROVE  LookupInv'
<1>. SUFFICES ASSUME gate # "direct", ask.route = "lookup"
             PROVE  LookupInv'
  BY AskingStep DEF CInv, LookupInv
<1>0. Asking /\ LookupInv
  BY DEF CInv
<1>. USE DEF LookupInv
<1>1. CASE Outside
  BY <1>0, <1>1, OutsideFrame
<1>2. CASE HandleLookup
  <2>1. CASE BadBody
    BY <1>0, <1>2, <2>1 DEF HandleLookup, Handle, BadBody, Answer, DInv, CInv, TypeOK
  <2>2. CASE Accepts(Decoded) /\ Take(LookupInternal(Decoded))
    <3>. DEFINE q == LookupInternal(Decoded)
    <3>1. q \in Query /\ q.limit = LookupLimit
      BY <1>0, <2>2, LookupInternalType
    <3>2. LookupAll(q) \/ Begin("lookup", q)
      BY <2>2 DEF Take
    <3>. HIDE DEF q
    <3>3. asked' = q /\ pc' \in {"lookup", "done"}
      BY <3>2 DEF LookupAll, Begin, Answer
    <3>. QED BY <3>1, <3>3
  <2>. QED BY <1>2, <2>1, <2>2 DEF HandleLookup
<1>3. CASE Loops
  <2>1. CASE SearchStep \/ SearchEnd
    BY <1>0, <2>1 DEF SearchStep, SearchEnd
  <2>2. CASE LookupStep \/ LookupEnd
    BY <1>0, <1>3, <2>2 DEF LookupStep, LookupEnd, Answer
  <2>. QED BY <1>3, <2>1, <2>2 DEF Loops
<1>4. ~ (HandleItems \/ DirectMine \/ HandleSearch \/ DirectLookup \/ \E a \in Answers : HandleMine(a))
  BY DEF HandleItems, DirectMine, HandleSearch, DirectLookup, HandleMine, Handle
<1>. QED BY <1>1, <1>2, <1>3, <1>4 DEF CNext, Outside

LEMMA CInitially ==
  ASSUME CInit
  PROVE  CInv /\ Init
<1>1. Init /\ Asking /\ LookupInv
  BY DEF CInit, Init, Asking, LookupInv
<1>. QED BY <1>1, Initially DEF CInv

LEMMA CInductive ==
  ASSUME CInv, [CNext]_cvars
  PROVE  CInv'
  BY AskingStep, DataStep, LookupStepInv, Inductive DEF CInv

LEMMA CInvariance == CSpec => []CInv
  BY CInitially, CInductive, PTL DEF CSpec

\* Whatever comes through a gateway is a behaviour data-service has on its own: gateways
\* add no request that its loops were not written for.
THEOREM ContractImplementsData == CSpec => Spec
<1>1. CInit => Init
  BY DEF CInit
<1>2. ASSUME CInv, [CNext]_cvars PROVE [Next]_vars
  BY <1>2, DataStep DEF CInv
<1>. QED BY <1>1, <1>2, CInvariance, PTL DEF CSpec, Spec

\* Through a gateway nobody looks up more than the gateway's limit.
THEOREM GatewayLookupsLimited == CSpec => []LookupsLimited
<1>1. CInv => LookupsLimited
  <2>. SUFFICES ASSUME CInv, gate # "direct", ask.route = "lookup"
               PROVE  Len(out) <= LookupLimit
    BY DEF LookupsLimited
  <2>1. CASE asked = Nothing /\ out = <<>>
    BY <2>1, ContractAssumption, DataAssumption
  <2>2. CASE asked \in Query /\ asked.limit = LookupLimit
    <3>1. LookupExact
      BY DEF CInv, DInv
    <3>. QED BY <2>2, <3>1, ContractAssumption DEF LookupExact, Limited
  <2>. QED BY <2>1, <2>2 DEF CInv, LookupInv
<1>. QED BY <1>1, CInvariance, PTL

-----------------------------------------------------------------------------
(* From what the client asked to what it is answered.                       *)

\* The pieces that have arrived are in order, none of them missing, and the handler has
\* them all; before it runs there is no trace of the request in data-service.
BodyInv ==
  /\ at \in {"client", "chunks", "handler", "data", "gone"}
  /\ fed \in Nat
  /\ at = "client" => fed = 0
  /\ at = "chunks" => got = [k \in 1 .. fed |-> k]
  /\ at = "handler" => got = Whole
  /\ at # "data" => pc = "idle" /\ asked = Nothing /\ out = <<>>

Refused == pc = "done" /\ status = 400 /\ out = <<>> /\ asked = Nothing

\* The loop runs for the filter, or the query, that the client's body stands for.
Running(loop, request) ==
  /\ asked = request
  /\ pc \in {loop, "done"}
  /\ pc = "done" => status = 200

MineInv ==
  /\ pc = "done" /\ asked = Nothing
  /\ verdict = "user" => ask.token # Nothing /\ TokenOwner[ask.token] # Nothing
  /\ <<status, out>> = IF verdict = "user" THEN <<200, ByOwner(TokenOwner[ask.token])>>
                                           ELSE <<401, <<>>>>

SearchInv ==
  IF Accepts(ask) /\ Unmarshals(ask) THEN Running("search", SearchFilter(ask)) ELSE Refused

QueryInv ==
  IF Accepts(ask) THEN Running("lookup", LookupInternal(ask)) ELSE Refused

AnswerInv ==
  at = "data" /\ gate # "direct" =>
    /\ ask.route = "items" => pc = "done" /\ status = 200 /\ out = products /\ asked = Nothing
    /\ ask.route = "mine" => MineInv
    /\ ask.route = "search" => SearchInv
    /\ ask.route = "lookup" => QueryInv

AInv == CInv /\ LoopInv /\ BodyInv /\ AnswerInv

\* What a request looks like on each route.
LEMMA Requests ==
  ASSUME Asking
  PROVE  /\ ask.route \in {"search", "lookup", "mine", "items", "internal"}
         /\ ask.route = "search" => ask \in Search
         /\ ask.route = "lookup" => ask \in PublicLookup
         /\ ask.route = "mine" => ask \in Mine
  BY ContractAssumption DEF Asking, Search, PublicLookup, Mine, Items, InternalLookup

\* The pieces so far, and the next ones.
LEMMA Joined ==
  ASSUME NEW f \in Nat, NEW n \in Nat
  PROVE  [k \in 1 .. f |-> k] \o [k \in 1 .. n |-> f + k] = [k \in 1 .. f + n |-> k]
<1>. DEFINE s == [k \in 1 .. f |-> k]
            t == [k \in 1 .. n |-> f + k]
            u == [k \in 1 .. f + n |-> k]
<1>1. /\ s \in Seq(Nat) /\ Len(s) = f /\ \A k \in 1 .. f : s[k] = k
      /\ t \in Seq(Nat) /\ Len(t) = n /\ \A k \in 1 .. n : t[k] = f + k
      /\ u \in Seq(Nat) /\ Len(u) = f + n /\ \A k \in 1 .. f + n : u[k] = k
  OBVIOUS
<1>. HIDE DEF s, t, u
<1>2. /\ s \o t \in Seq(Nat)
      /\ Len(s \o t) = f + n
      /\ \A k \in 1 .. f + n : (s \o t)[k] = IF k <= f THEN s[k] ELSE t[k - f]
  <2>1. /\ s \o t \in Seq(Nat)
        /\ Len(s \o t) = Len(s) + Len(t)
        /\ \A k \in 1 .. Len(s) + Len(t) :
             (s \o t)[k] = IF k <= Len(s) THEN s[k] ELSE t[k - Len(s)]
    <3>1. s \in Seq(Nat) /\ t \in Seq(Nat)
      BY <1>1
    <3>. QED BY <3>1, ConcatProperties
  <2>. QED BY <1>1, <2>1, Zenon
<1>3. ASSUME NEW k \in 1 .. f + n PROVE (s \o t)[k] = u[k]
  <2>1. CASE k <= f
    BY <1>1, <1>2, <2>1
  <2>2. CASE k > f
    <3>1. k - f \in 1 .. n /\ f + (k - f) = k
      BY <2>2
    <3>. QED BY <1>1, <1>2, <2>2, <3>1
  <2>3. k <= f \/ k > f
    OBVIOUS
  <2>. QED BY <2>1, <2>2, <2>3, Zenon
<1>4. s \o t = u
  BY <1>1, <1>2, <1>3, SeqEqual
<1>. QED BY <1>4 DEF s, t, u

LEMMA BodyStep ==
  ASSUME AInv, [CNext]_cvars
  PROVE  BodyInv'
<1>0. BodyInv /\ Asking /\ Parts \in Nat
  BY ContractAssumption DEF AInv, CInv
<1>. USE DEF BodyInv
<1>1. ASSUME NEW n \in 0 .. Parts, NEW more \in BOOLEAN, ReadFirst(n, more) \/ ReadNext(n, more)
      PROVE  BodyInv'
  <2>1. /\ at \in {"client", "chunks"} /\ fed' = fed + n /\ n \in Nat
        /\ more \/ fed + n = Parts
        /\ at' = IF more THEN "chunks" ELSE "handler"
        /\ pc' = pc /\ asked' = asked /\ out' = out
    BY <1>0, <1>1 DEF ReadFirst, ReadNext, Deliver, vars
  <2>2. got' = [k \in 1 .. fed + n |-> k]
    <3>1. CASE at = "client"
      <4>1. got' = Piece(n) /\ fed = 0
        BY <1>0, <1>1, <3>1 DEF ReadFirst, ReadNext
      <4>. QED BY <2>1, <4>1 DEF Piece
    <3>2. CASE at = "chunks"
      <4>1. got' = [k \in 1 .. fed |-> k] \o [k \in 1 .. n |-> fed + k] /\ fed \in Nat
        BY <1>0, <1>1, <3>2 DEF ReadFirst, ReadNext, Piece
      <4>. QED BY <2>1, <4>1, Joined
    <3>. QED BY <2>1, <3>1, <3>2
  <2>3. CASE more
    BY <1>0, <2>1, <2>2, <2>3
  <2>4. CASE ~ more
    BY <1>0, <2>1, <2>2, <2>4 DEF Whole
  <2>. QED BY <2>3, <2>4
<1>2. CASE Leave \/ TakeIn
  BY <1>0, <1>2 DEF Leave, TakeIn, vars
<1>3. CASE HandleItems \/ DirectMine \/ HandleSearch \/ HandleLookup \/ DirectLookup
           \/ \E answer \in Answers : HandleMine(answer)
  BY <1>0, <1>3 DEF HandleItems, DirectMine, HandleSearch, HandleLookup, DirectLookup, HandleMine, Handle
<1>4. CASE Loops
  <2>1. at = "data"
    BY <1>0, <1>4 DEF Loops, SearchStep, SearchEnd, LookupStep, LookupEnd
  <2>. QED BY <1>0, <1>4, <2>1 DEF Loops, contract
<1>5. CASE UNCHANGED cvars
  BY <1>0, <1>5 DEF cvars, contract, vars
<1>. QED BY <1>1, <1>2, <1>3, <1>4, <1>5 DEF CNext

\* The handlers have the whole body, so they decode what the client wrote.
LEMMA DecodedAsAsked ==
  ASSUME BodyInv, at = "handler"
  PROVE  Decoded = ask
  BY DEF BodyInv, Decoded

\* Whatever leaves gate, ask and catalogue alone leaves alone what the answer should be.
LEMMA SameRequest ==
  ASSUME UNCHANGED <<gate, ask, products>>
  PROVE  /\ Accepts(ask)' <=> Accepts(ask)
         /\ Unmarshals(ask)' <=> Unmarshals(ask)
         /\ SearchFilter(ask)' = SearchFilter(ask)
         /\ LookupInternal(ask)' = LookupInternal(ask)
         /\ \A uid : ByOwner(uid)' = ByOwner(uid)
  BY DEF Accepts, PythonAccepts, LuaAccepts, ApigateAccepts, IsInteger, Borrowed, Unmarshals,
         SearchFilter, LookupInternal, Trimmed, ByOwner

LEMMA AnswerStep ==
  ASSUME AInv, [CNext]_cvars
  PROVE  AnswerInv'
<1>. SUFFICES ASSUME at' = "data", gate # "direct" PROVE AnswerInv'
  BY AskingStep DEF AInv, CInv, AnswerInv
<1>0. /\ Asking /\ BodyInv /\ AnswerInv /\ TypeOK /\ gate' = gate /\ ask' = ask
      /\ products' = products
  BY AskingStep, CInductive, DataStep DEF AInv, CInv, DInv, TypeOK, Next, vars, BadBody, ListAll,
     ListMine, Begin, SearchStep, SearchEnd, LookupAll, LookupStep, LookupEnd, store
<1>1. CASE Outside
  <2>1. UNCHANGED cvars
    BY <1>1 DEF Outside, ReadFirst, ReadNext, Deliver, Leave, TakeIn
  <2>. QED BY <1>0, <2>1, SameRequest DEF cvars, contract, vars, AnswerInv, MineInv, SearchInv,
           QueryInv, Running, Refused
<1>2. CASE HandleItems
  BY <1>0, <1>2 DEF HandleItems, Handle, ListAll, Answer, AnswerInv, BodyInv
<1>3. ASSUME NEW answer \in Answers, HandleMine(answer) PROVE AnswerInv'
  <2>1. /\ ask.route = "mine" /\ verdict' = answer /\ pc' = "done" /\ asked' = Nothing
        /\ answer = "user" => ask.token # Nothing /\ TokenOwner[ask.token] # Nothing
    BY <1>0, <1>3 DEF HandleMine, Handle, ListMine, Answer, BodyInv
  <2>2. Identity(answer) = IF answer = "user" THEN TokenOwner[ask.token] ELSE Nothing
    BY <2>1 DEF Identity
  <2>3. <<status', out'>> = IF answer = "user" THEN <<200, ByOwner(TokenOwner[ask.token])>>
                                               ELSE <<401, <<>>>>
    BY <1>3, <2>1, <2>2 DEF HandleMine, ListMine, Answer
  <2>4. MineInv'
    BY <1>0, <2>1, <2>3, SameRequest DEF MineInv
  <2>. QED BY <1>0, <2>1, <2>4 DEF AnswerInv
<1>4. CASE HandleSearch
  <2>1. ask.route = "search" /\ Decoded = ask /\ asked = Nothing
    BY <1>0, <1>4, DecodedAsAsked DEF HandleSearch, Handle, BodyInv
  <2>2. SearchInv'
    BY <1>0, <1>4, <2>1, SameRequest DEF HandleSearch, SearchInv, Running, Refused, Begin, BadBody, Answer
  <2>. QED BY <1>0, <2>1, <2>2 DEF AnswerInv
<1>5. CASE HandleLookup
  <2>1. ask.route = "lookup" /\ Decoded = ask /\ asked = Nothing
    BY <1>0, <1>5, DecodedAsAsked DEF HandleLookup, Handle, BodyInv
  <2>2. QueryInv'
    BY <1>0, <1>5, <2>1, SameRequest DEF HandleLookup, QueryInv, Running, Refused, Take, Begin,
       LookupAll, BadBody, Answer
  <2>. QED BY <1>0, <2>1, <2>2 DEF AnswerInv
<1>6. CASE Loops
  <2>1. /\ at = "data" /\ pc \in {"search", "lookup"} /\ asked' = asked
        /\ pc' = pc \/ (pc' = "done" /\ status' = 200)
    BY <1>0, <1>6 DEF Loops, contract, SearchStep, SearchEnd, LookupStep, LookupEnd, Answer
  <2>2. /\ ask.route \notin {"items", "mine"}
        /\ ask.route = "search" => SearchInv
        /\ ask.route = "lookup" => QueryInv
    BY <1>0, <2>1 DEF AnswerInv, MineInv
  <2>3. ask.route = "search" => SearchInv'
    BY <1>0, <2>1, <2>2, SameRequest DEF SearchInv, Running, Refused
  <2>4. ask.route = "lookup" => QueryInv'
    BY <1>0, <2>1, <2>2, SameRequest DEF QueryInv, Running, Refused
  <2>. QED BY <1>0, <2>2, <2>3, <2>4 DEF AnswerInv
<1>7. ~ (DirectMine \/ DirectLookup)
  BY <1>0 DEF DirectMine, DirectLookup, Handle, Asking
<1>. QED BY <1>1, <1>2, <1>3, <1>4, <1>5, <1>6, <1>7 DEF CNext, Outside

LEMMA AInvariance == CSpec => []AInv
<1>1. CInit => AInv
  <2>1. CInit => BodyInv /\ AnswerInv /\ LoopInv
    BY DEF CInit, Init, BodyInv, AnswerInv, LoopInv, SearchIsSelection, LookupIsPrefix
  <2>. QED BY <2>1, CInitially DEF AInv
<1>2. ASSUME AInv, [CNext]_cvars PROVE AInv'
  <2>1. LoopInv'
    BY <1>2, DataStep, LoopStep DEF AInv, CInv
  <2>. QED BY <1>2, <2>1, CInductive, BodyStep, AnswerStep DEF AInv
<1>. QED BY <1>1, <1>2, PTL DEF CSpec

\* Whatever filter a gateway passes on, and with it the direct caller's, Search answers with
\* the subsequence of the catalogue that passes it.
THEOREM SearchesStayRight == CSpec => []SearchIsSelection
  BY AInvariance, PTL DEF AInv, LoopInv

\* Whatever query and limit a gateway puts into the rewritten body, Lookup answers with the
\* first matches of the catalogue.
THEOREM LookupsStayRight == CSpec => []LookupIsPrefix
  BY AInvariance, PTL DEF AInv, LoopInv

\* Whoever a client says it is, behind a gateway it is listed the products of the owner of
\* the token it bears, and no others.
THEOREM OnlyOwnProducts == CSpec => []OwnProductsOnly
<1>1. AInv => OwnProductsOnly
  <2>. SUFFICES ASSUME AInv, gate # "direct", ask.route = "mine", NEW k \in 1 .. Len(out)
               PROVE  ask.token # Nothing /\ out[k].owner = TokenOwner[ask.token]
    BY DEF OwnProductsOnly
  <2>1. out # <<>>
    OBVIOUS
  <2>2. at = "data" /\ MineInv
    BY <2>1 DEF AInv, BodyInv, AnswerInv
  <2>3. ask.token # Nothing /\ out = ByOwner(TokenOwner[ask.token])
    BY <2>1, <2>2 DEF MineInv
  <2>4. products \in Seq(Product)
    BY Catalogue DEF AInv, CInv, DInv
  <2>. QED BY <2>3, <2>4, PickMembers DEF ByOwner
<1>. QED BY <1>1, AInvariance, PTL

-----------------------------------------------------------------------------
(* The contract.                                                            *)

\* The promise of a search, and when a gateway breaks it.
Searchable ==
  /\ ask.top = "object"
  /\ ask.category.kind \in {"absent", "null", "string"}
  /\ ask.max.kind \in {"absent", "null", "int"}

Suits(p) ==
  /\ ask.category.kind = "string" => p.category = ask.category.text
  /\ ask.max.kind = "int" => p.price <= ask.max.number

LEMMA SearchPromise ==
  ASSUME ask.route = "search"
  PROVE  Promised = IF Searchable THEN <<200, Pick(products, {k \in DOMAIN products : Suits(products[k])})>>
                                  ELSE <<400, <<>>>>
  BY DEF Promised, Searchable, Suits

LEMMA LookupPromise ==
  ASSUME ask.route = "lookup"
  PROVE  Promised = IF ask.top = "object" /\ ask.q.kind = "string"
                    THEN <<200, First(Pick(products, {k \in DOMAIN products :
                                        Contains(products[k], [query |-> ask.q.text])}), LookupLimit)>>
                    ELSE <<400, <<>>>>
  BY DEF Promised

LEMMA MinePromise ==
  ASSUME ask.route = "mine"
  PROVE  Promised = IF verdict = "user" THEN <<200, ByOwner(TokenOwner[ask.token])>> ELSE <<401, <<>>>>
  BY DEF Promised, ByOwner

LEMMA ItemsPromise ==
  ASSUME ask.route = "items"
  PROVE  Promised = <<200, products>>
  BY DEF Promised

\* A gateway accepts what the contract says it does, unless it is known to fall short.
LEMMA SearchAccepted ==
  ASSUME Asking, gate # "direct", ask.route = "search"
  PROVE  /\ FallsShort => ~ (Accepts(ask) /\ Unmarshals(ask))
         /\ ~ FallsShort => (Accepts(ask) /\ Unmarshals(ask) <=> Searchable)
<1>1. ask \in Search
  BY Requests
<1>2. /\ ask.top \in {"object", "list", "garbled"}
      /\ gate \in {"python", "kong", "apisix", "apigate"}
  BY <1>1 DEF Search, Asking, Gateways, Python, Lua, Apigate
<1>3. Unmarshals(ask) <=> Searchable
  BY DEF Unmarshals, Searchable
<1>4. CASE gate = "python"
  <2>1. Accepts(ask) <=> PythonAccepts(ask)
    BY <1>4 DEF Accepts, Python, Lua, Apigate
  <2>2. Searchable => PythonAccepts(ask)
    BY DEF Searchable, PythonAccepts
  <2>3. ~ FallsShort
    BY <1>4 DEF FallsShort, Lua, Apigate
  <2>. QED BY <1>3, <2>1, <2>2, <2>3
<1>5. CASE gate \in {"kong", "apisix"}
  <2>1. Accepts(ask) <=> LuaAccepts(ask)
    BY <1>5 DEF Accepts, Python, Lua, Apigate
  <2>2. FallsShort <=> ask.spooled \/ "null" \in {ask.category.kind, ask.max.kind}
    BY <1>5 DEF FallsShort, Lua, Apigate
  <2>. DEFINE takes ==
                /\ ~ ask.spooled
                /\ ask.category.kind \in {"absent", "string"}
                /\ ask.max.kind = "absent" \/ IsInteger(ask.max)
  <2>3. Searchable => (LuaAccepts(ask) <=> takes)
    BY DEF Searchable, LuaAccepts
  <2>4. ask.max.kind = "int" => IsInteger(ask.max)
    BY DEF IsInteger
  <2>5. ask.max.kind = "null" => ~ IsInteger(ask.max)
    BY DEF IsInteger
  <2>. QED BY <1>3, <2>1, <2>2, <2>3, <2>4, <2>5 DEF Searchable
<1>6. CASE gate = "apigate"
  <2>1. Accepts(ask) <=> ApigateAccepts(ask)
    BY <1>6 DEF Accepts, Python, Lua, Apigate
  <2>2. FallsShort <=> ask.category.kind = "string" /\ ask.category.escaped
    BY <1>6 DEF FallsShort, Lua, Apigate
  <2>3. Searchable => (ApigateAccepts(ask) <=>
                         ask.category.kind \in {"absent", "null"} \/ Borrowed(ask.category))
    BY DEF Searchable, ApigateAccepts
  <2>. QED BY <1>3, <2>1, <2>2, <2>3 DEF Searchable, Borrowed
<1>. QED BY <1>2, <1>4, <1>5, <1>6

\* What the search finds is what suits the client.
LEMMA SearchMeets ==
  ASSUME AInv, gate # "direct", pc = "done", ask.route = "search"
  PROVE  /\ FallsShort => out = <<>>
         /\ ~ FallsShort => <<status, out>> = Promised
<1>1. Asking /\ SearchInv /\ SearchIsSelection /\ products \in Seq(Product)
  BY Catalogue DEF AInv, CInv, DInv, BodyInv, AnswerInv, LoopInv
<1>2. CASE Accepts(ask) /\ Unmarshals(ask)
  <2>1. ~ FallsShort /\ Searchable /\ status = 200 /\ asked = SearchFilter(ask)
    BY <1>1, <1>2, SearchAccepted DEF SearchInv, Running
  <2>2. /\ ask.category.kind = "string" => ask.category.text \in Categories
        /\ ask.max.kind = "int" => ask.max.number \in Prices
    BY <1>1, Requests DEF Search, String, Number, Others
  <2>3. /\ asked.category = IF ask.category.kind = "string" THEN ask.category.text ELSE Nothing
        /\ asked.max = IF ask.max.kind = "int" THEN ask.max.number ELSE Nothing
        /\ asked \in Filter
    BY <2>1, <2>2 DEF SearchFilter, Filter
  <2>4. out = Pick(products, Searched)
    BY <1>1, <2>1, <2>3 DEF SearchIsSelection, Searched
  <2>5. ASSUME NEW k \in DOMAIN products PROVE k \in Searched <=> Suits(products[k])
    <3>. DEFINE p == products[k]
    <3>1. p.price \in Int /\ p.category # Nothing
      <4>1. p \in Product
        BY <1>1, LenProperties
      <4>. QED BY <4>1, DataAssumption DEF Product
    <3>2. k \in Searched <=>
            /\ asked.category \in {Nothing, p.category}
            /\ asked.max = Nothing \/ ~ (p.price > asked.max)
      BY DEF Searched
    <3>. HIDE DEF p
    <3>3. asked.category \in {Nothing, p.category} <=>
            (ask.category.kind = "string" => p.category = ask.category.text)
      BY <2>2, <2>3, <3>1, DataAssumption
    <3>4. asked.max = Nothing \/ ~ (p.price > asked.max) <=>
            (ask.max.kind = "int" => p.price <= ask.max.number)
      <4>1. CASE ask.max.kind = "int"
        <5>1. asked.max = ask.max.number /\ asked.max \in Int /\ asked.max # Nothing
          BY <2>2, <2>3, <4>1, DataAssumption
        <5>. QED BY <3>1, <4>1, <5>1
      <4>2. CASE ask.max.kind # "int"
        BY <2>3, <4>2
      <4>. QED BY <4>1, <4>2
    <3>. QED BY <3>2, <3>3, <3>4 DEF p, Suits
  <2>6. Searched = {k \in DOMAIN products : Suits(products[k])}
    BY <2>5 DEF Searched
  <2>. QED BY <2>1, <2>4, <2>6, SearchPromise
<1>3. CASE ~ (Accepts(ask) /\ Unmarshals(ask))
  <2>1. status = 400 /\ out = <<>>
    BY <1>1, <1>3 DEF SearchInv, Refused
  <2>2. ~ FallsShort => ~ Searchable
    BY <1>1, <1>3, SearchAccepted
  <2>. QED BY <2>1, <2>2, SearchPromise
<1>. QED BY <1>2, <1>3

LEMMA LookupAccepted ==
  ASSUME Asking, gate # "direct", ask.route = "lookup"
  PROVE  /\ Accepts(ask) => ask.q.kind = "string"
         /\ FallsShort /\ Accepts(ask) => gate \in Lua /\ ask.q.pad = "wide"
         /\ Exceeds => ~ FallsShort /\ Accepts(ask)
         /\ ~ FallsShort /\ ~ Exceeds =>
              (Accepts(ask) <=> ask.top = "object" /\ ask.q.kind = "string")
         /\ ~ FallsShort /\ Accepts(ask) => ~ (gate \in Lua /\ ask.q.pad = "wide")
<1>1. ask \in PublicLookup
  BY Requests
<1>2. /\ ask.top \in {"object", "list", "garbled"}
      /\ gate \in {"python", "kong", "apisix", "apigate"}
  BY <1>1 DEF PublicLookup, Asking, Gateways, Python, Lua, Apigate
<1>3. CASE gate = "python"
  <2>1. Accepts(ask) <=> ask.top = "object" /\ ask.q.kind = "string"
    BY <1>3 DEF Accepts, Python, Lua, Apigate, PythonAccepts
  <2>2. ~ FallsShort /\ ~ Exceeds /\ gate \notin Lua
    BY <1>3 DEF FallsShort, Exceeds, Lua, Apigate
  <2>. QED BY <2>1, <2>2
<1>4. CASE gate \in {"kong", "apisix"}
  <2>1. Accepts(ask) <=> LuaAccepts(ask)
    BY <1>4 DEF Accepts, Python, Lua, Apigate
  <2>2. LuaAccepts(ask) <=> ~ ask.spooled /\ ask.top = "object" /\ ask.q.kind = "string"
    BY <1>2 DEF LuaAccepts
  <2>3. /\ FallsShort <=> ask.spooled \/ (ask.q.kind = "string" /\ ask.q.pad = "wide")
        /\ ~ Exceeds /\ gate \in Lua
    BY <1>4 DEF FallsShort, Exceeds, Lua, Apigate
  <2>. QED BY <2>1, <2>2, <2>3
<1>5. CASE gate = "apigate"
  <2>1. Accepts(ask) <=> ask.top # "garbled" /\ Borrowed(ask.q)
    BY <1>5 DEF Accepts, Python, Lua, Apigate, ApigateAccepts
  <2>2. /\ FallsShort <=> ask.q.kind = "string" /\ ask.q.escaped
        /\ Exceeds <=> ask.top = "list" /\ Borrowed(ask.q)
        /\ gate \notin Lua
    BY <1>5 DEF FallsShort, Exceeds, Lua, Apigate
  <2>. QED BY <1>2, <2>1, <2>2 DEF Borrowed
<1>. QED BY <1>2, <1>3, <1>4, <1>5

\* What the lookup finds is what contains the client's words.
LEMMA LookupMeets ==
  ASSUME AInv, gate # "direct", pc = "done", ask.route = "lookup"
  PROVE  /\ FallsShort => out = <<>>
         /\ Exceeds => ~ FallsShort /\ status = 200
         /\ ~ FallsShort /\ ~ Exceeds => <<status, out>> = Promised
<1>1. /\ Asking /\ QueryInv /\ LookupIsPrefix /\ products \in Seq(Product)
      /\ DOMAIN products = 1 .. Len(products)
  BY Catalogue, LenProperties DEF AInv, CInv, DInv, BodyInv, AnswerInv, LoopInv
<1>2. CASE Accepts(ask)
  <2>1. status = 200 /\ asked = LookupInternal(ask)
    BY <1>1, <1>2 DEF QueryInv, Running
  <2>2. ask.q.kind = "string" /\ ask.q.text \in Strings \cup {Empty}
    BY <1>1, <1>2, LookupAccepted, Requests DEF PublicLookup, String, Others
  <2>3. asked \in Query /\ asked.limit = LookupLimit /\ LookupLimit > 0 /\ asked.query = Trimmed(ask.q)
    BY <2>1, <2>2, ContractAssumption DEF LookupInternal, Query, Trimmed
  <2>4. out = First(Pick(products, LookedUp), LookupLimit)
    BY <1>1, <2>1, <2>3 DEF LookupIsPrefix, LookedUp
  <2>5. ASSUME FallsShort PROVE out = <<>>
    <3>1. asked.query = Spaced[ask.q.text]
      BY <1>1, <1>2, <2>3, <2>5, LookupAccepted DEF Trimmed
    <3>2. asked.query \in Strings /\ asked.query # Empty /\ Found[asked.query] = {}
      BY <2>2, <3>1, ContractAssumption, DataAssumption
    <3>3. LookedUp = {}
      BY <3>2 DEF LookedUp
    <3>4. Pick(products, LookedUp) = <<>>
      BY <1>1, <3>3, PickNone
    <3>5. LookupLimit \in Int /\ <<>> \in Seq(Product) /\ Len(<<>>) <= LookupLimit
      BY ContractAssumption, DataAssumption
    <3>6. First(<<>>, LookupLimit) = <<>>
      BY <3>5, FirstProperties
    <3>. QED BY <2>4, <3>4, <3>6
  <2>6. ASSUME ~ FallsShort, ~ Exceeds PROVE <<status, out>> = Promised
    <3>1. asked.query = ask.q.text /\ ask.top = "object"
      BY <1>1, <1>2, <2>3, <2>6, LookupAccepted DEF Trimmed
    <3>2. LookedUp = {k \in DOMAIN products : Contains(products[k], [query |-> ask.q.text])}
      BY <3>1 DEF LookedUp, Contains
    <3>. QED BY <2>1, <2>2, <2>4, <3>1, <3>2, LookupPromise
  <2>. QED BY <1>1, <2>1, <2>5, <2>6, LookupAccepted
<1>3. CASE ~ Accepts(ask)
  <2>1. status = 400 /\ out = <<>>
    BY <1>1, <1>3 DEF QueryInv, Refused
  <2>2. ~ Exceeds /\ (~ FallsShort => ~ (ask.top = "object" /\ ask.q.kind = "string"))
    BY <1>1, <1>3, LookupAccepted
  <2>. QED BY <2>1, <2>2, LookupPromise
<1>. QED BY <1>2, <1>3

\* However its body was cut up, whatever the catalogue: a client of gateway-python gets what
\* the README promises, and so does every other client but in the cases that FallsShort and
\* Exceeds name; where a gateway falls short, no product is listed.
THEOREM ContractMet == CSpec => []MeetsContract
<1>1. ASSUME AInv PROVE MeetsContract
  <2>. SUFFICES ASSUME gate # "direct", pc = "done"
               PROVE  /\ HasBody(ask) /\ FallsShort => out = <<>>
                      /\ HasBody(ask) /\ Exceeds => ~ FallsShort /\ status = 200
                      /\ ~ (HasBody(ask) /\ FallsShort) /\ ~ (HasBody(ask) /\ Exceeds) =>
                           <<status, out>> = Promised
    BY DEF MeetsContract
  <2>1. Asking /\ at = "data" /\ AnswerInv
    BY <1>1 DEF AInv, CInv, BodyInv
  <2>2. CASE ask.route = "search"
    BY <1>1, <2>2, SearchMeets DEF HasBody, Exceeds
  <2>3. CASE ask.route = "lookup"
    BY <1>1, <2>3, LookupMeets DEF HasBody
  <2>4. CASE ask.route = "mine"
    BY <2>1, <2>4, MinePromise DEF HasBody, AnswerInv, MineInv
  <2>5. CASE ask.route = "items"
    BY <2>1, <2>5, ItemsPromise DEF HasBody, AnswerInv
  <2>6. ask.route # "internal"
    BY <2>1 DEF Asking
  <2>. QED BY <2>1, <2>2, <2>3, <2>4, <2>5, <2>6, Requests
<1>. QED BY <1>1, AInvariance, PTL
=============================================================================
