------------------------------ MODULE Contract ------------------------------
(***************************************************************************)
(* The public contract: one request of a client, through one of the four   *)
(* gateways or (gate "direct") from another service, to data-service.  The *)
(* gateways differ in how they take in a body, what they accept of it and  *)
(* how they trim a lookup; the rest of the way is the same for all.        *)
(*                                                                         *)
(* A body is Parts pieces, which mean nothing unless they are all there,   *)
(* in order.  JSON values are told apart by what one of the decoders tells *)
(* apart.  External: nginx's body buffer, serde_json and the apigate crate.*)
(***************************************************************************)
EXTENDS DataService

CONSTANTS
  Clients,      \* the requests that clients make
  Tokens,       \* Authorization header values
  TokenOwner,   \* the user auth-service knows behind a token, or Nothing
  Spaced,       \* Spaced[s] = s after a no-break space, which is no ASCII space
  LookupLimit,  \* _LOOKUP_LIMIT, LOOKUP_LIMIT, limit: 20
  Parts         \* bound: pieces a body may arrive in

Python == "python"
Lua == {"kong", "apisix"}
Apigate == "apigate"
Gateways == Lua \cup {Python, Apigate}

\* Strings: pad is what surrounds the text, escaped whether its JSON form has a backslash.
String(texts) == [kind : {"string"}, text : texts, pad : {"none", "ascii", "wide"}, escaped : BOOLEAN]
Number == [kind : {"int"}, number : Prices] \cup [kind : {"float"}, whole : BOOLEAN]
Others == [kind : {"absent", "null", "other"}]

\* top: an object, an array of the fields' values in order, or no JSON; spooled: too long
\* for nginx to keep in memory.
Search == [route : {"search"}, top : {"object", "list", "garbled"}, spooled : BOOLEAN,
           category : String(Categories) \cup Others, max : Number \cup Others]
PublicLookup == [route : {"lookup"}, top : {"object", "list", "garbled"}, spooled : BOOLEAN,
                 q : String(Strings \cup {Empty}) \cup Others]
Mine == [route : {"mine"}, token : Tokens \cup {Nothing}, claimed : Owners \cup {Nothing}]
Items == [route : {"items"}]
InternalLookup == [route : {"internal"}, query : Strings \cup {Empty}, limit : Limits]

ASSUME ContractAssumption ==
  /\ Clients \subseteq Search \cup PublicLookup \cup Mine \cup Items \cup InternalLookup
  /\ Nothing \notin Tokens
  /\ TokenOwner \in [Tokens -> Owners \cup {Nothing}]
  /\ Spaced \in [Strings \cup {Empty} -> Strings]
  /\ \A s \in Strings \cup {Empty} : Found[Spaced[s]] = {}  \* seed() names products in ASCII
  /\ LookupLimit \in Limits /\ LookupLimit > 0
  /\ Parts \in Nat \ {0}

VARIABLES
  gate,     \* the gateway the client talks to, or "direct"
  ask,      \* the client's request
  at,       \* "client", "chunks" in read_body's second loop, "handler", "data", "gone"
  fed,      \* pieces of the body that have arrived
  got,      \* pieces read_body has put together
  verdict   \* what auth-service answered to /verify

contract == <<gate, ask, at, fed, got, verdict>>
cvars == <<vars, contract>>

HasBody(r) == r.route \in {"search", "lookup"}
Whole == [k \in 1 .. Parts |-> k]

\* Only data-service itself takes the internal form of a lookup, and takes no other.
CInit ==
  /\ Init
  /\ gate \in Gateways \cup {"direct"}
  /\ ask \in Clients
  /\ gate = "direct" => ask.route # "lookup"
  /\ gate # "direct" => ask.route # "internal"
  /\ at = "client"
  /\ fed = 0
  /\ got = <<>>
  /\ verdict = Nothing

-----------------------------------------------------------------------------
(* The body on its way in.                                                  *)

Streams == gate = Python /\ HasBody(ask)

\* An http.request message with n pieces of the body.
Deliver(n, more) ==
  /\ fed + n <= Parts
  /\ more \/ fed + n = Parts
  /\ fed' = fed + n
  /\ at' = IF more THEN "chunks" ELSE "handler"
  /\ UNCHANGED <<vars, gate, ask, verdict>>

Piece(n) == [k \in 1 .. n |-> fed + k]

\* The first message; without more_body it is the body.
ReadFirst(n, more) ==
  /\ at = "client" /\ Streams
  /\ Deliver(n, more)
  /\ got' = Piece(n)

\* Mutant of ReadNext: the last message ends the loop before its chunk is appended.
ReadNextButLast(n, more) ==
  /\ at = "chunks"
  /\ Deliver(n, more)
  /\ got' = IF more THEN got \o Piece(n) ELSE got

ReadNext(n, more) ==
  /\ at = "chunks"
  /\ Deliver(n, more)
  /\ got' = got \o Piece(n)

\* ClientDisconnected, in either loop.
Leave ==
  /\ at \in {"client", "chunks"} /\ Streams
  /\ at' = "gone"
  /\ UNCHANGED <<vars, gate, ask, fed, got, verdict>>

\* Everybody else has the body, if there is one, before the handler runs.
TakeIn ==
  /\ at = "client" /\ ~ Streams
  /\ at' = "handler"
  /\ fed' = Parts /\ got' = Whole
  /\ UNCHANGED <<vars, gate, ask, verdict>>

-----------------------------------------------------------------------------
(* What the decoders accept.                                                *)

Decoded == IF got = Whole THEN ask ELSE [ask EXCEPT !.top = "garbled"]

\* SearchInput and LookupInput of schemas.py, decoded by msgspec without coercion.
PythonAccepts(r) ==
  /\ r.top = "object"
  /\ IF r.route = "search"
     THEN r.category.kind \in {"absent", "null", "string"} /\ r.max.kind \in {"absent", "null", "int"}
     ELSE r.q.kind = "string"

IsInteger(v) == v.kind = "int" \/ (v.kind = "float" /\ v.whole)

\* validate and remap.  An array is a table without the fields; a null is a value, not nil.
LuaAccepts(r) ==
  /\ ~ r.spooled
  /\ CASE r.top = "garbled" -> FALSE
       [] r.top = "list" -> r.route = "search"
       [] r.top = "object" ->
            IF r.route = "search"
            THEN /\ r.category.kind \in {"absent", "string"}
                 /\ r.max.kind = "absent" \/ IsInteger(r.max)
            ELSE r.q.kind = "string"

\* A &str is a slice of the body: there is none if the body spells it with a backslash.
Borrowed(v) == v.kind = "string" /\ ~ v.escaped

\* SearchInput and LookupInput of routes.rs.  serde takes an array for a struct, if it has
\* every field.
ApigateAccepts(r) ==
  /\ r.top # "garbled"
  /\ IF r.route = "search"
     THEN /\ r.category.kind \in {"absent", "null"} \/ Borrowed(r.category)
          /\ r.max.kind \in {"absent", "null", "int"}
          /\ r.top = "list" => "absent" \notin {r.category.kind, r.max.kind}
     ELSE Borrowed(r.q)

Accepts(r) ==
  \/ gate = Python /\ PythonAccepts(r)
  \/ gate \in Lua /\ LuaAccepts(r)
  \/ gate = Apigate /\ ApigateAccepts(r)
  \/ gate = "direct"

\* json.Unmarshal into searchInput: nulls leave the pointers nil.
Unmarshals(r) ==
  /\ r.top = "object"
  /\ r.category.kind \in {"absent", "null", "string"}
  /\ r.max.kind \in {"absent", "null", "int"}

SearchFilter(r) ==
  [category |-> IF r.category.kind = "string" THEN r.category.text ELSE Nothing,
   max |-> IF r.max.kind = "int" THEN r.max.number ELSE Nothing]

\* strip() and trim() know Unicode's spaces, Lua's %s only those of ASCII.
Trimmed(v) == IF v.pad = "wide" /\ gate \in Lua THEN Spaced[v.text] ELSE v.text

\* Mutant of LookupInternal: the limit is left at its zero value.
LookupInternalNoLimit(r) == [query |-> Trimmed(r.q), limit |-> 0]

\* The internal form of a lookup; data-service ignores its source.
LookupInternal(r) == [query |-> Trimmed(r.q), limit |-> LookupLimit]

-----------------------------------------------------------------------------
(* The handlers, up to the loops of data-service.                           *)

Handle(route) ==
  /\ at = "handler"
  /\ ask.route = route
  /\ at' = "data"
  /\ UNCHANGED <<gate, ask, fed, got>>

HandleItems == Handle("items") /\ ListAll /\ UNCHANGED verdict

\* Answers of auth-service: only a 2xx that names the user will do.
Answers == {"none", "refused", "not JSON", "nobody", "user"}

\* Mutant of Identity: the x-user-id of the client is left where auth-service names nobody.
IdentityOrClaimed(answer) ==
  IF ask.token # Nothing /\ answer = "user" THEN TokenOwner[ask.token] ELSE ask.claimed

Identity(answer) ==
  IF ask.token # Nothing /\ answer = "user" THEN TokenOwner[ask.token] ELSE Nothing

\* require_auth.  Its own 401 is the one data-service gives a request without x-user-id.
HandleMine(answer) ==
  /\ Handle("mine")
  /\ gate # "direct"
  /\ answer = "user" => ask.token # Nothing /\ TokenOwner[ask.token] # Nothing
  /\ verdict' = answer
  /\ ListMine(Identity(answer))

\* Without a gateway the header is believed.
DirectMine == Handle("mine") /\ gate = "direct" /\ ListMine(ask.claimed) /\ UNCHANGED verdict

\* Whether it is the gateway that refuses the body or data-service, the answer is a 400.
HandleSearch ==
  /\ Handle("search")
  /\ IF Accepts(Decoded) /\ Unmarshals(Decoded) THEN Begin("search", SearchFilter(Decoded)) ELSE BadBody
  /\ UNCHANGED verdict

Take(q) == LookupAll(q) \/ (q.query # Empty /\ Begin("lookup", q))

HandleLookup ==
  /\ Handle("lookup")
  /\ IF Accepts(Decoded) THEN Take(LookupInternal(Decoded)) ELSE BadBody
  /\ UNCHANGED verdict

DirectLookup ==
  /\ Handle("internal")
  /\ Take([query |-> ask.query, limit |-> ask.limit])
  /\ UNCHANGED verdict

Loops == (SearchStep \/ SearchEnd \/ LookupStep \/ LookupEnd) /\ UNCHANGED contract

CNext ==
  \/ \E n \in 0 .. Parts, more \in BOOLEAN : ReadFirst(n, more) \/ ReadNext(n, more)
  \/ Leave \/ TakeIn
  \/ HandleItems \/ DirectMine \/ HandleSearch \/ HandleLookup \/ DirectLookup
  \/ \E answer \in Answers : HandleMine(answer)
  \/ Loops

CSpec == CInit /\ [][CNext]_cvars

-----------------------------------------------------------------------------
(* Properties.                                                              *)

\* What the README's table promises the client of any gateway.
Promised ==
  LET ok(result) == <<200, result>>
      chosen(P(_)) == Pick(products, {k \in DOMAIN products : P(products[k])})
  IN CASE ask.route = "items" -> ok(products)
       [] ask.route = "mine" ->
            IF verdict = "user" THEN ok(chosen(LAMBDA p : p.owner = TokenOwner[ask.token]))
                                ELSE <<401, <<>>>>
       [] ask.route = "search" ->
            IF /\ ask.top = "object"
               /\ ask.category.kind \in {"absent", "null", "string"}
               /\ ask.max.kind \in {"absent", "null", "int"}
            THEN ok(chosen(LAMBDA p :
                   /\ ask.category.kind = "string" => p.category = ask.category.text
                   /\ ask.max.kind = "int" => p.price <= ask.max.number))
            ELSE <<400, <<>>>>
       [] ask.route = "lookup" ->
            IF ask.top = "object" /\ ask.q.kind = "string"
            THEN ok(First(chosen(LAMBDA p : Contains(p, [query |-> ask.q.text])), LookupLimit))
            ELSE <<400, <<>>>>

\* Where gateways part: Lua refuses nulls and long bodies and leaves Unicode's spaces on,
\* apigate refuses escaped strings.
FallsShort ==
  \/ gate \in Lua /\ ask.spooled
  \/ gate \in Lua /\ ask.route = "search" /\ "null" \in {ask.category.kind, ask.max.kind}
  \/ gate \in Lua /\ ask.route = "lookup" /\ ask.q.kind = "string" /\ ask.q.pad = "wide"
  \/ gate = Apigate /\ ask.route = "search" /\ ask.category.kind = "string" /\ ask.category.escaped
  \/ gate = Apigate /\ ask.route = "lookup" /\ ask.q.kind = "string" /\ ask.q.escaped

\* apigate takes ["pen"] for {"q": "pen"}.
Exceeds == gate = Apigate /\ ask.route = "lookup" /\ ask.top = "list" /\ Borrowed(ask.q)

\* However its body was cut up, a client of gateway-python gets what the contract promises,
\* and so does a client of any other gateway but in the cases named above; where a gateway
\* falls short of the promise, its client gets no product rather than a wrong one.
MeetsContract ==
  gate # "direct" /\ pc = "done" =>
    CASE HasBody(ask) /\ FallsShort -> out = <<>>
      [] HasBody(ask) /\ Exceeds -> status = 200
      [] OTHER -> <<status, out>> = Promised

\* No client of a gateway makes data-service return more than LookupLimit products for a
\* lookup, although data-service itself sets no limit on what it is asked for.
LookupsLimited ==
  gate # "direct" /\ ask.route = "lookup" => Len(out) <= LookupLimit

\* Behind a gateway, data-service never takes a client's word for who it is: the products
\* of an owner are only listed to the bearer of a token of that owner.
OwnProductsOnly ==
  gate # "direct" /\ ask.route = "mine" =>
    \A k \in 1 .. Len(out) : ask.token # Nothing /\ out[k].owner = TokenOwner[ask.token]
=============================================================================
